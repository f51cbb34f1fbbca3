------------------------ MODULE DrizzleSessionProofs ------------------------
(***************************************************************************)
(* For every set of calls and clients, every nesting of calls and every    *)
(* bound on retries and failures: types, that no slot of the pool leaks,   *)
(* that no client returns to the pool in a transaction, and that over a    *)
(* pool the result of a transaction tells its effect.                      *)
(***************************************************************************)
EXTENDS DrizzleSession, TLAPS

LEMMA Constants ==
  /\ MaxRetries \in Nat /\ MaxFaults \in Nat
  /\ Inner \in [Calls -> Calls \cup {None}]
  /\ None \notin Calls /\ None \notin Clients
BY SessionAssumption

-----------------------------------------------------------------------------
(* Type correctness.                                                       *)

\* A call that backs off has an attempt left.
AttemptLeft == \A k \in Calls : pc[k] = "backoff" => tries[k] < MaxRetries

TypeInv == TypeOK /\ AttemptLeft

LEMMA InitType == Init => TypeInv
BY Constants DEF Init, TypeInv, TypeOK, AttemptLeft, Labels, Held

\* The queue stays a sequence of calls.
LEMMA WithoutType ==
  ASSUME queue \in Seq(Calls), NEW i \in 1..Len(queue)
  PROVE  /\ Without(i) \in Seq(Calls)
         /\ Len(Without(i)) = Len(queue) - 1
         /\ \A j \in 1..(Len(queue) - 1) :
              Without(i)[j] = IF j < i THEN queue[j] ELSE queue[j + 1]
<1>1. Len(queue) \in Nat /\ Len(queue) - 1 \in Nat
  OBVIOUS
<1>2. \A j \in 1..(Len(queue) - 1) :
        (IF j < i THEN queue[j] ELSE queue[j + 1]) \in Calls
  BY <1>1
<1>3. Without(i) \in [1..(Len(queue) - 1) -> Calls]
  BY <1>2 DEF Without
<1>4. QED
  BY <1>1, <1>3 DEF Without

LEMMA AttemptType ==
  ASSUME TypeOK, NEW k \in Calls, NEW c \in Clients, Attempt(k, c)
  PROVE  /\ pc' \in [Calls -> Labels] /\ using' \in [Calls -> Clients \cup {None}]
         /\ queue' \in Seq(Calls) /\ holder' = holder
         /\ \A q \in Calls : pc'[q] \in Held => using'[q] \in Clients
         /\ \A q \in Calls : pc'[q] = "nested" => pc[q] = "nested"
<1>1. CASE Pooled
  <2>1. pc' = [pc EXCEPT ![k] = "queued"] /\ queue' = Append(queue, k)
        /\ UNCHANGED <<using, holder>>
    BY <1>1 DEF Attempt
  <2>2. queue' \in Seq(Calls)
    BY <2>1 DEF TypeOK
  <2>3. pc \in [Calls -> Labels] /\ "queued" \in Labels /\ "queued" \notin Held
    BY DEF TypeOK, Labels, Held
  <2>4. \A q \in Calls : pc'[q] \in Held \/ pc'[q] = "nested" => pc'[q] = pc[q]
    BY <2>1, <2>3 DEF Held
  <2>5. QED
    BY <2>1, <2>2, <2>3, <2>4 DEF TypeOK
<1>2. CASE ~Pooled
  BY <1>2 DEF Attempt, TypeOK, Labels, Held, poolVars
<1>3. QED
  BY <1>1, <1>2

\* The two ways the server's side changes.
LEMMA ServerType ==
  ASSUME TypeOK, NEW k \in Calls, pc[k] \in Held
  PROVE  /\ using[k] \in Clients
         /\ \A s \in {"clean", "inTxn", "aborted", "lost"} : ServerTo(k, s) =>
              server' \in [Clients -> {"clean", "inTxn", "aborted", "lost"}]
         /\ \A w \in SUBSET Calls : OpenTo(k, w) =>
              open' \in [Clients -> SUBSET Calls]
         /\ LoseConnection(k) =>
              /\ server' \in [Clients -> {"clean", "inTxn", "aborted", "lost"}]
              /\ open' \in [Clients -> SUBSET Calls]
         /\ MakeDurable(k) => effects' \in [Calls -> Nat]
<1>1. using[k] \in Clients
  BY DEF TypeOK
<1>2. \A s \in {"clean", "inTxn", "aborted", "lost"} : ServerTo(k, s) =>
        server' \in [Clients -> {"clean", "inTxn", "aborted", "lost"}]
  BY DEF TypeOK, ServerTo
<1>3. \A w \in SUBSET Calls : OpenTo(k, w) => open' \in [Clients -> SUBSET Calls]
  BY DEF TypeOK, OpenTo
<1>4. MakeDurable(k) => effects' \in [Calls -> Nat]
  <2>1. ASSUME NEW w \in Calls
        PROVE  effects[w] + (IF w \in open[using[k]] THEN 1 ELSE 0) \in Nat
    BY DEF TypeOK
  <2>2. QED
    BY <2>1 DEF MakeDurable
<1>5. QED
  BY <1>1, <1>2, <1>3, <1>4 DEF LoseConnection

LEMMA StepType ==
  ASSUME TypeInv, NEW k \in Calls, Call(k) \/ Step(k)
  PROVE  TypeOK'
<1> USE Constants
<1>0. TypeOK /\ AttemptLeft
  BY DEF TypeInv
<1> USE <1>0 DEF TypeOK, Labels, Held, callVars, poolVars, dbVars, Move, Fault, Raise
<1>1. CASE Call(k)
  <2>1. PICK c \in Clients : Attempt(k, c)
    BY <1>1 DEF Call
  <2>2. QED
    BY <1>1, <2>1, AttemptType DEF Call
<1>2. CASE \E c \in Clients : CheckOut(k, c)
  BY <1>2 DEF CheckOut
<1>3. CASE ConnectFails(k)
  <2>1. queue' \in Seq(Calls)
    BY <1>3, WithoutType DEF ConnectFails
  <2>2. QED
    BY <1>3, <2>1 DEF ConnectFails
<1>4. CASE Begin(k)
  BY <1>4, ServerType DEF Begin
<1>5. CASE BeginFails(k)
  BY <1>5, ServerType DEF BeginFails
<1>6. CASE Write(k)
  <2>1. pc' = [pc EXCEPT ![k] = "wrote"] /\ using[k] \in Clients
        /\ UNCHANGED <<callVars, poolVars, server, uncertain, faults>>
    BY <1>6, ServerType DEF Write
  <2>2. CASE OpenTo(k, open[using[k]] \cup {k}) /\ UNCHANGED effects
    <3>1. open[using[k]] \cup {k} \in SUBSET Calls
      BY <2>1
    <3>2. open' \in [Clients -> SUBSET Calls]
      BY <1>6, <2>2, <3>1, ServerType DEF Write
    <3>3. QED
      BY <2>1, <2>2, <3>2
  <2>3. CASE effects' = [effects EXCEPT ![k] = @ + 1] /\ UNCHANGED open
    BY <2>1, <2>3
  <2>4. QED
    BY <1>6, <2>2, <2>3 DEF Write
<1>7. CASE CallbackThrows(k)
  <2>1. /\ pc' = [pc EXCEPT ![k] = "rollback"] /\ using[k] \in Clients
        /\ UNCHANGED <<using, destroy, tries, poolVars, effects, uncertain>>
        /\ faults' \in 0..MaxFaults
    BY <1>7 DEF CallbackThrows
  <2>1a. PICK e \in {"occ", "other"} : err' = [err EXCEPT ![k] = e]
    BY <1>7 DEF CallbackThrows
  <2>1b. err' \in [Calls -> {"none", "occ", "other"}]
    BY <2>1a
  <2>2. /\ server' \in [Clients -> {"clean", "inTxn", "aborted", "lost"}]
        /\ open' \in [Clients -> SUBSET Calls]
    BY <1>7, ServerType DEF CallbackThrows
  <2>3. QED
    BY <2>1, <2>1b, <2>2
<1>8. CASE CallInner(k)
  <2>1. Inner[k] \in Calls /\ using[k] \in Clients /\ Inner[k] # k
    BY <1>8 DEF CallInner
  <2>2. UNCHANGED <<err, destroy, tries, dbVars, faults>>
    BY <1>8 DEF CallInner
  <2>3. CASE Pooled
    <3>1. /\ pc' = [pc EXCEPT ![k] = "nested", ![Inner[k]] = "queued"]
          /\ queue' = Append(queue, Inner[k]) /\ UNCHANGED <<using, holder>>
      BY <1>8, <2>3 DEF CallInner
    <3>2. queue' \in Seq(Calls)
      BY <2>1, <3>1
    <3>3. QED
      BY <2>1, <2>2, <3>1, <3>2
  <2>4. CASE ~Pooled
    <3>1. /\ pc' = [pc EXCEPT ![k] = "nested", ![Inner[k]] = "begin"]
          /\ using' = [using EXCEPT ![Inner[k]] = using[k]]
          /\ UNCHANGED poolVars
      BY <1>8, <2>4 DEF CallInner
    <3>2. QED
      BY <2>1, <2>2, <3>1
  <2>5. QED
    BY <2>3, <2>4
<1>9. CASE InnerSettles(k)
  <2>1. Inner[k] \in Calls
    BY <1>9 DEF InnerSettles
  <2>2. PICK label \in {"commit", "rollback"} :
          pc' = [pc EXCEPT ![k] = label, ![Inner[k]] = "idle"]
    BY <1>9 DEF InnerSettles
  <2>3. UNCHANGED <<using, destroy, poolVars, dbVars, faults>>
    BY <1>9 DEF InnerSettles
  <2>4. err' \in [Calls -> {"none", "occ", "other"}]
    <3>1. err' = [err EXCEPT ![k] = err[Inner[k]], ![Inner[k]] = "none"]
      BY <1>9 DEF InnerSettles
    <3>2. QED
      BY <2>1, <3>1
  <2>5. tries' \in [Calls -> 0..MaxRetries]
    <3>1. tries' = [tries EXCEPT ![Inner[k]] = 0]
      BY <1>9 DEF InnerSettles
    <3>2. tries \in [Calls -> 0..MaxRetries] /\ 0 \in 0..MaxRetries
      BY SMT
    <3>3. QED
      BY <3>1, <3>2, Zenon
  <2>6. /\ pc' \in [Calls -> Labels]
        /\ \A q \in Calls : pc'[q] \in Held => pc[q] \in Held
        /\ \A q \in Calls : pc'[q] = "nested" => pc[q] = "nested"
    BY <1>9, <2>1, <2>2 DEF InnerSettles
  <2>7. QED
    BY <2>3, <2>4, <2>5, <2>6
<1>10. CASE CallbackReturns(k)
  BY <1>10 DEF CallbackReturns
<1>11. CASE Commit(k)
  BY <1>11, ServerType DEF Commit
<1>12. CASE CommitFails(k)
  <2>1. /\ pc' = [pc EXCEPT ![k] = "rollback"] /\ using[k] \in Clients
        /\ UNCHANGED <<using, destroy, tries, poolVars>>
        /\ faults' \in 0..MaxFaults
    BY <1>12 DEF CommitFails
  <2>1a. PICK e \in {"occ", "other"} : err' = [err EXCEPT ![k] = e]
    BY <1>12 DEF CommitFails
  <2>1b. err' \in [Calls -> {"none", "occ", "other"}]
    BY <2>1a
  <2>2. /\ server' \in [Clients -> {"clean", "inTxn", "aborted", "lost"}]
        /\ open' \in [Clients -> SUBSET Calls]
    BY <1>12, ServerType DEF CommitFails
  <2>3. effects' \in [Calls -> Nat] /\ uncertain' \subseteq Calls
    BY <1>12, <2>1, ServerType DEF CommitFails
  <2>4. QED
    BY <2>1, <2>1b, <2>2, <2>3
<1>13. CASE Rollback(k)
  BY <1>13, ServerType DEF Rollback
<1>14. CASE RollbackFails(k)
  BY <1>14 DEF RollbackFails
<1>15. CASE Release(k)
  BY <1>15, ServerType DEF Release, ReturnClient
<1>16. CASE Retry(k)
  <2>1. PICK c \in Clients : Attempt(k, c)
    BY <1>16 DEF Retry
  <2>2. /\ pc[k] = "backoff" /\ tries' = [tries EXCEPT ![k] = @ + 1]
        /\ err' = [err EXCEPT ![k] = "none"]
        /\ UNCHANGED <<destroy, dbVars, faults>>
    BY <1>16 DEF Retry
  <2>3. tries[k] + 1 \in 0..MaxRetries
    BY <2>2 DEF AttemptLeft
  <2>4. tries' \in [Calls -> 0..MaxRetries]
    BY <2>2, <2>3
  <2>5. err' \in [Calls -> {"none", "occ", "other"}]
    BY <2>2
  <2>6. QED
    BY <2>1, <2>2, <2>4, <2>5, AttemptType
<1>17. QED
  BY <1>1, <1>2, <1>3, <1>4, <1>5, <1>6, <1>7, <1>8, <1>9, <1>10, <1>11, <1>12,
     <1>13, <1>14, <1>15, <1>16 DEF Step

LEMMA StepAttempts ==
  ASSUME TypeInv, TypeOK', NEW k \in Calls, Call(k) \/ Step(k)
  PROVE  AttemptLeft'
<1> SUFFICES ASSUME NEW q \in Calls, pc'[q] = "backoff"
             PROVE  tries'[q] < MaxRetries
  BY DEF AttemptLeft
<1> USE DEF TypeInv, TypeOK
<1>1. CASE Release(k)
  BY <1>1 DEF Release, Retries, AttemptLeft
<1>2. CASE InnerSettles(k)
  <2>1. Inner[k] \in Calls /\ pc[q] = "backoff" /\ tries'[q] = tries[q]
    BY <1>2 DEF InnerSettles
  <2>2. QED
    BY <2>1 DEF AttemptLeft
<1>3. CASE CallInner(k)
  <2>1. PICK label \in {"queued", "begin"} :
          pc' = [pc EXCEPT ![k] = "nested", ![Inner[k]] = label]
    BY <1>3 DEF CallInner
  <2>2. pc[q] = "backoff" /\ tries' = tries
    BY <1>3, <2>1 DEF CallInner
  <2>3. QED
    BY <2>2 DEF AttemptLeft
<1>4. CASE Call(k) \/ Retry(k)
  <2>1. \E c \in Clients : Attempt(k, c)
    BY <1>4 DEF Call, Retry
  <2>2. q # k /\ pc[q] = "backoff"
    BY <2>1 DEF Attempt
  <2>3. QED
    BY <1>4, <2>2 DEF Call, Retry, AttemptLeft
<1>5. CASE ~(Release(k) \/ InnerSettles(k) \/ CallInner(k) \/ Call(k) \/ Retry(k))
  <2>1. pc[q] = "backoff" /\ tries' = tries
    BY <1>5 DEF Step, CheckOut, ConnectFails, Begin, BeginFails, Write,
       CallbackThrows, CallbackReturns, Commit, CommitFails, Rollback,
       RollbackFails, Move, callVars
  <2>2. QED
    BY <2>1 DEF AttemptLeft
<1>6. QED
  BY <1>1, <1>2, <1>3, <1>4, <1>5

LEMMA NextType == TypeInv /\ [Next]_vars => TypeInv'
<1>1. TypeInv /\ UNCHANGED vars => TypeInv'
  BY DEF TypeInv, TypeOK, AttemptLeft, vars, callVars, poolVars, dbVars
<1>2. TypeInv /\ Next => TypeInv'
  BY StepType, StepAttempts DEF Next, TypeInv
<1>3. QED
  BY <1>1, <1>2

LEMMA TypesHold == Spec => []TypeInv
BY InitType, NextType, PTL DEF Spec

\* Every reachable state is well typed; a call never attempts more than
\* MaxRetries + 1 times (retry.ts:130-139).
THEOREM TypeCorrect == Spec => []TypeOK
<1>1. TypeInv => TypeOK
  BY DEF TypeInv
<1>2. QED
  BY <1>1, TypesHold, PTL

-----------------------------------------------------------------------------
(* The pool. Each client is related to the call that holds it, and each     *)
(* call to what the server knows of its client.                            *)

ClientOK(c) ==
  /\ holder[c] # None => pc[holder[c]] \in Held /\ using[holder[c]] = c
  /\ holder[c] = None => server[c] = "clean" /\ open[c] = {}
  /\ open[c] \subseteq {holder[c]}

CallOK(k) ==
  /\ pc[k] \in Held => holder[using[k]] = k
  /\ pc[k] = "begin" => server[using[k]] = "clean" /\ open[using[k]] = {}
  /\ pc[k] = "callback" => server[using[k]] = "inTxn" /\ open[using[k]] = {}
  /\ pc[k] \in {"wrote", "nested", "commit"} =>
       server[using[k]] = "inTxn" /\ open[using[k]] = {k}
  /\ pc[k] = "release" =>
       destroy[k] \/ (server[using[k]] \in {"clean", "lost"} /\ open[using[k]] = {})

ClientInv == \A c \in Clients : ClientOK(c)
CallInv   == \A k \in Calls : CallOK(k)

QueueInv ==
  /\ \A k \in Calls : pc[k] = "queued" <=> \E i \in 1..Len(queue) : queue[i] = k
  /\ \A i, j \in 1..Len(queue) : queue[i] = queue[j] => i = j

PoolInv == TypeInv /\ ClientInv /\ CallInv /\ QueueInv

\* A step of a call on the client it holds and keeps disturbs no other call:
\* no other one uses that client.
LEMMA HeldStep ==
  ASSUME TypeOK, ClientInv, CallInv, NEW k \in Calls, pc[k] \in Held,
         pc'[k] \in Held, UNCHANGED <<holder, using>>,
         \A q \in Calls \ {k} :
           /\ pc'[q] = pc[q] \/ (pc[q] \notin Held /\ pc'[q] \notin Held)
           /\ destroy'[q] = destroy[q],
         \A c \in Clients \ {using[k]} : server'[c] = server[c] /\ open'[c] = open[c],
         CallOK(k)', open'[using[k]] \subseteq {k}
  PROVE  ClientInv' /\ CallInv'
<1>1. using[k] \in Clients /\ holder[using[k]] = k /\ k # None
  BY Constants DEF TypeOK, CallInv, CallOK
<1>2. CallInv'
  <2> SUFFICES ASSUME NEW q \in Calls, q # k PROVE CallOK(q)'
    BY DEF CallInv
  <2>1. CASE pc'[q] \in Held
    <3>1. pc[q] = pc'[q] /\ destroy'[q] = destroy[q] /\ CallOK(q)
      BY <2>1 DEF CallInv
    <3>2. using[q] \in Clients \ {using[k]}
      BY <1>1, <2>1, <3>1 DEF TypeOK, CallOK
    <3>3. QED
      BY <3>1, <3>2 DEF CallOK
  <2>2. CASE pc'[q] \notin Held
    BY <2>2 DEF CallOK, Held
  <2>3. QED
    BY <2>1, <2>2
<1>3. ClientInv'
  <2> SUFFICES ASSUME NEW c \in Clients PROVE ClientOK(c)'
    BY DEF ClientInv
  <2>1. CASE c = using[k]
    BY <1>1, <2>1 DEF ClientOK
  <2>2. CASE c # using[k]
    <3>1. ClientOK(c) /\ server'[c] = server[c] /\ open'[c] = open[c]
      BY <2>2 DEF ClientInv
    <3>2. holder[c] # None => holder[c] \in Calls \ {k} /\ pc[holder[c]] \in Held
      BY <2>2, <3>1 DEF ClientOK, TypeOK
    <3>3. holder[c] # None => pc'[holder[c]] \in Held
      BY <3>2
    <3>4. QED
      BY <3>1, <3>3 DEF ClientOK
  <2>3. QED
    BY <2>1, <2>2
<1>4. QED
  BY <1>2, <1>3

\* A step of calls that hold no client disturbs none that does.
LEMMA IdleStep ==
  ASSUME TypeOK, ClientInv, CallInv, UNCHANGED <<holder, using, server, open, destroy>>,
         \A q \in Calls : pc'[q] = pc[q] \/ (pc[q] \notin Held /\ pc'[q] \notin Held)
  PROVE  ClientInv' /\ CallInv'
<1>1. CallInv'
  <2> SUFFICES ASSUME NEW q \in Calls PROVE CallOK(q)'
    BY DEF CallInv
  <2>1. CASE pc'[q] = pc[q]
    BY <2>1 DEF CallInv, CallOK
  <2>2. CASE pc'[q] \notin Held
    BY <2>2 DEF CallOK, Held
  <2>3. QED
    BY <2>1, <2>2
<1>2. ClientInv'
  <2> SUFFICES ASSUME NEW c \in Clients PROVE ClientOK(c)'
    BY DEF ClientInv
  <2>1. ClientOK(c) /\ holder[c] \in Calls \cup {None}
    BY DEF ClientInv, TypeOK
  <2>2. holder[c] # None => pc'[holder[c]] \in Held
    BY <2>1 DEF ClientOK
  <2>3. QED
    BY <2>1, <2>2 DEF ClientOK
<1>3. QED
  BY <1>1, <1>2

LEMMA CheckOutStep ==
  ASSUME TypeOK, TypeOK', ClientInv, CallInv, NEW k \in Calls, NEW c \in Clients,
         CheckOut(k, c)
  PROVE  ClientInv' /\ CallInv'
<1>1. /\ pc[k] = "queued" /\ holder[c] = None
      /\ pc' = [pc EXCEPT ![k] = "begin"]
      /\ holder' = [holder EXCEPT ![c] = k]
      /\ using' = [using EXCEPT ![k] = c]
      /\ UNCHANGED <<server, open, destroy>>
  BY DEF CheckOut, dbVars
<1>2. server[c] = "clean" /\ open[c] = {} /\ k # None /\ "begin" \in Held
  BY <1>1, Constants DEF ClientInv, ClientOK, Held
<1>3. CallInv'
  <2> SUFFICES ASSUME NEW q \in Calls PROVE CallOK(q)'
    BY DEF CallInv
  <2>1. CASE q = k
    BY <1>1, <1>2, <2>1 DEF CallOK, TypeOK
  <2>2. CASE q # k
    <3>1. pc'[q] = pc[q] /\ using'[q] = using[q] /\ CallOK(q)
      BY <1>1, <2>2 DEF TypeOK, CallInv
    <3>2. pc[q] \in Held => holder'[using[q]] = q
      BY <1>1, <3>1, Constants DEF TypeOK, CallOK
    <3>3. QED
      BY <1>1, <3>1, <3>2 DEF CallOK
  <2>3. QED
    BY <2>1, <2>2
<1>4. ClientInv'
  <2> SUFFICES ASSUME NEW d \in Clients PROVE ClientOK(d)'
    BY DEF ClientInv
  <2>1. CASE d = c
    BY <1>1, <1>2, <2>1 DEF ClientOK, TypeOK
  <2>2. CASE d # c
    <3>1. ClientOK(d) /\ holder'[d] = holder[d] /\ holder[d] \in Calls \cup {None}
      BY <1>1, <2>2 DEF ClientInv, TypeOK
    <3>2. holder[d] # None => holder[d] # k
      BY <1>1, <3>1 DEF ClientOK, Held
    <3>3. holder[d] # None =>
            pc'[holder[d]] = pc[holder[d]] /\ using'[holder[d]] = using[holder[d]]
      BY <1>1, <3>1, <3>2 DEF TypeOK
    <3>4. QED
      BY <1>1, <3>1, <3>3 DEF ClientOK
  <2>3. QED
    BY <2>1, <2>2
<1>5. QED
  BY <1>3, <1>4

LEMMA ReleaseStep ==
  ASSUME Pooled, TypeOK, TypeOK', ClientInv, CallInv, NEW k \in Calls, Release(k)
  PROVE  ClientInv' /\ CallInv'
<1>1. PICK label \in {"backoff", "ended"} : pc' = [pc EXCEPT ![k] = label]
  BY DEF Release
<1>2. /\ pc[k] = "release" /\ ReturnClient(k)
      /\ using' = [using EXCEPT ![k] = None]
      /\ destroy' = [destroy EXCEPT ![k] = FALSE]
      /\ holder' = [holder EXCEPT ![using[k]] = None]
  BY DEF Release, ReturnClient
<1>3. using[k] \in Clients /\ holder[using[k]] = k
  BY <1>2 DEF TypeOK, CallInv, CallOK, Held
<1>4. server'[using[k]] = "clean" /\ open'[using[k]] = {}
  <2>1. CASE destroy[k] \/ server[using[k]] = "lost"
    BY <1>2, <1>3, <2>1 DEF ReturnClient, ServerTo, OpenTo, Server, TypeOK
  <2>2. CASE ~(destroy[k] \/ server[using[k]] = "lost")
    <3>1. server[using[k]] = "clean" /\ open[using[k]] = {}
      BY <1>2, <2>2 DEF CallInv, CallOK
    <3>2. UNCHANGED <<server, open>>
      BY <1>2, <2>2 DEF ReturnClient, Server
    <3>3. QED
      BY <3>1, <3>2
  <2>3. QED
    BY <2>1, <2>2
<1>5. \A c \in Clients \ {using[k]} : server'[c] = server[c] /\ open'[c] = open[c]
  BY <1>2 DEF ReturnClient, ServerTo, OpenTo, TypeOK
<1>6. CallInv'
  <2> SUFFICES ASSUME NEW q \in Calls PROVE CallOK(q)'
    BY DEF CallInv
  <2>1. CASE pc'[q] \in Held
    <3>1. q # k /\ pc[q] = pc'[q] /\ CallOK(q)
      BY <1>1, <2>1 DEF CallInv, TypeOK, Held
    <3>2. using'[q] = using[q] /\ destroy'[q] = destroy[q]
      BY <1>2, <3>1 DEF TypeOK
    <3>3. using[q] \in Clients \ {using[k]} /\ holder[using[q]] = q
      BY <1>3, <2>1, <3>1 DEF TypeOK, CallOK
    <3>4. holder'[using[q]] = q
      BY <1>2, <3>3 DEF TypeOK
    <3>5. QED
      BY <1>5, <3>1, <3>2, <3>3, <3>4 DEF CallOK
  <2>2. CASE pc'[q] \notin Held
    BY <2>2 DEF CallOK, Held
  <2>3. QED
    BY <2>1, <2>2
<1>7. ClientInv'
  <2> SUFFICES ASSUME NEW c \in Clients PROVE ClientOK(c)'
    BY DEF ClientInv
  <2>1. CASE c = using[k]
    BY <1>2, <1>4, <2>1 DEF ClientOK, TypeOK
  <2>2. CASE c # using[k]
    <3>1. ClientOK(c) /\ holder'[c] = holder[c] /\ holder[c] \in Calls \cup {None}
      BY <1>2, <2>2 DEF ClientInv, TypeOK
    <3>2. holder[c] # None => holder[c] # k
      BY <2>2, <3>1 DEF ClientOK
    <3>3. holder[c] # None =>
            pc'[holder[c]] = pc[holder[c]] /\ using'[holder[c]] = using[holder[c]]
      BY <1>1, <1>2, <3>1, <3>2 DEF TypeOK
    <3>4. QED
      BY <1>5, <2>2, <3>1, <3>3 DEF ClientOK
  <2>3. QED
    BY <2>1, <2>2
<1>8. QED
  BY <1>6, <1>7

\* The steps of a call on the client it holds.
LEMMA TransactionStep ==
  ASSUME Pooled, TypeInv, TypeOK', ClientInv, CallInv, NEW k \in Calls,
         \/ Begin(k) \/ BeginFails(k) \/ Write(k) \/ CallbackThrows(k)
         \/ CallInner(k) \/ InnerSettles(k) \/ CallbackReturns(k)
         \/ Commit(k) \/ CommitFails(k) \/ Rollback(k) \/ RollbackFails(k)
  PROVE  ClientInv' /\ CallInv'
<1>0. TypeOK /\ CallOK(k)
  BY DEF TypeInv, CallInv
<1> USE DEF Move, callVars, poolVars, dbVars, Server, ServerTo, OpenTo,
            LoseConnection, Raise
<1>1. pc[k] \in Held /\ using[k] \in Clients /\ holder[using[k]] = k
  <2>1. pc[k] \in Held
    BY DEF Begin, BeginFails, Write, CallbackThrows, CallInner, InnerSettles,
       CallbackReturns, Commit, CommitFails, Rollback, RollbackFails, Held
  <2>2. QED
    BY <1>0, <2>1 DEF TypeOK, CallOK
<1>2. UNCHANGED <<holder, using>>
  BY DEF Begin, BeginFails, Write, CallbackThrows, CallInner, InnerSettles,
     CallbackReturns, Commit, CommitFails, Rollback, RollbackFails
<1>3. \A q \in Calls \ {k} : destroy'[q] = destroy[q]
  BY <1>0 DEF TypeOK, Begin, BeginFails, Write, CallbackThrows, CallInner,
     InnerSettles, CallbackReturns, Commit, CommitFails, Rollback, RollbackFails
<1>4. \A c \in Clients \ {using[k]} : server'[c] = server[c] /\ open'[c] = open[c]
  BY <1>0 DEF TypeOK, Begin, BeginFails, Write, CallbackThrows, CallInner,
     InnerSettles, CallbackReturns, Commit, CommitFails, Rollback, RollbackFails
<1>5. \A q \in Calls \ {k} :
        pc'[q] = pc[q] \/ (pc[q] \notin Held /\ pc'[q] \notin Held)
  <2> SUFFICES ASSUME NEW q \in Calls, q # k
               PROVE  pc'[q] = pc[q] \/ (pc[q] \notin Held /\ pc'[q] \notin Held)
    OBVIOUS
  <2>0. pc \in [Calls -> Labels]
    BY <1>0 DEF TypeOK
  <2>1. CASE CallInner(k)
    <3>1. pc' = [pc EXCEPT ![k] = "nested", ![Inner[k]] = "queued"]
          /\ pc[Inner[k]] = "idle"
      BY <2>1 DEF CallInner
    <3>2. CASE q = Inner[k]
      BY <2>0, <3>1, <3>2 DEF Held
    <3>3. CASE q # Inner[k]
      BY <2>0, <3>1, <3>3
    <3>4. QED
      BY <3>2, <3>3
  <2>2. CASE InnerSettles(k)
    <3>1. PICK label \in {"commit", "rollback"} :
            pc' = [pc EXCEPT ![k] = label, ![Inner[k]] = "idle"]
      BY <2>2 DEF InnerSettles
    <3>2. pc[Inner[k]] = "ended"
      BY <2>2 DEF InnerSettles
    <3>3. CASE q = Inner[k]
      BY <2>0, <3>1, <3>2, <3>3 DEF Held
    <3>4. CASE q # Inner[k]
      BY <2>0, <3>1, <3>4
    <3>5. QED
      BY <3>3, <3>4
  <2>3. CASE ~(CallInner(k) \/ InnerSettles(k))
    <3>1. \E label \in Labels : pc' = [pc EXCEPT ![k] = label]
      BY <2>3 DEF Begin, BeginFails, Write, CallbackThrows, CallbackReturns,
         Commit, CommitFails, Rollback, RollbackFails, Labels, Held
    <3>2. QED
      BY <2>0, <3>1
  <2>4. QED
    BY <2>1, <2>2, <2>3
<1>6. pc'[k] \in Held /\ CallOK(k)' /\ open'[using[k]] \subseteq {k}
  <2> USE <1>0, <1>1, <1>2 DEF CallOK
  <2>0. /\ pc \in [Calls -> Labels] /\ destroy \in [Calls -> BOOLEAN]
        /\ server \in [Clients -> {"clean", "inTxn", "aborted", "lost"}]
        /\ open \in [Clients -> SUBSET Calls]
    BY DEF TypeOK
  <2>c. open[using[k]] \subseteq {k}
    BY DEF ClientInv, ClientOK
  <2>1. CASE Begin(k)
    BY <2>0, <2>1 DEF Begin, Held
  <2>2. CASE BeginFails(k)
    BY <2>0, <2>2 DEF BeginFails, Held
  <2>3. CASE Write(k)
    BY <2>0, <2>3 DEF Write, Held
  <2>4. CASE CallbackThrows(k)
    <3>1. pc'[k] = "rollback"
      BY <2>0, <2>4 DEF CallbackThrows
    <3>2. open'[using[k]] \subseteq {k}
      BY <2>0, <2>c, <2>4 DEF CallbackThrows
    <3>3. QED
      BY <3>1, <3>2 DEF Held
  <2>5. CASE CallInner(k)
    <3>1. /\ pc[k] = "wrote" /\ pc'[k] = "nested"
          /\ UNCHANGED <<server, open, destroy>>
      BY <2>0, <2>5 DEF CallInner
    <3>2. QED
      BY <3>1 DEF Held
  <2>6. CASE InnerSettles(k)
    <3>1. Inner[k] # k /\ pc[k] = "nested" /\ UNCHANGED <<server, open, destroy>>
      BY <2>6 DEF InnerSettles
    <3>2. pc'[k] \in {"commit", "rollback"}
      BY <2>0, <2>6, <3>1 DEF InnerSettles
    <3>3. QED
      BY <3>1, <3>2 DEF Held
  <2>7. CASE CallbackReturns(k)
    BY <2>0, <2>7 DEF CallbackReturns, Held
  <2>8. CASE Commit(k)
    BY <2>0, <2>8 DEF Commit, Held
  <2>9. CASE CommitFails(k)
    <3>1. pc'[k] = "rollback"
      BY <2>0, <2>9 DEF CommitFails
    <3>2. open'[using[k]] \subseteq {k}
      BY <2>0, <2>c, <2>9 DEF CommitFails
    <3>3. QED
      BY <3>1, <3>2 DEF Held
  <2>10. CASE Rollback(k)
    BY <2>0, <2>10 DEF Rollback, Held
  <2>11. CASE RollbackFails(k)
    <3>1. /\ pc'[k] = "release" /\ destroy'[k] = TRUE
          /\ UNCHANGED <<server, open>>
      BY <2>0, <2>11 DEF RollbackFails
    <3>2. QED
      BY <2>c, <3>1 DEF Held
  <2>12. QED
    BY <2>1, <2>2, <2>3, <2>4, <2>5, <2>6, <2>7, <2>8, <2>9, <2>10, <2>11
<1>7. QED
  BY <1>0, <1>1, <1>2, <1>3, <1>4, <1>5, <1>6, HeldStep

-----------------------------------------------------------------------------
(* The pool's queue.                                                       *)

LEMMA QueueAppend ==
  ASSUME TypeOK, QueueInv, NEW k \in Calls, pc[k] # "queued",
         queue' = Append(queue, k),
         \A q \in Calls : pc'[q] = "queued" <=> pc[q] = "queued" \/ q = k
  PROVE  QueueInv'
<1>1. /\ queue \in Seq(Calls) /\ Len(queue) \in Nat
      /\ Len(queue') = Len(queue) + 1 /\ queue'[Len(queue) + 1] = k
      /\ \A i \in 1..Len(queue) : queue'[i] = queue[i] /\ queue[i] \in Calls
  BY DEF TypeOK
<1>2. \A i \in 1..Len(queue) : queue[i] # k
  BY DEF QueueInv
<1>3. \A i \in 1..Len(queue') : i \in 1..Len(queue) \/ i = Len(queue) + 1
  BY <1>1
<1>4. \A q \in Calls : pc'[q] = "queued" <=> \E i \in 1..Len(queue') : queue'[i] = q
  <2> SUFFICES ASSUME NEW q \in Calls
               PROVE  pc'[q] = "queued" <=> \E i \in 1..Len(queue') : queue'[i] = q
    OBVIOUS
  <2>1. CASE q = k
    BY <1>1, <2>1
  <2>2. CASE q # k
    <3>1. pc'[q] = "queued" <=> \E i \in 1..Len(queue) : queue[i] = q
      BY <2>2 DEF QueueInv
    <3>2. (\E i \in 1..Len(queue) : queue[i] = q)
            <=> \E i \in 1..Len(queue') : queue'[i] = q
      BY <1>1, <1>3, <2>2
    <3>3. QED
      BY <3>1, <3>2
  <2>3. QED
    BY <2>1, <2>2
<1>5. \A i, j \in 1..Len(queue') : queue'[i] = queue'[j] => i = j
  BY <1>1, <1>2, <1>3 DEF QueueInv
<1>6. QED
  BY <1>4, <1>5 DEF QueueInv

LEMMA QueueDrop ==
  ASSUME TypeOK, QueueInv, NEW i \in 1..Len(queue),
         Len(queue') = Len(queue) - 1,
         \A j \in 1..(Len(queue) - 1) :
           queue'[j] = IF j < i THEN queue[j] ELSE queue[j + 1],
         \A q \in Calls : pc'[q] = "queued" <=> pc[q] = "queued" /\ q # queue[i]
  PROVE  QueueInv'
<1>1. Len(queue) \in Nat
  BY DEF TypeOK
<1> DEFINE at(j) == IF j < i THEN j ELSE j + 1
<1>2. \A j \in 1..Len(queue') :
        at(j) \in 1..Len(queue) /\ at(j) # i /\ queue'[j] = queue[at(j)]
  BY <1>1
<1>3. \A m \in 1..Len(queue) : m # i => \E j \in 1..Len(queue') : at(j) = m
  <2> SUFFICES ASSUME NEW m \in 1..Len(queue), m # i
               PROVE  \E j \in 1..Len(queue') : at(j) = m
    OBVIOUS
  <2>1. CASE m < i
    <3>1. m \in 1..Len(queue') /\ at(m) = m
      BY <1>1, <2>1
    <3>2. QED
      BY <3>1
  <2>2. CASE m > i
    <3>1. m - 1 \in 1..Len(queue') /\ at(m - 1) = m
      BY <1>1, <2>2
    <3>2. QED
      BY <3>1
  <2>3. QED
    BY <2>1, <2>2
<1>4. \A j, m \in 1..Len(queue') : at(j) = at(m) => j = m
  BY <1>1
<1> HIDE DEF at
<1>5. \A q \in Calls : pc'[q] = "queued" <=> \E j \in 1..Len(queue') : queue'[j] = q
  <2> SUFFICES ASSUME NEW q \in Calls
               PROVE  pc'[q] = "queued" <=> \E j \in 1..Len(queue') : queue'[j] = q
    OBVIOUS
  <2>1. ASSUME pc'[q] = "queued"
        PROVE  \E j \in 1..Len(queue') : queue'[j] = q
    <3>1. PICK m \in 1..Len(queue) : queue[m] = q
      BY <2>1 DEF QueueInv
    <3>2. m # i
      BY <2>1, <3>1
    <3>3. QED
      BY <1>2, <1>3, <3>1, <3>2
  <2>2. ASSUME NEW j \in 1..Len(queue'), queue'[j] = q
        PROVE  pc'[q] = "queued"
    <3>1. at(j) \in 1..Len(queue) /\ at(j) # i /\ queue[at(j)] = q
      BY <1>2, <2>2
    <3>2. pc[q] = "queued" /\ q # queue[i]
      BY <3>1 DEF QueueInv
    <3>3. QED
      BY <3>2
  <2>3. QED
    BY <2>1, <2>2
<1>6. \A j, m \in 1..Len(queue') : queue'[j] = queue'[m] => j = m
  BY <1>2, <1>4 DEF QueueInv
<1>7. QED
  BY <1>5, <1>6 DEF QueueInv

LEMMA QueueFrame ==
  ASSUME QueueInv, queue' = queue,
         \A q \in Calls : pc'[q] = "queued" <=> pc[q] = "queued"
  PROVE  QueueInv'
BY DEF QueueInv

LEMMA QueueStep ==
  ASSUME Pooled, TypeOK, QueueInv, NEW k \in Calls, Call(k) \/ Step(k)
  PROVE  QueueInv'
<1>0. pc \in [Calls -> Labels] /\ queue \in Seq(Calls)
  BY DEF TypeOK
<1>1. CASE Call(k) \/ Retry(k)
  <2>1. pc[k] # "queued" /\ \E c \in Clients : Attempt(k, c)
    BY <1>1 DEF Call, Retry
  <2>2. pc' = [pc EXCEPT ![k] = "queued"] /\ queue' = Append(queue, k)
    BY <2>1 DEF Attempt
  <2>3. QED
    BY <1>0, <2>1, <2>2, QueueAppend
<1>2. CASE CallInner(k)
  <2>1. /\ Inner[k] \in Calls /\ pc[k] = "wrote" /\ pc[Inner[k]] = "idle"
        /\ pc' = [pc EXCEPT ![k] = "nested", ![Inner[k]] = "queued"]
        /\ queue' = Append(queue, Inner[k])
    BY <1>2, Constants DEF CallInner
  <2>2. \A q \in Calls : pc'[q] = "queued" <=> pc[q] = "queued" \/ q = Inner[k]
    BY <1>0, <2>1
  <2>3. QED
    BY <2>1, <2>2, QueueAppend
<1>3. CASE \E c \in Clients : CheckOut(k, c)
  <2>1. /\ pc[k] = "queued" /\ queue # <<>> /\ Head(queue) = k
        /\ pc' = [pc EXCEPT ![k] = "begin"] /\ queue' = Tail(queue)
    BY <1>3 DEF CheckOut
  <2>2. 1 \in 1..Len(queue) /\ queue[1] = k /\ Len(queue') = Len(queue) - 1
    BY <1>0, <2>1
  <2>3. \A j \in 1..(Len(queue) - 1) :
          queue'[j] = IF j < 1 THEN queue[j] ELSE queue[j + 1]
    BY <1>0, <2>1
  <2>4. \A q \in Calls : pc'[q] = "queued" <=> pc[q] = "queued" /\ q # queue[1]
    BY <1>0, <2>1, <2>2
  <2>5. QED
    BY <2>2, <2>3, <2>4, QueueDrop
<1>4. CASE ConnectFails(k)
  <2>1. PICK i \in 1..Len(queue) : queue[i] = k /\ queue' = Without(i)
    BY <1>4 DEF ConnectFails
  <2>2. \A q \in Calls : pc'[q] = "queued" <=> pc[q] = "queued" /\ q # queue[i]
    BY <1>0, <1>4, <2>1 DEF ConnectFails, Move
  <2>3. QED
    BY <1>0, <2>1, <2>2, WithoutType, QueueDrop
<1>5. CASE InnerSettles(k)
  <2>1. PICK label \in {"commit", "rollback"} :
          pc' = [pc EXCEPT ![k] = label, ![Inner[k]] = "idle"]
    BY <1>5 DEF InnerSettles
  <2>2. pc[k] = "nested" /\ pc[Inner[k]] = "ended" /\ queue' = queue
    BY <1>5 DEF InnerSettles, poolVars
  <2>3. QED
    BY <1>0, <2>1, <2>2, QueueFrame
<1>6. CASE \/ Begin(k) \/ BeginFails(k) \/ Write(k) \/ CallbackThrows(k)
           \/ CallbackReturns(k) \/ Commit(k) \/ CommitFails(k) \/ Rollback(k)
           \/ RollbackFails(k) \/ Release(k)
  <2>1. queue' = queue
    BY <1>6 DEF Begin, BeginFails, Write, CallbackThrows, CallbackReturns, Commit,
       CommitFails, Rollback, RollbackFails, Release, poolVars
  <2>2. \A q \in Calls : pc'[q] = "queued" <=> pc[q] = "queued"
    BY <1>0, <1>6 DEF Move, Begin, BeginFails, Write, CallbackThrows,
       CallbackReturns, Commit, CommitFails, Rollback, RollbackFails, Release
  <2>3. QED
    BY <2>1, <2>2, QueueFrame
<1>7. QED
  BY <1>1, <1>2, <1>3, <1>4, <1>5, <1>6 DEF Step

-----------------------------------------------------------------------------
(* The invariant of the pool.                                              *)

LEMMA InitPool == Init => PoolInv
<1>1. Init => ClientInv /\ CallInv
  BY DEF Init, ClientInv, ClientOK, CallInv, CallOK, Held
<1>2. Init => QueueInv
  BY DEF Init, QueueInv
<1>3. QED
  BY <1>1, <1>2, InitType DEF PoolInv

LEMMA StepPool ==
  ASSUME Pooled, PoolInv, NEW k \in Calls, Call(k) \/ Step(k)
  PROVE  ClientInv' /\ CallInv'
<1>0. TypeInv /\ TypeOK /\ TypeOK' /\ ClientInv /\ CallInv
  BY StepType DEF PoolInv, TypeInv
<1>1. CASE Call(k) \/ Retry(k)
  <2>1. /\ pc[k] \notin Held /\ UNCHANGED <<destroy, dbVars>>
        /\ \E c \in Clients : Attempt(k, c)
    BY <1>1 DEF Call, Retry, Held
  <2>2. pc' = [pc EXCEPT ![k] = "queued"] /\ UNCHANGED <<holder, using>>
    BY <2>1 DEF Attempt
  <2>3. QED
    BY <1>0, <2>1, <2>2, IdleStep DEF TypeOK, Held, dbVars
<1>2. CASE ConnectFails(k)
  <2>1. /\ pc[k] = "queued" /\ pc' = [pc EXCEPT ![k] = "ended"]
        /\ UNCHANGED <<holder, using, server, open, destroy>>
    BY <1>2 DEF ConnectFails, Move, dbVars
  <2>2. QED
    BY <1>0, <2>1, IdleStep DEF TypeOK, Held
<1>3. CASE \E c \in Clients : CheckOut(k, c)
  BY <1>0, <1>3, CheckOutStep
<1>4. CASE Release(k)
  BY <1>0, <1>4, ReleaseStep
<1>5. CASE ~(\/ Call(k) \/ Retry(k) \/ ConnectFails(k) \/ Release(k)
             \/ \E c \in Clients : CheckOut(k, c))
  BY <1>0, <1>5, TransactionStep DEF Step
<1>6. QED
  BY <1>1, <1>2, <1>3, <1>4, <1>5

LEMMA NextPool == ASSUME Pooled PROVE PoolInv /\ [Next]_vars => PoolInv'
<1>1. PoolInv /\ UNCHANGED vars => PoolInv'
  BY NextType DEF PoolInv, ClientInv, ClientOK, CallInv, CallOK, QueueInv, vars,
     callVars, poolVars, dbVars
<1>2. PoolInv /\ Next => PoolInv'
  <2>1. PoolInv /\ Next => TypeInv'
    BY NextType DEF PoolInv
  <2>2. PoolInv /\ Next => ClientInv' /\ CallInv'
    BY StepPool DEF Next
  <2>3. PoolInv /\ Next => QueueInv'
    BY QueueStep DEF Next, PoolInv, TypeInv
  <2>4. QED
    BY <2>1, <2>2, <2>3 DEF PoolInv
<1>3. QED
  BY <1>1, <1>2

LEMMA PoolHolds == ASSUME Pooled PROVE Spec => []PoolInv
BY InitPool, NextPool, PTL DEF Spec

\* Whatever fails, and however calls nest and retry, a client that is checked
\* out of the pool belongs to one call, which will release it, and a pending
\* connect() is in the queue once (session.ts:97-131).
THEOREM NoSlotLeaks == Spec => []SlotsAccounted
<1>1. CASE Pooled
  <2>1. PoolInv => SlotsAccounted
    BY DEF PoolInv, ClientInv, ClientOK, CallInv, CallOK, QueueInv, SlotsAccounted
  <2>2. QED
    BY <1>1, <2>1, PoolHolds, PTL
<1>2. CASE ~Pooled
  <2>1. SlotsAccounted
    BY <1>2 DEF SlotsAccounted
  <2>2. QED
    BY <2>1, PTL
<1>3. QED
  BY <1>1, <1>2

\* A client in the pool has no transaction, and a transaction holds the writes
\* of the call that has its client only (session.ts:104-122).
THEOREM PoolStaysClean == Spec => []PoolIsClean
<1>1. CASE Pooled
  <2>1. PoolInv => PoolIsClean
    BY DEF PoolInv, ClientInv, ClientOK, PoolIsClean
  <2>2. QED
    BY <1>1, <2>1, PoolHolds, PTL
<1>2. CASE ~Pooled
  <2>1. PoolIsClean
    BY <1>2 DEF PoolIsClean
  <2>2. QED
    BY <2>1, PTL
<1>3. QED
  BY <1>1, <1>2

-----------------------------------------------------------------------------
(* What a call tells its caller, and what it did.                          *)

EffectOK(k) ==
  /\ effects[k] \in {0, 1}
  /\ k \in uncertain => effects[k] = 1 /\ err[k] = "other"
  /\ effects[k] = 1 => /\ pc[k] \in {"rollback", "release", "ended"}
                       /\ k \in uncertain \/ err[k] = "none"
  /\ pc[k] \in {"release", "ended"} /\ err[k] = "none" => effects[k] = 1
  /\ pc[k] \in {"idle", "queued", "begin", "callback", "wrote", "nested", "commit"}
       => err[k] = "none"
  /\ pc[k] = "rollback" => err[k] # "none"
  /\ pc[k] = "backoff" => err[k] = "occ"

EffectInv == \A k \in Calls : Outer(k) = {} => EffectOK(k)

LEMMA InitEffect == Init => EffectInv
BY DEF Init, EffectInv, EffectOK

\* The commit of one call is no other call's.
LEMMA CommitsOwn ==
  ASSUME TypeOK, CallInv, NEW k \in Calls, pc[k] = "commit"
  PROVE  /\ open[using[k]] = {k} /\ server[using[k]] = "inTxn"
         /\ MakeDurable(k) => effects' = [effects EXCEPT ![k] = @ + 1]
<1>1. open[using[k]] = {k} /\ server[using[k]] = "inTxn"
  BY DEF CallInv, CallOK
<1>2. ASSUME MakeDurable(k) PROVE effects' = [effects EXCEPT ![k] = @ + 1]
  <2>1. effects' = [w \in Calls |-> effects[w] + (IF w \in {k} THEN 1 ELSE 0)]
    BY <1>1, <1>2 DEF MakeDurable
  <2>2. effects \in [Calls -> Nat]
    BY DEF TypeOK
  <2>3. \A w \in Calls : effects[w] + 0 = effects[w]
    BY <2>2
  <2>4. QED
    BY <2>1, <2>2, <2>3
<1>3. QED
  BY <1>1, <1>2

\* A step of a call leaves the others' results and effects alone, unless it
\* makes or settles its inner call.
LEMMA OthersKept ==
  ASSUME Pooled, TypeOK, CallInv, NEW k \in Calls, Call(k) \/ Step(k),
         NEW q \in Calls, q # k, Outer(q) = {}
  PROVE  /\ pc'[q] = pc[q] /\ err'[q] = err[q] /\ effects'[q] = effects[q]
         /\ q \in uncertain' <=> q \in uncertain
<1>0. /\ pc \in [Calls -> Labels] /\ err \in [Calls -> {"none", "occ", "other"}]
      /\ effects \in [Calls -> Nat]
  BY DEF TypeOK
<1>1. Inner[k] # q
  BY DEF Outer
<1>2. pc'[q] = pc[q]
  <2>1. CASE CallInner(k)
    BY <1>0, <1>1, <2>1 DEF CallInner
  <2>2. CASE InnerSettles(k)
    BY <1>0, <1>1, <2>2 DEF InnerSettles
  <2>3. CASE Call(k) \/ Retry(k)
    <3>1. \E c \in Clients : Attempt(k, c)
      BY <2>3 DEF Call, Retry
    <3>2. QED
      BY <1>0, <3>1 DEF Attempt
  <2>4. CASE ~(CallInner(k) \/ InnerSettles(k) \/ Call(k) \/ Retry(k))
    <3>1. \E label \in Labels : pc' = [pc EXCEPT ![k] = label]
      BY <2>4 DEF Step, CheckOut, ConnectFails, Begin, BeginFails, Write,
         CallbackThrows, CallbackReturns, Commit, CommitFails, Rollback,
         RollbackFails, Release, Move, Labels, Held
    <3>2. QED
      BY <1>0, <3>1
  <2>5. QED
    BY <2>1, <2>2, <2>3, <2>4
<1>3. err'[q] = err[q]
  <2>1. CASE InnerSettles(k)
    BY <1>0, <1>1, <2>1 DEF InnerSettles
  <2>2. CASE ~InnerSettles(k)
    BY <1>0, <2>2 DEF Call, Step, CheckOut, ConnectFails, Begin, BeginFails, Write,
       CallbackThrows, CallInner, CallbackReturns, Commit, CommitFails, Rollback,
       RollbackFails, Release, Retry, Raise, callVars
  <2>3. QED
    BY <2>1, <2>2
<1>4. effects'[q] = effects[q] /\ (q \in uncertain' <=> q \in uncertain)
  <2>1. CASE Commit(k) \/ CommitFails(k)
    <3>1. pc[k] = "commit"
      BY <2>1 DEF Commit, CommitFails, Move
    <3>2. UNCHANGED effects \/ MakeDurable(k)
      BY <2>1 DEF Commit, CommitFails
    <3>3. uncertain' = uncertain \/ uncertain' = uncertain \cup {k}
      BY <2>1, <3>1, CommitsOwn DEF Commit, CommitFails
    <3>4. effects'[q] = effects[q]
      BY <1>0, <3>1, <3>2, CommitsOwn
    <3>5. QED
      BY <3>3, <3>4
  <2>2. CASE ~(Commit(k) \/ CommitFails(k))
    BY <1>0, <2>2 DEF Call, Step, CheckOut, ConnectFails, Begin, BeginFails, Write,
       CallbackThrows, CallInner, InnerSettles, CallbackReturns, Rollback,
       RollbackFails, Release, Retry, dbVars
  <2>3. QED
    BY <2>1, <2>2
<1>5. QED
  BY <1>2, <1>3, <1>4

\* The step of a call keeps its own account.
LEMMA OwnEffect ==
  ASSUME Pooled, TypeOK, CallInv, NEW k \in Calls, Call(k) \/ Step(k), EffectOK(k)
  PROVE  EffectOK(k)'
<1>0. /\ pc \in [Calls -> Labels] /\ err \in [Calls -> {"none", "occ", "other"}]
      /\ effects \in [Calls -> Nat]
  BY DEF TypeOK
<1> USE DEF Move, Raise, callVars, dbVars, EffectOK
<1>1. CASE Call(k) \/ Retry(k)
  <2>1. \E c \in Clients : Attempt(k, c)
    BY <1>1 DEF Call, Retry
  <2>2. /\ pc'[k] = "queued" /\ err'[k] = "none" /\ UNCHANGED <<effects, uncertain>>
        /\ pc[k] \in {"idle", "backoff"}
    BY <1>0, <1>1, <2>1 DEF Call, Retry, Attempt
  <2>3. QED
    BY <2>2
<1>2. CASE \E c \in Clients : CheckOut(k, c)
  BY <1>0, <1>2 DEF CheckOut
<1>3. CASE ConnectFails(k) \/ BeginFails(k)
  <2>1. /\ pc[k] \in {"queued", "begin"} /\ pc'[k] \in {"ended", "release"}
        /\ err'[k] = "other" /\ UNCHANGED <<effects, uncertain>>
    BY <1>0, <1>3 DEF ConnectFails, BeginFails
  <2>2. QED
    BY <2>1
<1>4. CASE Begin(k) \/ CallbackReturns(k)
  BY <1>0, <1>4 DEF Begin, CallbackReturns
<1>5. CASE Write(k)
  <2>1. server[using[k]] = "inTxn"
    BY <1>5 DEF Write, CallInv, CallOK
  <2>2. QED
    BY <1>0, <1>5, <2>1 DEF Write, Server
<1>6. CASE CallbackThrows(k)
  <2>1. /\ pc[k] \in {"callback", "wrote"} /\ pc'[k] = "rollback"
        /\ err'[k] \in {"occ", "other"} /\ UNCHANGED <<effects, uncertain>>
    BY <1>0, <1>6 DEF CallbackThrows
  <2>2. QED
    BY <2>1
<1>7. CASE CallInner(k)
  <2>1. Inner[k] # k
    BY <1>7 DEF CallInner
  <2>2. /\ pc[k] = "wrote" /\ pc'[k] = "nested"
        /\ UNCHANGED <<err, effects, uncertain>>
    BY <1>0, <1>7, <2>1 DEF CallInner
  <2>3. QED
    BY <2>2
<1>8. CASE InnerSettles(k)
  <2>1. Inner[k] # k
    BY <1>8 DEF InnerSettles
  <2>2. /\ pc[k] = "nested" /\ err'[k] = err[Inner[k]]
        /\ pc'[k] = IF err[Inner[k]] = "none" THEN "commit" ELSE "rollback"
        /\ UNCHANGED <<effects, uncertain>>
    BY <1>0, <1>8, <2>1 DEF InnerSettles
  <2>3. QED
    BY <2>2
<1>9. CASE Commit(k)
  <2>1. /\ pc[k] = "commit" /\ pc'[k] = "release" /\ effects'[k] = effects[k] + 1
        /\ UNCHANGED <<err, uncertain>>
    BY <1>0, <1>9, CommitsOwn DEF Commit
  <2>2. QED
    BY <2>1
<1>10. CASE CommitFails(k)
  <2>1. pc[k] = "commit" /\ pc'[k] = "rollback" /\ err'[k] \in {"occ", "other"}
    BY <1>0, <1>10 DEF CommitFails
  <2>2. \/ UNCHANGED <<effects, uncertain>>
        \/ /\ effects'[k] = effects[k] + 1 /\ uncertain' = uncertain \cup {k}
           /\ err'[k] = "other"
    BY <1>0, <1>10, CommitsOwn DEF CommitFails
  <2>3. QED
    BY <2>1, <2>2
<1>11. CASE Rollback(k) \/ RollbackFails(k)
  BY <1>0, <1>11 DEF Rollback, RollbackFails
<1>12. CASE Release(k)
  <2>1. /\ pc[k] = "release" /\ UNCHANGED <<err, effects, uncertain>>
        /\ pc'[k] = IF Retries(k) THEN "backoff" ELSE "ended"
    BY <1>0, <1>12 DEF Release
  <2>2. QED
    BY <2>1 DEF Retries
<1>13. QED
  BY <1>1, <1>2, <1>3, <1>4, <1>5, <1>6, <1>7, <1>8, <1>9, <1>10, <1>11, <1>12
     DEF Step

LEMMA NextEffect ==
  ASSUME Pooled PROVE PoolInv /\ EffectInv /\ [Next]_vars => EffectInv'
<1>1. EffectInv /\ UNCHANGED vars => EffectInv'
  BY DEF EffectInv, EffectOK, Outer, vars, callVars, dbVars
<1>2. ASSUME PoolInv, EffectInv, NEW k \in Calls, Call(k) \/ Step(k),
             NEW q \in Calls, Outer(q) = {}
      PROVE  EffectOK(q)'
  <2>1. TypeOK /\ CallInv /\ EffectOK(q)
    BY <1>2 DEF PoolInv, TypeInv, EffectInv
  <2>2. CASE q = k
    BY <1>2, <2>1, <2>2, OwnEffect
  <2>3. CASE q # k
    <3>1. /\ pc'[q] = pc[q] /\ err'[q] = err[q] /\ effects'[q] = effects[q]
          /\ q \in uncertain' <=> q \in uncertain
      BY <1>2, <2>1, <2>3, OthersKept
    <3>2. QED
      BY <2>1, <3>1 DEF EffectOK
  <2>4. QED
    BY <2>2, <2>3
<1>3. PoolInv /\ EffectInv /\ Next => EffectInv'
  BY <1>2 DEF Next, EffectInv, Outer
<1>4. QED
  BY <1>1, <1>3

LEMMA EffectsHold == ASSUME Pooled PROVE Spec => [](PoolInv /\ EffectInv)
<1>1. Init => PoolInv /\ EffectInv
  BY InitPool, InitEffect
<1>2. PoolInv /\ EffectInv /\ [Next]_vars => PoolInv' /\ EffectInv'
  BY NextPool, NextEffect
<1>3. QED
  BY <1>1, <1>2, PTL DEF Spec

\* Over a pool, a transaction that reports success took effect exactly once
\* and one that throws took none, unless its COMMIT lost the reply, and then it
\* was not retried (session.ts:97-131, retry.ts:130-149).
THEOREM ResultTellsEffect == Spec => []EffectsMatchResult
<1>1. CASE Pooled
  <2>1. EffectInv => EffectsMatchResult
    <3> SUFFICES ASSUME EffectInv, NEW k \in Calls, Outer(k) = {}
                 PROVE  /\ effects[k] <= 1
                        /\ pc[k] = "ended" =>
                             (effects[k] = 1 <=> err[k] = "none" \/ k \in uncertain)
      BY DEF EffectsMatchResult
    <3>1. EffectOK(k)
      BY DEF EffectInv
    <3>2. QED
      BY <3>1 DEF EffectOK
  <2>2. QED
    BY <1>1, <2>1, EffectsHold, PTL
<1>2. CASE ~Pooled
  <2>1. EffectsMatchResult
    BY <1>2 DEF EffectsMatchResult
  <2>2. QED
    BY <2>1, PTL
<1>3. QED
  BY <1>1, <1>2

\* Over a pool, nothing of a transaction is durable while its callback runs.
THEOREM NothingEarly == ASSUME Pooled PROVE Spec => []OuterNotCommitted
<1>1. EffectInv => OuterNotCommitted
  BY DEF EffectInv, EffectOK, OuterNotCommitted
<1>2. QED
  BY <1>1, EffectsHold, PTL
=============================================================================
