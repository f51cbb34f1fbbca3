---------------------------- MODULE DrizzleSession ----------------------------
(***************************************************************************)
(* AwsDsqlSession.transaction and transactionWithRetry of                  *)
(* node/drizzle/src/session.ts: calls that check a client out of a pool    *)
(* (or share the one client the caller brought), BEGIN, run a callback,    *)
(* COMMIT or ROLLBACK, release the client, and are retried by withRetry    *)
(* (retry.ts) when the error is an optimistic-concurrency conflict.        *)
(*                                                                         *)
(* A callback writes once and may then await another call on the same      *)
(* database object (Inner). The pool is node-postgres's: clients are       *)
(* handed out in the order of the connect() calls.                         *)
(***************************************************************************)
EXTENDS Integers, Sequences

CONSTANTS
  Calls,       \* invocations of transaction / transactionWithRetry
  Clients,     \* the clients (the pool's slots, max of PoolConfig)
  None,        \* no call, no client
  Pooled,      \* the database was built on a pool, not on a single client
  Inner,       \* Inner[k]: the call made by the callback of k, or None
  MaxRetries,  \* maxRetries of withRetry; 0 for transaction() itself
  MaxFaults    \* bound: failures the environment may inject in a behaviour

ASSUME SessionAssumption ==
  /\ None \notin Calls \cup Clients
  /\ Pooled \in BOOLEAN
  /\ ~Pooled => \E c \in Clients : Clients = {c}
  /\ Inner \in [Calls -> Calls \cup {None}]
  /\ MaxRetries \in Nat /\ MaxFaults \in Nat

VARIABLES
  pc,          \* where each call is
  using,       \* the client of the call's session
  err,         \* the error being propagated: none, a conflict, another one
  destroy,     \* destroyClient
  tries,       \* withRetry's attempt
  queue,       \* the pool's pending connect() calls, oldest first
  holder,      \* holder[c]: the call the pool handed client c to
  server,      \* the server's side of c: clean, inTxn, aborted or lost
  open,        \* open[c]: the calls that wrote in c's open transaction
  effects,     \* how many times the write of a call was committed
  uncertain,   \* calls whose COMMIT lost its reply after it took effect
  faults       \* failures injected so far

callVars == <<using, err, destroy, tries>>
poolVars == <<queue, holder>>
dbVars   == <<server, open, effects, uncertain>>
vars     == <<pc, callVars, poolVars, dbVars, faults>>

Held   == {"begin", "callback", "wrote", "nested", "commit", "rollback", "release"}
Labels == {"idle", "queued", "backoff", "ended"} \cup Held

Outer(k) == {o \in Calls : Inner[o] = k}

Init ==
  /\ pc = [k \in Calls |-> "idle"]
  /\ using = [k \in Calls |-> None]
  /\ err = [k \in Calls |-> "none"]
  /\ destroy = [k \in Calls |-> FALSE]
  /\ tries = [k \in Calls |-> 0]
  /\ queue = <<>>
  /\ holder = [c \in Clients |-> None]
  /\ server = [c \in Clients |-> "clean"]
  /\ open = [c \in Clients |-> {}]
  /\ effects = [k \in Calls |-> 0]
  /\ uncertain = {}
  /\ faults = 0

Move(k, from, to) == pc[k] = from /\ pc' = [pc EXCEPT ![k] = to]
Fault == faults < MaxFaults /\ faults' = faults + 1

\* The server's side of call k's client and the writes of its transaction.
Server(k)     == server[using[k]]
ServerTo(k, s) == server' = [server EXCEPT ![using[k]] = s]
OpenTo(k, w)   == open' = [open EXCEPT ![using[k]] = w]

\* The connection of call k's client is gone; the server rolls back.
LoseConnection(k) == ServerTo(k, "lost") /\ OpenTo(k, {})

Raise(k, e) == err' = [err EXCEPT ![k] = e]

-----------------------------------------------------------------------------
(* Checking a client out.                                                  *)

\* The start of transaction(): connect() on a pool, this session otherwise.
\* The client matters in the second case only.
Attempt(k, client) ==
  IF Pooled
  THEN /\ pc' = [pc EXCEPT ![k] = "queued"]
       /\ queue' = Append(queue, k)
       /\ UNCHANGED <<using, holder>>
  ELSE /\ pc' = [pc EXCEPT ![k] = "begin"]
       /\ using' = [using EXCEPT ![k] = client]
       /\ UNCHANGED poolVars

\* A top-level call of the application.
Call(k) ==
  /\ pc[k] = "idle"
  /\ Outer(k) = {}
  /\ \E c \in Clients : Attempt(k, c)
  /\ UNCHANGED <<err, destroy, tries, dbVars, faults>>

CheckOut(k, c) ==
  /\ pc[k] = "queued" /\ queue # <<>> /\ Head(queue) = k
  /\ holder[c] = None
  /\ pc' = [pc EXCEPT ![k] = "begin"]
  /\ queue' = Tail(queue)
  /\ holder' = [holder EXCEPT ![c] = k]
  /\ using' = [using EXCEPT ![k] = c]
  /\ UNCHANGED <<err, destroy, tries, dbVars, faults>>

\* The queue without its i-th call.
Without(i) ==
  [j \in 1..(Len(queue) - 1) |-> IF j < i THEN queue[j] ELSE queue[j + 1]]

\* connect() rejects (it times out, or cannot open a connection), outside the
\* try block: there is no client to release.
ConnectFails(k) ==
  /\ Move(k, "queued", "ended")
  /\ Fault
  /\ Raise(k, "other")
  /\ \E i \in 1..Len(queue) : queue[i] = k /\ queue' = Without(i)
  /\ UNCHANGED <<using, destroy, tries, holder, dbVars>>

-----------------------------------------------------------------------------
(* The transaction.                                                        *)

\* Mutant: no BEGIN.
BeginOmitted(k) ==
  /\ Move(k, "begin", "callback")
  /\ Server(k) \in {"clean", "inTxn"}
  /\ UNCHANGED <<callVars, poolVars, server, open, effects, uncertain, faults>>

\* BEGIN; on a client that is in a transaction already it changes nothing.
Begin(k) ==
  /\ Move(k, "begin", "callback")
  /\ Server(k) \in {"clean", "inTxn"}
  /\ IF Server(k) = "clean" THEN ServerTo(k, "inTxn") ELSE UNCHANGED server
  /\ UNCHANGED <<callVars, poolVars, open, effects, uncertain, faults>>

\* Mutant: BEGIN is outside the try, and its failure releases nothing.
BeginFailsUnreleased(k) ==
  /\ Move(k, "begin", "ended")
  /\ Raise(k, "other")
  /\ \/ Fault /\ UNCHANGED <<server, open>>
     \/ Fault /\ LoseConnection(k)
     \/ Server(k) \in {"aborted", "lost"} /\ UNCHANGED <<server, open, faults>>
  /\ UNCHANGED <<using, destroy, tries, poolVars, effects, uncertain>>

\* BEGIN throws: nothing to roll back, destroyClient stays false. Either the
\* server refused it or the connection is gone.
BeginFails(k) ==
  /\ Move(k, "begin", "release")
  /\ Raise(k, "other")
  /\ \/ Fault /\ UNCHANGED <<server, open>>
     \/ Fault /\ LoseConnection(k)
     \/ Server(k) \in {"aborted", "lost"} /\ UNCHANGED <<server, open, faults>>
  /\ UNCHANGED <<using, destroy, tries, poolVars, effects, uncertain>>

\* The callback's statement. A client that another call took out of its
\* transaction commits it at once.
Write(k) ==
  /\ Move(k, "callback", "wrote")
  /\ \/ Server(k) = "inTxn" /\ OpenTo(k, open[using[k]] \cup {k}) /\ UNCHANGED effects
     \/ Server(k) = "clean" /\ effects' = [effects EXCEPT ![k] = @ + 1] /\ UNCHANGED open
  /\ UNCHANGED <<callVars, poolVars, server, uncertain, faults>>

\* The callback throws: its own error (the refused tx.transaction() included),
\* or a statement's, a conflict or another one, which aborts the transaction,
\* or finds the connection gone.
CallbackThrows(k) ==
  /\ pc[k] \in {"callback", "wrote"}
  /\ pc' = [pc EXCEPT ![k] = "rollback"]
  /\ \/ Fault /\ Raise(k, "other") /\ UNCHANGED <<server, open>>
     \/ Fault /\ Server(k) = "inTxn" /\ (Raise(k, "occ") \/ Raise(k, "other"))
              /\ ServerTo(k, "aborted") /\ OpenTo(k, {})
     \/ Fault /\ Raise(k, "other") /\ LoseConnection(k)
     \/ Server(k) \in {"aborted", "lost"} /\ Raise(k, "other")
                                          /\ UNCHANGED <<server, open, faults>>
  /\ UNCHANGED <<using, destroy, tries, poolVars, effects, uncertain>>

\* The callback awaits a call on the database object (not on its tx).
CallInner(k) ==
  /\ pc[k] = "wrote" /\ Inner[k] # None /\ pc[Inner[k]] = "idle"
  /\ LET i == Inner[k] IN
       IF Pooled
       THEN /\ pc' = [pc EXCEPT ![k] = "nested", ![i] = "queued"]
            /\ queue' = Append(queue, i)
            /\ UNCHANGED <<using, holder>>
       ELSE /\ pc' = [pc EXCEPT ![k] = "nested", ![i] = "begin"]
            /\ using' = [using EXCEPT ![i] = using[k]]
            /\ UNCHANGED poolVars
  /\ UNCHANGED <<err, destroy, tries, dbVars, faults>>

\* The inner call settles: the callback goes on, or throws its error (whose
\* cause chain keeps the conflict, so withRetry sees it through the outer call).
\* A retry of the outer call makes the inner call anew.
InnerSettles(k) ==
  /\ pc[k] = "nested" /\ pc[Inner[k]] = "ended"
  /\ LET i == Inner[k] IN
       /\ pc' = [pc EXCEPT ![k] = IF err[i] = "none" THEN "commit" ELSE "rollback",
                           ![i] = "idle"]
       /\ err' = [err EXCEPT ![k] = err[i], ![i] = "none"]
       /\ tries' = [tries EXCEPT ![i] = 0]
  /\ UNCHANGED <<using, destroy, poolVars, dbVars, faults>>

CallbackReturns(k) ==
  /\ Inner[k] = None
  /\ Move(k, "wrote", "commit")
  /\ UNCHANGED <<callVars, poolVars, dbVars, faults>>

\* The server makes the open transaction of k's client durable.
MakeDurable(k) ==
  effects' = [w \in Calls |-> effects[w] + (IF w \in open[using[k]] THEN 1 ELSE 0)]

\* COMMIT; outside a transaction, or in an aborted one, the server keeps
\* nothing and raises no error.
Commit(k) ==
  /\ Move(k, "commit", "release")
  /\ Server(k) # "lost"
  /\ MakeDurable(k)
  /\ ServerTo(k, "clean") /\ OpenTo(k, {})
  /\ UNCHANGED <<callVars, poolVars, uncertain, faults>>

\* COMMIT throws: a conflict, or the connection is gone, before the commit
\* took effect or after it.
CommitFails(k) ==
  /\ Move(k, "commit", "rollback")
  /\ \/ /\ Fault /\ Server(k) = "inTxn" /\ Raise(k, "occ")
        /\ ServerTo(k, "clean") /\ OpenTo(k, {})
        /\ UNCHANGED <<effects, uncertain>>
     \/ /\ Fault /\ Raise(k, "other") /\ LoseConnection(k)
        /\ UNCHANGED <<effects, uncertain>>
     \/ /\ Fault /\ Server(k) = "inTxn" /\ Raise(k, "other")
        /\ MakeDurable(k)
        /\ uncertain' = uncertain \cup open[using[k]]
        /\ LoseConnection(k)
     \/ /\ Server(k) = "lost" /\ Raise(k, "other")
        /\ UNCHANGED <<server, open, effects, uncertain, faults>>
  /\ UNCHANGED <<using, destroy, tries, poolVars>>

Rollback(k) ==
  /\ Move(k, "rollback", "release")
  /\ Server(k) # "lost"
  /\ ServerTo(k, "clean") /\ OpenTo(k, {})
  /\ UNCHANGED <<callVars, poolVars, effects, uncertain, faults>>

\* Mutant: the client of a failed ROLLBACK is not destroyed.
RollbackFailsKept(k) ==
  /\ Move(k, "rollback", "release")
  /\ \/ Server(k) = "lost" /\ UNCHANGED faults
     \/ Fault
  /\ UNCHANGED <<callVars, poolVars, dbVars>>

\* ROLLBACK throws: the client is to be destroyed; the first error is kept.
RollbackFails(k) ==
  /\ Move(k, "rollback", "release")
  /\ \/ Server(k) = "lost" /\ UNCHANGED faults
     \/ Fault
  /\ destroy' = [destroy EXCEPT ![k] = TRUE]
  /\ UNCHANGED <<using, err, tries, poolVars, dbVars>>

-----------------------------------------------------------------------------
(* Releasing the client, and what withRetry does next.                     *)

\* The pool replaces a client that is destroyed, or whose connection is gone,
\* by a new one; closing a connection rolls its transaction back.
ReturnClient(k) ==
  /\ holder' = [holder EXCEPT ![using[k]] = None]
  /\ IF destroy[k] \/ Server(k) = "lost"
     THEN ServerTo(k, "clean") /\ OpenTo(k, {})
     ELSE UNCHANGED <<server, open>>

\* Mutant: any error is worth another attempt.
RetriesAnyError(k) == err[k] # "none" /\ tries[k] < MaxRetries

\* Mutant: one attempt too many.
RetriesOnceMore(k) == err[k] = "occ" /\ tries[k] <= MaxRetries

\* withRetry calls again on a conflict, up to MaxRetries times.
Retries(k) == err[k] = "occ" /\ tries[k] < MaxRetries

\* The finally block; then the call settles or is to be attempted again (after
\* a back-off during which it holds nothing).
Release(k) ==
  /\ pc[k] = "release"
  /\ IF Pooled THEN ReturnClient(k) ELSE UNCHANGED <<holder, server, open>>
  /\ using' = [using EXCEPT ![k] = None]
  /\ destroy' = [destroy EXCEPT ![k] = FALSE]
  /\ pc' = [pc EXCEPT ![k] = IF Retries(k) THEN "backoff" ELSE "ended"]
  /\ UNCHANGED <<err, tries, queue, effects, uncertain, faults>>

Retry(k) ==
  /\ pc[k] = "backoff"
  /\ \E c \in Clients : Attempt(k, c)
  /\ tries' = [tries EXCEPT ![k] = @ + 1]
  /\ err' = [err EXCEPT ![k] = "none"]
  /\ UNCHANGED <<destroy, dbVars, faults>>

-----------------------------------------------------------------------------
Step(k) ==
  \/ \E c \in Clients : CheckOut(k, c)
  \/ ConnectFails(k)
  \/ Begin(k) \/ BeginFails(k) \/ Write(k) \/ CallbackThrows(k)
  \/ CallInner(k) \/ InnerSettles(k) \/ CallbackReturns(k)
  \/ Commit(k) \/ CommitFails(k) \/ Rollback(k) \/ RollbackFails(k)
  \/ Release(k) \/ Retry(k)

Next == \E k \in Calls : Call(k) \/ Step(k)

Spec == Init /\ [][Next]_vars

\* The event loop runs every call that can go on; timers fire.
FairSpec == Spec /\ \A k \in Calls : WF_vars(Step(k))
-----------------------------------------------------------------------------
(* Properties.                                                             *)

TypeOK ==
  /\ pc \in [Calls -> Labels]
  /\ using \in [Calls -> Clients \cup {None}]
  /\ err \in [Calls -> {"none", "occ", "other"}]
  /\ destroy \in [Calls -> BOOLEAN]
  /\ tries \in [Calls -> 0..MaxRetries]
  /\ queue \in Seq(Calls)
  /\ holder \in [Clients -> Calls \cup {None}]
  /\ server \in [Clients -> {"clean", "inTxn", "aborted", "lost"}]
  /\ open \in [Clients -> SUBSET Calls]
  /\ effects \in [Calls -> Nat]
  /\ uncertain \subseteq Calls
  /\ faults \in 0..MaxFaults
  /\ \A k \in Calls : pc[k] \in Held => using[k] \in Clients
  /\ \A k \in Calls : pc[k] = "nested" => Inner[k] \in Calls

\* No slot of the pool leaks: a client that is checked out belongs to a call
\* that will release it, whatever failed (session.ts:97-131), a call has the
\* client to itself, and one that waits for a client waits once.
SlotsAccounted ==
  Pooled =>
    /\ \A c \in Clients : holder[c] # None =>
                            pc[holder[c]] \in Held /\ using[holder[c]] = c
    /\ \A k \in Calls : pc[k] \in Held => holder[using[k]] = k
    /\ \A k \in Calls : pc[k] = "queued" <=> \E i \in 1..Len(queue) : queue[i] = k
    /\ \A i, j \in 1..Len(queue) : queue[i] = queue[j] => i = j

\* A client goes back to the pool without a transaction, open or aborted
\* (session.ts:104-122), and an open transaction holds its own call's writes.
PoolIsClean ==
  Pooled => \A c \in Clients :
    /\ holder[c] = None => server[c] = "clean"
    /\ open[c] \subseteq {holder[c]}

\* Over a pool, a transaction that reports success took effect exactly once, however often
\* it was retried; one that throws had no effect, unless the connection broke
\* while COMMIT was on its way, and then it is not retried (retry.ts:130-149).
EffectsMatchResult ==
  Pooled => \A k \in Calls : Outer(k) = {} =>
    /\ effects[k] <= 1
    /\ pc[k] = "ended" =>
         (effects[k] = 1 <=> err[k] = "none" \/ k \in uncertain)

\* Nothing of a transaction is committed while its callback still runs:
\* "rejected rather than silently committing the outer transaction"
\* (session.ts:170-171, driver.ts:60-62).
OuterNotCommitted ==
  \A k \in Calls : Outer(k) = {} /\ pc[k] \in {"wrote", "nested"} => effects[k] = 0

\* Every call of the application settles (session.ts:97-100: without the
\* release the pool "is exhausted"; retry.ts:130: attempts are bounded).
CallsSettle ==
  \A k \in Calls : Outer(k) = {} => (pc[k] # "idle" ~> pc[k] = "ended")
=============================================================================
