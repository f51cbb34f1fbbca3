------------------------- MODULE EfTransactionsProofs -------------------------
(***************************************************************************)
(* Proofs about EfTransactions: its types; that the answer to a request    *)
(* tells whether there is an order; and that the stock is accounted for:   *)
(* what was there when a product was created is what is left of it and     *)
(* what the orders bought, for any requests that compete, and however they *)
(* are retried and fail.                                                   *)
(***************************************************************************)
EXTENDS EfTransactions, FiniteSetTheorems, WellFoundedInduction, TLAPS

-----------------------------------------------------------------------------
(* Amounts of products.                                                    *)

AmountSet    == UNION {[ps -> Int] : ps \in SUBSET Products}
Transactions == [open : BOOLEAN, snapshot : AmountSet, sent : BOOLEAN, overtaken : SUBSET Products]
Trackers     == [products : AmountSet, order : BOOLEAN]

LEMMA AmountSetIs ==
  ASSUME NEW f \in AmountSet
  PROVE  Amounts(f)
<1>1. PICK ps \in SUBSET Products : f \in [ps -> Int]
  BY DEF AmountSet
<1>2. QED
  BY <1>1 DEF Amounts

LEMMA InAmountSet ==
  ASSUME NEW ps \in SUBSET Products, NEW f \in [ps -> Int]
  PROVE  f \in AmountSet
BY DEF AmountSet

LEMMA Nothing ==
  /\ NoStock \in AmountSet
  /\ NoTransaction \in Transactions
  /\ Untracked \in Trackers
<1>1. NoStock \in AmountSet
  <2>1. NoStock \in [{} -> Int]
    BY DEF NoStock
  <2>2. QED
    BY <2>1, InAmountSet
<1>2. QED
  BY <1>1 DEF NoTransaction, Transactions, Untracked, Trackers

LEMMA ItemsAre ==
  ASSUME NEW r \in Requests
  PROVE  /\ DOMAIN Items[r] \in SUBSET Products
         /\ \A p \in DOMAIN Items[r] :
              /\ Items[r][p].quantity \in Int /\ Items[r][p].most \in Int
              /\ Items[r][p].most >= Items[r][p].quantity
BY TransactionsAssumption

LEMMA ChangedIs ==
  ASSUME NEW r \in Requests
  PROVE  /\ Changed(r) \subseteq DOMAIN Items[r] /\ Changed(r) \subseteq Products
         /\ \A p \in Changed(r) : tx[r].sent
         /\ tx[r].sent => \A p \in DOMAIN Items[r] \ Changed(r) : Items[r][p].quantity = 0
BY ItemsAre DEF Changed

LEMMA FindIs ==
  ASSUME NEW r, NEW entities \in Trackers, tx[r] \in Transactions
  PROVE  Find(r, entities) \in AmountSet
<1> DEFINE known == entities.products
           snap  == tx[r].snapshot
<1>1. known \in AmountSet /\ snap \in AmountSet
  BY DEF Trackers, Transactions
<1>2. Amounts(known) /\ Amounts(snap)
  BY <1>1, AmountSetIs
<1> HIDE DEF known, snap
<1>3. [p \in DOMAIN known \cup DOMAIN snap |-> IF p \in DOMAIN known THEN known[p] ELSE snap[p]]
        \in [DOMAIN known \cup DOMAIN snap -> Int]
  BY <1>2 DEF Amounts
<1>4. DOMAIN known \cup DOMAIN snap \in SUBSET Products
  BY <1>2 DEF Amounts
<1>5. QED
  BY <1>3, <1>4, InAmountSet DEF Find, known, snap

LEMMA PlacedIs ==
  ASSUME NEW r \in Requests, NEW found \in AmountSet, Valid(r, found)
  PROVE  /\ Placed(r, found) \in Trackers
         /\ DOMAIN Placed(r, found).products = DOMAIN Items[r]
         /\ Placed(r, found).order
<1> DEFINE lowered == [p \in DOMAIN Items[r] |-> found[p] - Items[r][p].quantity]
<1>1. \A p \in DOMAIN Items[r] : found[p] \in Int /\ Items[r][p].quantity \in Int
  BY AmountSetIs, ItemsAre DEF Valid, Amounts
<1>2. lowered \in [DOMAIN Items[r] -> Int] /\ DOMAIN lowered = DOMAIN Items[r]
  BY <1>1
<1>3. lowered \in AmountSet
  BY <1>2, InAmountSet, ItemsAre
<1>4. Placed(r, found) = [products |-> lowered, order |-> TRUE]
  BY DEF Placed
<1> HIDE DEF lowered
<1>5. QED
  BY <1>2, <1>3, <1>4 DEF Trackers

-----------------------------------------------------------------------------
(* Types.                                                                  *)

Labels == {"idle", "begin", "operation", "commit", "dispose", "caught", "verify", "respond",
           "answered"}

\* TypeOK, and: a transaction is open until it is disposed of or COMMIT ends
\* it, what SaveChanges sent is the products of the order, and the retries are
\* not used up before the answer.
TypeInv ==
  /\ stock \in AmountSet /\ orders \subseteq Requests
  /\ tx \in [Requests -> Transactions]
  /\ pc \in [Requests -> Labels]
  /\ completed \in [Requests -> BOOLEAN]
  /\ tracked \in [Requests -> Trackers]
  /\ commitFailed \in [Requests -> BOOLEAN]
  /\ validationError \in [Requests -> BOOLEAN]
  /\ exception \in [Requests -> {"none", "occ", "other"}]
  /\ retries \in [Requests -> 0..(MaxRetryCount + 1)]
  /\ answer \in [Requests -> {0, 201, 400, 500}]
  /\ faults \in 0..MaxFaults /\ troubled \subseteq Requests /\ unsure \subseteq Requests

WellFormed(r) ==
  /\ pc[r] # "answered" => retries[r] <= MaxRetryCount
  /\ pc[r] \in {"operation", "commit"} => tx[r].open
  /\ pc[r] = "commit" /\ tx[r].sent => DOMAIN tracked[r].products = DOMAIN Items[r]

FormInv == \A r \in Requests : WellFormed(r)

LEMMA TypeInvIsEnough == TypeInv => TypeOK
<1>1. ASSUME TypeInv, NEW r \in Requests
      PROVE  /\ Amounts(tx[r].snapshot) /\ Amounts(tracked[r].products)
             /\ tx[r].open \in BOOLEAN /\ tx[r].sent \in BOOLEAN /\ tx[r].overtaken \subseteq Products
             /\ tracked[r].order \in BOOLEAN
  <2>1. tx[r] \in Transactions /\ tracked[r] \in Trackers
    BY <1>1 DEF TypeInv
  <2>2. QED
    BY <2>1, AmountSetIs DEF Transactions, Trackers
<1>2. QED
  BY <1>1, AmountSetIs DEF TypeInv, TypeOK, Labels

LEMMA Bounds == MaxRetryCount \in Nat /\ MaxFaults \in Nat
BY TransactionsAssumption

LEMMA CreateTypes ==
  ASSUME TypeInv, FormInv, NEW p \in Products, CreateProduct(p)
  PROVE  TypeInv' /\ FormInv'
<1>1. Amounts(stock)
  BY AmountSetIs DEF TypeInv
<1>2. StockOf[p] \in Int
  BY TransactionsAssumption
<1>3. stock' \in [DOMAIN stock \cup {p} -> Int]
  BY <1>1, <1>2 DEF CreateProduct, Amounts
<1>4. stock' \in AmountSet
  BY <1>1, <1>3, InAmountSet DEF Amounts
<1>5. QED
  BY <1>4 DEF CreateProduct, TypeInv, FormInv, WellFormed, retryVars, handlerVars, historyVars

LEMMA OtherRequests ==
  ASSUME TypeInv, NEW r \in Requests, NEW label, Goto(r, label)
  PROVE  pc'[r] = label /\ \A q \in Requests \ {r} : pc'[q] = pc[q]
BY DEF TypeInv, Goto

LEMMA GotoType ==
  ASSUME TypeInv, NEW r \in Requests, NEW label \in Labels, Goto(r, label)
  PROVE  pc' \in [Requests -> Labels]
BY DEF TypeInv, Goto

LEMMA ThrowType ==
  ASSUME TypeInv, NEW r \in Requests
  PROVE  /\ \A kind \in {"none", "occ", "other"} :
              Throw(r, kind) => exception' \in [Requests -> {"none", "occ", "other"}] /\ exception'[r] = kind
         /\ (SchemaChanged(r) \/ Fault(r)) =>
              /\ exception' \in [Requests -> {"none", "occ", "other"}]
              /\ faults' \in 0..MaxFaults /\ troubled' \subseteq Requests
         /\ SchemaChanged(r) => exception'[r] = "occ"
         /\ Fault(r) => exception'[r] = "other"
<1>1. \A kind \in {"none", "occ", "other"} :
        Throw(r, kind) => exception' \in [Requests -> {"none", "occ", "other"}] /\ exception'[r] = kind
  BY DEF Throw, TypeInv
<1>2. (SchemaChanged(r) \/ Fault(r)) => faults' \in 0..MaxFaults /\ troubled' \subseteq Requests
  BY Bounds DEF SchemaChanged, Fault, TypeInv
<1>3. QED
  BY <1>1, <1>2 DEF SchemaChanged, Fault

LEMMA RespondType ==
  ASSUME TypeInv, NEW r \in Requests, NEW status \in {0, 201, 400, 500}, Respond(r, status)
  PROVE  /\ answer' \in [Requests -> {0, 201, 400, 500}] /\ pc' \in [Requests -> Labels]
         /\ answer'[r] = status /\ pc'[r] = "answered"
         /\ \A q \in Requests \ {r} : pc'[q] = pc[q] /\ answer'[q] = answer[q]
BY DEF TypeInv, Respond, Goto, Labels

-----------------------------------------------------------------------------
(* What the answer tells.                                                  *)

\* Where the handler of a request is, and whether there is its order.
OrderKnown(r) ==
  /\ pc[r] \in {"idle", "begin", "operation", "commit", "verify"} => r \notin orders
  /\ pc[r] \in {"operation", "commit"} => exception[r] = "none"
  /\ pc[r] = "commit" => (tx[r].sent <=> ~validationError[r])
  /\ pc[r] = "dispose" /\ exception[r] = "none" => (r \in orders <=> ~validationError[r])
  /\ pc[r] \in {"dispose", "caught"} /\ exception[r] = "occ" => r \notin orders
  /\ pc[r] \in {"dispose", "caught"} /\ exception[r] = "other" /\ r \in orders => r \in unsure
  /\ pc[r] = "caught" => exception[r] # "none"
  /\ pc[r] = "respond" => (r \in orders <=> ~validationError[r])
  /\ pc[r] # "answered" => answer[r] = 0
  /\ answer[r] = 201 => r \in orders
  /\ answer[r] = 400 => r \notin orders
  /\ answer[r] = 500 /\ r \in orders => r \in unsure

Inv == TypeInv /\ \A r \in Requests : WellFormed(r) /\ OrderKnown(r)

\* What a step leaves of another request.
Same(q) ==
  /\ pc'[q] = pc[q] /\ tracked'[q] = tracked[q] /\ validationError'[q] = validationError[q]
  /\ exception'[q] = exception[q] /\ retries'[q] = retries[q] /\ answer'[q] = answer[q]
  /\ tx[q].open => tx'[q].open /\ tx'[q].sent = tx[q].sent
  /\ q \in orders' <=> q \in orders
  /\ q \in unsure => q \in unsure'

LEMMA SameKeeps ==
  ASSUME NEW q \in Requests, Same(q), WellFormed(q), OrderKnown(q)
  PROVE  WellFormed(q)' /\ OrderKnown(q)'
<1>1. WellFormed(q)'
  BY DEF Same, WellFormed
<1>2. OrderKnown(q)'
  BY DEF Same, WellFormed, OrderKnown
<1>3. QED
  BY <1>1, <1>2

LEMMA StepOf ==
  ASSUME Inv, NEW r \in Requests, TypeInv', WellFormed(r)', OrderKnown(r)',
         \A q \in Requests \ {r} : Same(q)
  PROVE  Inv'
<1>1. ASSUME NEW q \in Requests
      PROVE  WellFormed(q)' /\ OrderKnown(q)'
  <2>1. CASE q = r
    BY <2>1
  <2>2. CASE q # r
    BY <2>2, SameKeeps DEF Inv
  <2>3. QED
    BY <2>1, <2>2
<1>2. QED
  BY <1>1 DEF Inv

LEMMA FirstExecutionKeeps ==
  ASSUME Inv, NEW r \in Requests, OnFirstExecution(r)
  PROVE  Inv'
<1>1. TypeInv'
  <2>1. retries' \in [Requests -> 0..(MaxRetryCount + 1)]
    BY Bounds DEF OnFirstExecution, Inv, TypeInv
  <2>2. pc' \in [Requests -> Labels]
    BY GotoType DEF OnFirstExecution, Inv, Labels
  <2>3. QED
    BY <2>1, <2>2 DEF OnFirstExecution, Inv, TypeInv, dbVars, handlerVars, historyVars
<1>2. \A q \in Requests \ {r} : Same(q)
  BY OtherRequests DEF OnFirstExecution, Inv, TypeInv, Same, dbVars, handlerVars, historyVars
<1>3. pc'[r] = "begin" /\ retries'[r] = 0
  BY OtherRequests DEF OnFirstExecution, Inv, TypeInv
<1>4. WellFormed(r)'
  BY <1>3, Bounds DEF WellFormed
<1>5. OrderKnown(r)'
  BY <1>3 DEF OnFirstExecution, Inv, OrderKnown, dbVars, handlerVars, historyVars
<1>6. QED
  BY <1>1, <1>2, <1>4, <1>5, StepOf

LEMMA BeginKeeps ==
  ASSUME Inv, NEW r \in Requests, BeginDbTransaction(r)
  PROVE  Inv'
<1> USE DEF BeginDbTransaction, dbVars, handlerVars, historyVars
<1>1. CASE /\ tx' = [tx EXCEPT ![r] = [NoTransaction EXCEPT !.open = TRUE, !.snapshot = stock]]
           /\ completed' = [completed EXCEPT ![r] = FALSE]
           /\ commitFailed' = [commitFailed EXCEPT ![r] = FALSE]
           /\ Throw(r, "none") /\ Goto(r, "operation")
           /\ UNCHANGED <<faults, troubled>>
  <2> DEFINE new == [NoTransaction EXCEPT !.open = TRUE, !.snapshot = stock]
  <2>1. new \in Transactions /\ new.open
    BY Nothing DEF Inv, TypeInv, NoTransaction, Transactions
  <2> HIDE DEF new
  <2>2. tx' \in [Requests -> Transactions] /\ tx'[r] = new /\ \A q \in Requests \ {r} : tx'[q] = tx[q]
    BY <1>1, <2>1 DEF Inv, TypeInv, new
  <2>3. pc' \in [Requests -> Labels] /\ pc'[r] = "operation"
    BY <1>1, GotoType, OtherRequests DEF Inv, Labels
  <2>4. exception' \in [Requests -> {"none", "occ", "other"}] /\ exception'[r] = "none"
    BY <1>1, ThrowType DEF Inv
  <2>5. TypeInv'
    BY <1>1, <2>2, <2>3, <2>4 DEF Inv, TypeInv
  <2>6. \A q \in Requests \ {r} : Same(q)
    BY <1>1, <2>2, OtherRequests DEF Inv, TypeInv, Same, Throw
  <2>7. WellFormed(r)'
    BY <2>1, <2>2, <2>3 DEF Inv, WellFormed
  <2>8. OrderKnown(r)'
    BY <2>3, <2>4 DEF Inv, OrderKnown
  <2>9. QED
    BY <2>5, <2>6, <2>7, <2>8, StepOf
<1>2. CASE Fault(r) /\ Goto(r, "caught") /\ UNCHANGED <<tx, completed, commitFailed>>
  <2>1. pc' \in [Requests -> Labels] /\ pc'[r] = "caught"
    BY <1>2, GotoType, OtherRequests DEF Inv, Labels
  <2>2. TypeInv'
    BY <1>2, <2>1, ThrowType DEF Inv, TypeInv
  <2>3. \A q \in Requests \ {r} : Same(q)
    BY <1>2, OtherRequests DEF Inv, TypeInv, Same, Throw, Fault
  <2>4. exception'[r] = "other"
    BY <1>2, ThrowType DEF Inv
  <2>5. WellFormed(r)'
    BY <2>1 DEF Inv, WellFormed
  <2>6. OrderKnown(r)'
    BY <2>1, <2>4 DEF Inv, OrderKnown
  <2>7. QED
    BY <2>2, <2>3, <2>5, <2>6, StepOf
<1>3. QED
  BY <1>1, <1>2

LEMMA OperationKeeps ==
  ASSUME Inv, NEW r \in Requests, Operation(r)
  PROVE  Inv'
<1> USE DEF dbVars
<1> DEFINE start  == Started(r)
           found  == Find(r, start.entities)
           valid  == Valid(r, found)
           placed == IF valid THEN Placed(r, found) ELSE start.entities
<1>1. tx[r] \in Transactions /\ tx[r].open /\ pc[r] = "operation" /\ exception[r] = "none"
  BY DEF Operation, Inv, TypeInv, WellFormed, OrderKnown
<1>2. start.entities \in Trackers /\ start.error = FALSE
  BY Nothing DEF Started
<1>3. found \in AmountSet
  BY <1>1, <1>2, FindIs
<1>4. placed \in Trackers /\ (valid => DOMAIN placed.products = DOMAIN Items[r])
  BY <1>2, <1>3, PlacedIs
<1>5. valid \in BOOLEAN
  BY DEF Valid
<1>6. UNCHANGED <<dbVars, completed, retries, answer, unsure>>
  BY DEF Operation
<1>7. \/ /\ tx' = [tx EXCEPT ![r].sent = valid]
         /\ tracked' = [tracked EXCEPT ![r] = placed]
         /\ validationError' = [validationError EXCEPT ![r] = start.error \/ ~valid]
         /\ commitFailed' = [commitFailed EXCEPT ![r] = TRUE]
         /\ Goto(r, "commit")
         /\ UNCHANGED <<exception, faults, troubled>>
      \/ /\ \/ SchemaChanged(r) \/ Fault(r)
            \/ /\ valid /\ start.entities.order
               /\ Throw(r, "other") /\ UNCHANGED <<faults, troubled>>
         /\ \E entities \in {start.entities, placed} : tracked' = [tracked EXCEPT ![r] = entities]
         /\ validationError' = [validationError EXCEPT ![r] = start.error]
         /\ Goto(r, "dispose")
         /\ UNCHANGED <<tx, commitFailed>>
  BY Zenon DEF Operation
<1> HIDE DEF start, found, valid, placed
<1>8. CASE /\ tx' = [tx EXCEPT ![r].sent = valid]
           /\ tracked' = [tracked EXCEPT ![r] = placed]
           /\ validationError' = [validationError EXCEPT ![r] = start.error \/ ~valid]
           /\ commitFailed' = [commitFailed EXCEPT ![r] = TRUE]
           /\ Goto(r, "commit")
           /\ UNCHANGED <<exception, faults, troubled>>
  <2> DEFINE new == [tx[r] EXCEPT !.sent = valid]
  <2>1. new \in Transactions /\ new.open /\ new.sent = valid
    BY <1>1, <1>5 DEF Transactions
  <2>2. tx' = [tx EXCEPT ![r] = new] /\ tx \in [Requests -> Transactions]
    BY <1>8 DEF Inv, TypeInv
  <2> HIDE DEF new
  <2>3. /\ tx' \in [Requests -> Transactions] /\ tx'[r].open /\ tx'[r].sent = valid
        /\ \A q \in Requests \ {r} : tx'[q] = tx[q]
    BY <2>1, <2>2
  <2>4. pc' \in [Requests -> Labels] /\ pc'[r] = "commit"
    BY <1>8, GotoType, OtherRequests DEF Inv, Labels
  <2>5. tracked' \in [Requests -> Trackers] /\ tracked'[r] = placed
    BY <1>4, <1>8 DEF Inv, TypeInv
  <2>6. validationError' = [validationError EXCEPT ![r] = ~valid]
    BY <1>2, <1>8
  <2>7. validationError' \in [Requests -> BOOLEAN] /\ (validationError'[r] <=> ~valid)
    BY <1>5, <2>6 DEF Inv, TypeInv
  <2>8. TypeInv'
    BY <1>6, <1>8, <2>3, <2>4, <2>5, <2>7 DEF Inv, TypeInv
  <2>9. \A q \in Requests \ {r} : Same(q)
    BY <1>6, <1>8, <2>3, OtherRequests DEF Inv, TypeInv, Same
  <2>10. WellFormed(r)'
    BY <1>1, <1>4, <1>6, <2>3, <2>4, <2>5 DEF Inv, WellFormed
  <2>11. OrderKnown(r)'
    BY <1>1, <1>6, <1>8, <2>3, <2>4, <2>7 DEF Inv, OrderKnown
  <2>12. QED
    BY <2>8, <2>9, <2>10, <2>11, StepOf
<1>9. CASE /\ \/ SchemaChanged(r) \/ Fault(r)
              \/ /\ valid /\ start.entities.order
                 /\ Throw(r, "other") /\ UNCHANGED <<faults, troubled>>
           /\ \E entities \in {start.entities, placed} : tracked' = [tracked EXCEPT ![r] = entities]
           /\ validationError' = [validationError EXCEPT ![r] = start.error]
           /\ Goto(r, "dispose")
           /\ UNCHANGED <<tx, commitFailed>>
  <2>1. pc' \in [Requests -> Labels] /\ pc'[r] = "dispose"
    BY <1>9, GotoType, OtherRequests DEF Inv, Labels
  <2>2. /\ tracked' \in [Requests -> Trackers] /\ \A q \in Requests \ {r} : tracked'[q] = tracked[q]
    <3>1. PICK entities \in {start.entities, placed} : tracked' = [tracked EXCEPT ![r] = entities]
      BY <1>9
    <3>2. QED
      BY <1>2, <1>4, <3>1 DEF Inv, TypeInv
  <2>3. validationError' \in [Requests -> BOOLEAN]
    BY <1>2, <1>9 DEF Inv, TypeInv
  <2>4. /\ exception' \in [Requests -> {"none", "occ", "other"}] /\ exception'[r] \in {"occ", "other"}
        /\ faults' \in 0..MaxFaults /\ troubled' \subseteq Requests
    BY <1>9, ThrowType DEF Inv, TypeInv
  <2>5. TypeInv'
    BY <1>6, <1>9, <2>1, <2>2, <2>4, <2>3 DEF Inv, TypeInv
  <2>6. \A q \in Requests \ {r} : Same(q)
    BY <1>6, <1>9, <2>2, <2>3, OtherRequests DEF Inv, TypeInv, Same, SchemaChanged, Fault, Throw
  <2>7. WellFormed(r)'
    BY <1>1, <1>6, <2>1 DEF Inv, WellFormed
  <2>8. OrderKnown(r)'
    BY <1>1, <1>6, <2>1, <2>4 DEF Inv, OrderKnown
  <2>9. QED
    BY <2>5, <2>6, <2>7, <2>8, StepOf
<1>10. QED
  BY ONLY <1>7, <1>8, <1>9, Zenon

\* What COMMIT does when it takes effect.
LEMMA CommittedIs ==
  ASSUME Inv, NEW r \in Requests, pc[r] = "commit", Committed(r)
  PROVE  /\ stock' \in AmountSet /\ orders' \subseteq Requests /\ tx' \in [Requests -> Transactions]
         /\ r \in orders' <=> tx[r].sent
         /\ \A q \in Requests \ {r} :
              /\ q \in orders' <=> q \in orders
              /\ tx[q].open => tx'[q].open /\ tx'[q].sent = tx[q].sent
<1> DEFINE changed == Changed(r)
           bought  == tracked[r].products
<1>1. /\ stock' = [p \in DOMAIN stock |-> IF p \in changed THEN bought[p] ELSE stock[p]]
      /\ orders' = IF tx[r].sent THEN orders \cup {r} ELSE orders
      /\ tx' = [q \in Requests |->
                  IF q = r \/ ~tx[q].open THEN NoTransaction
                  ELSE [tx[q] EXCEPT !.overtaken = @ \cup changed]]
  BY DEF Committed
<1>2. /\ changed \subseteq DOMAIN Items[r] /\ changed \subseteq Products
      /\ \A p \in changed : tx[r].sent
  BY ChangedIs
<1>3. tx[r] \in Transactions /\ tracked[r] \in Trackers /\ r \notin orders
  BY DEF Inv, TypeInv, OrderKnown
<1>4. \A p \in changed : bought[p] \in Int
  <2>1. bought \in AmountSet
    BY <1>3 DEF Trackers
  <2>2. tx[r].sent => DOMAIN bought = DOMAIN Items[r]
    BY DEF Inv, WellFormed
  <2>3. QED
    BY <1>2, <2>1, <2>2, AmountSetIs DEF Amounts
<1> HIDE DEF changed, bought
<1>5. stock' \in AmountSet
  <2>1. Amounts(stock)
    BY AmountSetIs DEF Inv, TypeInv
  <2>2. stock' \in [DOMAIN stock -> Int]
    BY <1>1, <1>4, <2>1 DEF Amounts
  <2>3. QED
    BY <2>1, <2>2, InAmountSet DEF Amounts
<1>6. orders' \subseteq Requests /\ (r \in orders' <=> tx[r].sent)
  BY <1>1, <1>3 DEF Inv, TypeInv, Transactions
<1>7. ASSUME NEW q \in Requests
      PROVE  /\ tx'[q] \in Transactions
             /\ q # r /\ tx[q].open => tx'[q].open /\ tx'[q].sent = tx[q].sent
  <2>1. tx[q] \in Transactions
    BY DEF Inv, TypeInv
  <2>2. tx'[q] = IF q = r \/ ~tx[q].open THEN NoTransaction
                 ELSE [tx[q] EXCEPT !.overtaken = @ \cup changed]
    BY <1>1
  <2>3. QED
    BY <1>2, <2>1, <2>2, Nothing DEF Transactions
<1>8. tx' \in [Requests -> Transactions]
  <2>1. tx' = [q \in Requests |-> tx'[q]]
    BY <1>1
  <2>2. QED
    BY <1>7, <2>1
<1>9. \A q \in Requests \ {r} : q \in orders' <=> q \in orders
  BY <1>1
<1>10. QED
  BY <1>5, <1>6, <1>7, <1>8, <1>9

LEMMA AbortedIs ==
  ASSUME Inv, NEW r \in Requests, Aborted(r)
  PROVE  /\ stock' \in AmountSet /\ orders' = orders /\ tx' \in [Requests -> Transactions]
         /\ \A q \in Requests \ {r} : tx'[q] = tx[q]
BY Nothing DEF Aborted, Inv, TypeInv, dbVars

LEMMA CommitKeeps ==
  ASSUME Inv, NEW r \in Requests, Commit(r)
  PROVE  Inv'
<1> USE DEF dbVars
<1>1. pc[r] = "commit" /\ r \notin orders /\ exception[r] = "none" /\ retries[r] <= MaxRetryCount
  BY DEF Commit, Inv, OrderKnown, WellFormed
<1>2. tx[r].sent <=> ~validationError[r]
  BY <1>1 DEF Inv, OrderKnown
<1>3. pc' \in [Requests -> Labels] /\ pc'[r] = "dispose" /\ \A q \in Requests \ {r} : pc'[q] = pc[q]
  BY GotoType, OtherRequests DEF Commit, Inv, Labels
<1>4. UNCHANGED <<commitFailed, retries, handlerVars>>
  BY DEF Commit
<1>5. WellFormed(r)'
  BY <1>1, <1>3, <1>4 DEF WellFormed
<1>6. stock \in AmountSet /\ orders \subseteq Requests /\ tx \in [Requests -> Transactions]
  BY DEF Inv, TypeInv
\* What is left to show of each of the five outcomes.
<1>7. ASSUME /\ stock' \in AmountSet /\ orders' \subseteq Requests /\ tx' \in [Requests -> Transactions]
             /\ completed' \in [Requests -> BOOLEAN]
             /\ exception' \in [Requests -> {"none", "occ", "other"}]
             /\ faults' \in 0..MaxFaults /\ troubled' \subseteq Requests
             /\ unsure' \in {unsure, unsure \cup {r}},
             \A q \in Requests \ {r} :
               /\ exception'[q] = exception[q] /\ (q \in orders' <=> q \in orders)
               /\ tx[q].open => tx'[q].open /\ tx'[q].sent = tx[q].sent,
             exception'[r] = "none" => (r \in orders' <=> tx[r].sent),
             exception'[r] = "occ" => r \notin orders',
             exception'[r] = "other" /\ r \in orders' => r \in unsure'
      PROVE  Inv'
  <2>1. TypeInv'
    BY <1>3, <1>4, <1>7 DEF Inv, TypeInv, handlerVars
  <2>2. \A q \in Requests \ {r} : Same(q)
    BY <1>3, <1>4, <1>7 DEF Same, handlerVars
  <2>3. answer'[r] = 0 /\ validationError'[r] = validationError[r]
    BY <1>1, <1>4 DEF Inv, OrderKnown, handlerVars
  <2>4. OrderKnown(r)'
    BY <1>2, <1>3, <1>7, <2>3 DEF OrderKnown
  <2>5. QED
    BY <1>5, <2>1, <2>2, <2>4, StepOf
<1>8. exception \in [Requests -> {"none", "occ", "other"}] /\ completed \in [Requests -> BOOLEAN]
  BY DEF Inv, TypeInv
<1>9. faults \in 0..MaxFaults /\ troubled \subseteq Requests
  BY DEF Inv, TypeInv
<1>10. CASE /\ Committed(r)
            /\ completed' = [completed EXCEPT ![r] = TRUE]
            /\ UNCHANGED <<exception, faults, troubled, unsure>>
  <2>1. completed' \in [Requests -> BOOLEAN]
    BY <1>8, <1>10
  <2>2. QED
    BY <1>1, <1>7, <1>8, <1>9, <1>10, <2>1, CommittedIs
<1>11. CASE /\ Conflict(r) /\ Throw(r, "occ") /\ Aborted(r)
            /\ UNCHANGED <<completed, faults, troubled, unsure>>
  <2>1. exception' \in [Requests -> {"none", "occ", "other"}] /\ exception'[r] = "occ"
    BY <1>11, ThrowType DEF Inv
  <2>2. \A q \in Requests \ {r} : exception'[q] = exception[q]
    BY <1>11 DEF Throw
  <2>3. QED
    BY <1>1, <1>6, <1>7, <1>8, <1>9, <1>11, <2>1, <2>2, AbortedIs
<1>12. CASE /\ SchemaChanged(r) /\ Aborted(r)
            /\ UNCHANGED <<completed, unsure>>
  <2>1. /\ exception' \in [Requests -> {"none", "occ", "other"}] /\ exception'[r] = "occ"
        /\ faults' \in 0..MaxFaults /\ troubled' \subseteq Requests
    BY <1>12, ThrowType DEF Inv
  <2>2. \A q \in Requests \ {r} : exception'[q] = exception[q]
    BY <1>12 DEF SchemaChanged, Throw
  <2>3. QED
    BY <1>1, <1>6, <1>7, <1>8, <1>12, <2>1, <2>2, AbortedIs
<1>13. CASE /\ Fault(r) /\ Committed(r) /\ unsure' = unsure \cup {r}
            /\ UNCHANGED completed
  <2>1. /\ exception' \in [Requests -> {"none", "occ", "other"}] /\ exception'[r] = "other"
        /\ faults' \in 0..MaxFaults /\ troubled' \subseteq Requests
    BY <1>13, ThrowType DEF Inv
  <2>2. \A q \in Requests \ {r} : exception'[q] = exception[q]
    BY <1>13 DEF Fault, Throw
  <2>3. QED
    BY <1>1, <1>7, <1>8, <1>13, <2>1, <2>2, CommittedIs
<1>14. CASE Fault(r) /\ UNCHANGED <<dbVars, tx, completed, unsure>>
  <2>1. /\ exception' \in [Requests -> {"none", "occ", "other"}] /\ exception'[r] = "other"
        /\ faults' \in 0..MaxFaults /\ troubled' \subseteq Requests
    BY <1>14, ThrowType DEF Inv
  <2>2. \A q \in Requests \ {r} : exception'[q] = exception[q]
    BY <1>14 DEF Fault, Throw
  <2>3. QED
    BY <1>1, <1>6, <1>7, <1>8, <1>14, <2>1, <2>2
<1>15. QED
  BY <1>10, <1>11, <1>12, <1>13, <1>14 DEF Commit

LEMMA DisposeKeeps ==
  ASSUME Inv, NEW r \in Requests, Dispose(r)
  PROVE  Inv'
<1> USE DEF dbVars, retryVars, handlerVars, historyVars
<1> DEFINE next == IF exception[r] = "none" THEN "respond" ELSE "caught"
<1>1. next \in Labels /\ Goto(r, next)
  BY DEF Dispose, Return, Labels
<1> HIDE DEF next
<1>2. pc' \in [Requests -> Labels] /\ pc'[r] = next /\ \A q \in Requests \ {r} : pc'[q] = pc[q]
  BY <1>1, GotoType, OtherRequests DEF Inv
<1>3. tx' \in [Requests -> Transactions] /\ \A q \in Requests \ {r} : tx'[q] = tx[q]
  BY Nothing DEF Dispose, Inv, TypeInv
<1>4. /\ completed' \in [Requests -> BOOLEAN] /\ retries' \in [Requests -> 0..(MaxRetryCount + 1)]
      /\ retries'[r] <= MaxRetryCount /\ \A q \in Requests \ {r} : retries'[q] = retries[q]
  BY Bounds DEF Dispose, Return, Inv, TypeInv, WellFormed
<1>5. TypeInv'
  BY <1>2, <1>3, <1>4 DEF Dispose, Inv, TypeInv
<1>6. \A q \in Requests \ {r} : Same(q)
  BY <1>2, <1>3, <1>4 DEF Dispose, Same
<1>7. WellFormed(r)'
  BY <1>2, <1>4 DEF WellFormed, next
<1>8. OrderKnown(r)'
  BY <1>2 DEF Dispose, Inv, TypeInv, OrderKnown, next
<1>9. QED
  BY <1>5, <1>6, <1>7, <1>8, StepOf

\* A step that answers, or retries, changes nothing of other requests.
Answered(r) ==
  /\ retries' \in [Requests -> 0..(MaxRetryCount + 1)]
  /\ answer' \in [Requests -> {0, 201, 400, 500}]
  /\ pc' \in [Requests -> Labels]
  /\ \A q \in Requests \ {r} : pc'[q] = pc[q] /\ answer'[q] = answer[q] /\ retries'[q] = retries[q]

LEMMA RespondIs ==
  ASSUME Inv, NEW r \in Requests, NEW status \in {201, 400, 500}, Respond(r, status),
         \/ UNCHANGED retries
         \/ pc[r] # "answered" /\ retries' = [retries EXCEPT ![r] = @ + 1]
  PROVE  Answered(r) /\ pc'[r] = "answered" /\ answer'[r] = status
<1>1. /\ answer' \in [Requests -> {0, 201, 400, 500}] /\ pc' \in [Requests -> Labels]
      /\ answer'[r] = status /\ pc'[r] = "answered"
      /\ \A q \in Requests \ {r} : pc'[q] = pc[q] /\ answer'[q] = answer[q]
  BY RespondType DEF Inv
<1>2. retries' \in [Requests -> 0..(MaxRetryCount + 1)]
  BY Bounds DEF Inv, TypeInv, WellFormed
<1>3. \A q \in Requests \ {r} : retries'[q] = retries[q]
  BY DEF Inv, TypeInv
<1>4. QED
  BY <1>1, <1>2, <1>3 DEF Answered

LEMMA RetryIs ==
  ASSUME Inv, NEW r \in Requests, pc[r] # "answered", Retry(r)
  PROVE  /\ Answered(r)
         /\ \/ pc'[r] = "begin" /\ retries'[r] <= MaxRetryCount /\ answer'[r] = answer[r]
            \/ pc'[r] = "answered" /\ answer'[r] = 500
<1>1. retries' = [retries EXCEPT ![r] = @ + 1]
  BY DEF Retry
<1>2. CASE retries[r] < MaxRetryCount
  <2>1. Goto(r, "begin") /\ UNCHANGED answer
    BY <1>2 DEF Retry
  <2>2. /\ pc' \in [Requests -> Labels] /\ pc'[r] = "begin"
        /\ \A q \in Requests \ {r} : pc'[q] = pc[q]
    BY <2>1, GotoType, OtherRequests DEF Inv, Labels
  <2>3. /\ retries' \in [Requests -> 0..(MaxRetryCount + 1)] /\ retries'[r] <= MaxRetryCount
        /\ \A q \in Requests \ {r} : retries'[q] = retries[q]
    BY <1>1, <1>2, Bounds DEF Inv, TypeInv
  <2>4. QED
    BY <2>1, <2>2, <2>3 DEF Answered, Inv, TypeInv
<1>3. CASE ~(retries[r] < MaxRetryCount)
  <2>1. Respond(r, 500)
    BY <1>3 DEF Retry
  <2>2. Answered(r) /\ pc'[r] = "answered" /\ answer'[r] = 500
    BY <1>1, <2>1, RespondIs
  <2>3. QED
    BY <2>2
<1>4. QED
  BY <1>2, <1>3

LEMMA CatchKeeps ==
  ASSUME Inv, NEW r \in Requests, Catch(r)
  PROVE  Inv'
<1> USE DEF dbVars, historyVars
<1>1. pc[r] = "caught" /\ UNCHANGED <<dbVars, tx, completed, commitFailed, exception, tracked,
                                       validationError, historyVars>>
  BY DEF Catch
<1>2. /\ answer[r] = 0 /\ exception[r] \in {"occ", "other"} /\ retries[r] <= MaxRetryCount
      /\ exception[r] = "occ" => r \notin orders
      /\ exception[r] = "other" /\ r \in orders => r \in unsure
  BY <1>1 DEF Inv, TypeInv, OrderKnown, WellFormed
<1>3. CASE ~ShouldRetryOn(r) /\ Respond(r, 500) /\ UNCHANGED retries
  <2>1. exception[r] = "other"
    BY <1>1, <1>2, <1>3 DEF ShouldRetryOn, InTransaction
  <2>2. Answered(r) /\ pc'[r] = "answered" /\ answer'[r] = 500
    BY <1>3, RespondIs
  <2>3. TypeInv'
    BY <1>1, <2>2 DEF Inv, TypeInv, Answered
  <2>4. \A q \in Requests \ {r} : Same(q)
    BY <1>1, <2>2 DEF Same, Answered
  <2>5. WellFormed(r)' /\ OrderKnown(r)'
    BY <1>1, <1>2, <2>1, <2>2 DEF WellFormed, OrderKnown
  <2>6. QED
    BY <2>3, <2>4, <2>5, StepOf
<1>4. CASE ShouldRetryOn(r) /\ Goto(r, "verify") /\ UNCHANGED <<answer, retries>>
  <2>1. exception[r] = "occ"
    BY <1>4 DEF ShouldRetryOn
  <2>2. /\ pc' \in [Requests -> Labels] /\ pc'[r] = "verify"
        /\ \A q \in Requests \ {r} : pc'[q] = pc[q]
    BY <1>4, GotoType, OtherRequests DEF Inv, Labels
  <2>3. TypeInv'
    BY <1>1, <1>4, <2>2 DEF Inv, TypeInv
  <2>4. \A q \in Requests \ {r} : Same(q)
    BY <1>1, <1>4, <2>2 DEF Same
  <2>5. WellFormed(r)' /\ OrderKnown(r)'
    BY <1>1, <1>2, <1>4, <2>1, <2>2 DEF WellFormed, OrderKnown
  <2>6. QED
    BY <2>3, <2>4, <2>5, StepOf
<1>5. CASE ShouldRetryOn(r) /\ Retry(r)
  <2>1. exception[r] = "occ" /\ r \notin orders
    BY <1>2, <1>5 DEF ShouldRetryOn
  <2>2. /\ Answered(r)
        /\ \/ pc'[r] = "begin" /\ retries'[r] <= MaxRetryCount /\ answer'[r] = answer[r]
           \/ pc'[r] = "answered" /\ answer'[r] = 500
    BY <1>1, <1>5, RetryIs
  <2>3. TypeInv'
    BY <1>1, <2>2 DEF Inv, TypeInv, Answered
  <2>4. \A q \in Requests \ {r} : Same(q)
    BY <1>1, <2>2 DEF Same, Answered
  <2>5. WellFormed(r)' /\ OrderKnown(r)'
    BY <1>1, <1>2, <2>1, <2>2 DEF WellFormed, OrderKnown
  <2>6. QED
    BY <2>3, <2>4, <2>5, StepOf
<1>6. QED
  BY <1>3, <1>4, <1>5 DEF Catch

LEMMA QueryConflictIs ==
  ASSUME Inv, NEW r \in Requests, pc[r] # "answered", QueryConflict(r)
  PROVE  /\ Answered(r)
         /\ \/ pc'[r] = pc[r] /\ retries'[r] <= MaxRetryCount /\ answer'[r] = answer[r]
            \/ pc'[r] = "answered" /\ answer'[r] = 500
         /\ exception' \in [Requests -> {"none", "occ", "other"}]
         /\ \A q \in Requests \ {r} : exception'[q] = exception[q]
         /\ faults' \in 0..MaxFaults /\ troubled' \subseteq Requests
<1>1. SchemaChanged(r) /\ retries' = [retries EXCEPT ![r] = @ + 1]
  BY DEF QueryConflict
<1>2. /\ exception' \in [Requests -> {"none", "occ", "other"}]
      /\ faults' \in 0..MaxFaults /\ troubled' \subseteq Requests
  BY <1>1, ThrowType DEF Inv
<1>3. \A q \in Requests \ {r} : exception'[q] = exception[q]
  BY <1>1 DEF SchemaChanged, Throw
<1>4. CASE retries[r] < MaxRetryCount
  <2>1. UNCHANGED <<pc, answer>>
    BY <1>4 DEF QueryConflict
  <2>2. /\ retries' \in [Requests -> 0..(MaxRetryCount + 1)] /\ retries'[r] <= MaxRetryCount
        /\ \A q \in Requests \ {r} : retries'[q] = retries[q]
    BY <1>1, <1>4, Bounds DEF Inv, TypeInv
  <2>3. QED
    BY <1>2, <1>3, <2>1, <2>2 DEF Answered, Inv, TypeInv
<1>5. CASE ~(retries[r] < MaxRetryCount)
  <2>1. Respond(r, 500)
    BY <1>5 DEF QueryConflict
  <2>2. Answered(r) /\ pc'[r] = "answered" /\ answer'[r] = 500
    BY <1>1, <2>1, RespondIs
  <2>3. QED
    BY <1>2, <1>3, <2>2
<1>6. QED
  BY <1>4, <1>5

LEMMA VerifyKeeps ==
  ASSUME Inv, NEW r \in Requests, Verify(r)
  PROVE  Inv'
<1> USE DEF dbVars
<1>1. /\ pc[r] = "verify" /\ tracked' = [tracked EXCEPT ![r] = Untracked]
      /\ UNCHANGED <<dbVars, tx, completed, commitFailed, validationError, unsure>>
  BY DEF Verify
<1>2. answer[r] = 0 /\ r \notin orders /\ retries[r] <= MaxRetryCount
  BY <1>1 DEF Inv, OrderKnown, WellFormed
<1>3. tracked' \in [Requests -> Trackers] /\ \A q \in Requests \ {r} : tracked'[q] = tracked[q]
  BY <1>1, Nothing DEF Inv, TypeInv
\* It stays, starts over or answers with 500; there is no order.
<1>4. ASSUME Answered(r),
             \/ pc'[r] \in {"verify", "begin"} /\ retries'[r] <= MaxRetryCount /\ answer'[r] = answer[r]
             \/ pc'[r] = "answered" /\ answer'[r] = 500,
             exception' \in [Requests -> {"none", "occ", "other"}],
             \A q \in Requests \ {r} : exception'[q] = exception[q],
             faults' \in 0..MaxFaults /\ troubled' \subseteq Requests
      PROVE  Inv'
  <2>1. TypeInv'
    BY <1>1, <1>3, <1>4 DEF Inv, TypeInv, Answered
  <2>2. \A q \in Requests \ {r} : Same(q)
    BY <1>1, <1>3, <1>4 DEF Same, Answered
  <2>3. WellFormed(r)' /\ OrderKnown(r)'
    BY <1>1, <1>2, <1>4 DEF WellFormed, OrderKnown
  <2>4. QED
    BY <2>1, <2>2, <2>3, StepOf
<1>5. CASE Retry(r) /\ UNCHANGED <<exception, faults, troubled>>
  <2>1. /\ Answered(r)
        /\ \/ pc'[r] = "begin" /\ retries'[r] <= MaxRetryCount /\ answer'[r] = answer[r]
           \/ pc'[r] = "answered" /\ answer'[r] = 500
    BY <1>1, <1>5, RetryIs
  <2>2. QED
    BY <1>4, <1>5, <2>1 DEF Inv, TypeInv
<1>6. CASE QueryConflict(r)
  <2>1. /\ Answered(r)
        /\ \/ pc'[r] = pc[r] /\ retries'[r] <= MaxRetryCount /\ answer'[r] = answer[r]
           \/ pc'[r] = "answered" /\ answer'[r] = 500
        /\ exception' \in [Requests -> {"none", "occ", "other"}]
        /\ \A q \in Requests \ {r} : exception'[q] = exception[q]
        /\ faults' \in 0..MaxFaults /\ troubled' \subseteq Requests
    BY <1>1, <1>6, QueryConflictIs
  <2>2. QED
    BY <1>1, <1>4, <2>1
<1>7. CASE Fault(r) /\ Respond(r, 500) /\ UNCHANGED retries
  <2>1. /\ exception' \in [Requests -> {"none", "occ", "other"}]
        /\ faults' \in 0..MaxFaults /\ troubled' \subseteq Requests
    BY <1>7, ThrowType DEF Inv
  <2>2. \A q \in Requests \ {r} : exception'[q] = exception[q]
    BY <1>7 DEF Fault, Throw
  <2>3. Answered(r) /\ pc'[r] = "answered" /\ answer'[r] = 500
    BY <1>7, RespondIs
  <2>4. QED
    BY <1>4, <2>1, <2>2, <2>3
<1>8. QED
  BY <1>2, <1>5, <1>6, <1>7 DEF Verify

LEMMA ResultKeeps ==
  ASSUME Inv, NEW r \in Requests, Result(r)
  PROVE  Inv'
<1> USE DEF dbVars
<1>1. pc[r] = "respond" /\ UNCHANGED <<dbVars, tx, completed, commitFailed, tracked, validationError>>
  BY DEF Result
<1>2. /\ r \in orders <=> ~validationError[r]
      /\ answer[r] = 0
  BY <1>1 DEF Inv, OrderKnown
\* It stays, or the status is true of the order.
<1>3. ASSUME Answered(r),
             \/ pc'[r] = "respond" /\ retries'[r] <= MaxRetryCount /\ answer'[r] = answer[r]
             \/ /\ pc'[r] = "answered"
                /\ \/ answer'[r] = 201 /\ r \in orders
                   \/ answer'[r] = 400 /\ r \notin orders
                   \/ answer'[r] = 500 /\ (r \in orders => r \in unsure'),
             exception' \in [Requests -> {"none", "occ", "other"}],
             \A q \in Requests \ {r} : exception'[q] = exception[q],
             faults' \in 0..MaxFaults /\ troubled' \subseteq Requests,
             unsure' \in {unsure, unsure \cup {r}}
      PROVE  Inv'
  <2>1. TypeInv'
    BY <1>1, <1>3 DEF Inv, TypeInv, Answered
  <2>2. \A q \in Requests \ {r} : Same(q)
    BY <1>1, <1>3 DEF Same, Answered
  <2>3. WellFormed(r)' /\ OrderKnown(r)'
    BY <1>1, <1>2, <1>3 DEF WellFormed, OrderKnown
  <2>4. QED
    BY <2>1, <2>2, <2>3, StepOf
<1>4. CASE /\ Respond(r, IF validationError[r] THEN 400 ELSE IF r \in orders THEN 201 ELSE 500)
           /\ UNCHANGED <<exception, retries, faults, troubled, unsure>>
  <2> DEFINE status == IF validationError[r] THEN 400 ELSE 201
  <2>1. Respond(r, status) /\ status \in {201, 400, 500}
    BY <1>2, <1>4
  <2> HIDE DEF status
  <2>2. Answered(r) /\ pc'[r] = "answered" /\ answer'[r] = status
    BY <1>4, <2>1, RespondIs
  <2>3. \/ answer'[r] = 201 /\ r \in orders
        \/ answer'[r] = 400 /\ r \notin orders
    BY <1>2, <2>2 DEF status
  <2>4. exception \in [Requests -> {"none", "occ", "other"}] /\ faults \in 0..MaxFaults
        /\ troubled \subseteq Requests
    BY DEF Inv, TypeInv
  <2>5. QED
    BY <1>3, <1>4, <2>2, <2>3, <2>4
<1>5. CASE unsure' = unsure \cup {r} /\ QueryConflict(r)
  <2>1. /\ Answered(r)
        /\ \/ pc'[r] = pc[r] /\ retries'[r] <= MaxRetryCount /\ answer'[r] = answer[r]
           \/ pc'[r] = "answered" /\ answer'[r] = 500
        /\ exception' \in [Requests -> {"none", "occ", "other"}]
        /\ \A q \in Requests \ {r} : exception'[q] = exception[q]
        /\ faults' \in 0..MaxFaults /\ troubled' \subseteq Requests
    BY <1>1, <1>5, QueryConflictIs
  <2>2. QED
    BY <1>1, <1>3, <1>5, <2>1
<1>6. CASE unsure' = unsure \cup {r} /\ Fault(r) /\ Respond(r, 500) /\ UNCHANGED retries
  <2>1. /\ exception' \in [Requests -> {"none", "occ", "other"}]
        /\ faults' \in 0..MaxFaults /\ troubled' \subseteq Requests
    BY <1>6, ThrowType DEF Inv
  <2>2. \A q \in Requests \ {r} : exception'[q] = exception[q]
    BY <1>6 DEF Fault, Throw
  <2>3. Answered(r) /\ pc'[r] = "answered" /\ answer'[r] = 500
    BY <1>6, RespondIs
  <2>4. QED
    BY <1>3, <1>6, <2>1, <2>2, <2>3
<1>7. QED
  BY <1>4, <1>5, <1>6 DEF Result

-----------------------------------------------------------------------------
(* Theorems.                                                               *)

LEMMA InitInv == Init => Inv
<1> SUFFICES ASSUME Init PROVE Inv
  OBVIOUS
<1>1. stock \in AmountSet
  <2>1. stock \in [AtStart -> Int] /\ AtStart \in SUBSET Products
    BY TransactionsAssumption DEF Init
  <2>2. QED
    BY <2>1, InAmountSet
<1>2. TypeInv
  BY <1>1, Nothing, Bounds DEF Init, TypeInv, Labels
<1>3. ASSUME NEW r \in Requests
      PROVE  WellFormed(r) /\ OrderKnown(r)
  BY Bounds DEF Init, WellFormed, OrderKnown
<1>4. QED
  BY <1>2, <1>3 DEF Inv

LEMMA StepInv == Inv /\ [Next]_vars => Inv'
<1> SUFFICES ASSUME Inv, [Next]_vars PROVE Inv'
  OBVIOUS
<1>1. ASSUME NEW p \in Products, CreateProduct(p)
      PROVE  Inv'
  <2>1. TypeInv' /\ FormInv'
    BY <1>1, CreateTypes DEF Inv, FormInv
  <2>2. \A r \in Requests : OrderKnown(r)'
    BY <1>1 DEF Inv, OrderKnown, CreateProduct, retryVars, handlerVars, historyVars
  <2>3. QED
    BY <2>1, <2>2 DEF Inv, FormInv
<1>2. ASSUME NEW r \in Requests, OnFirstExecution(r) \/ Handle(r)
      PROVE  Inv'
  BY <1>2, FirstExecutionKeeps, BeginKeeps, OperationKeeps, CommitKeeps, DisposeKeeps, CatchKeeps,
     VerifyKeeps, ResultKeeps DEF Handle
<1>3. CASE UNCHANGED vars
  <2>1. TypeInv'
    BY <1>3 DEF Inv, TypeInv, vars, dbVars, retryVars, handlerVars, historyVars
  <2>2. \A r \in Requests : Same(r)
    BY <1>3 DEF Same, vars, dbVars, retryVars, handlerVars, historyVars
  <2>3. QED
    BY <2>1, <2>2, SameKeeps DEF Inv
<1>4. QED
  BY <1>1, <1>2, <1>3 DEF Next

LEMMA AlwaysInv == Spec => []Inv
BY InitInv, StepInv, PTL DEF Spec

\* The types of the variables: what is found, lowered and written back are
\* amounts of known products, and the exceptions counted never exceed the
\* retries by more than the last.
THEOREM TypeCorrect == Spec => []TypeOK
<1>1. Inv => TypeOK
  BY TypeInvIsEnough DEF Inv
<1>2. QED
  BY <1>1, AlwaysInv, PTL

\* For any number of requests, products, retries and failures, and whatever was
\* tried before: a 201 is an order that was committed, a 400 one that was not,
\* and so is a 500 unless an answer was lost after COMMIT was sent.
THEOREM AnswersAreTrue == Spec => []AnswerTellsOrder
<1>1. Inv => AnswerTellsOrder
  BY DEF Inv, OrderKnown, AnswerTellsOrder
<1>2. QED
  BY <1>1, AlwaysInv, PTL

-----------------------------------------------------------------------------
(* Sold adds up quantities in the order in which CHOOSE picks the          *)
(* requests. What is needed of it is that a request more adds its quantity.*)

PickOne(s) == CHOOSE r \in s : TRUE
Rest(s)    == s \ {PickOne(s)}

\* g is the recursive function over the subsets of S that Sold(p, S) is the
\* value of.
IsSum(g, p, S) ==
  g = [s \in SUBSET S |-> IF s = {} THEN 0 ELSE Items[PickOne(s)][p].quantity + g[Rest(s)]]

SumOver(p, S) == CHOOSE g : IsSum(g, p, S)

LEMMA SoldIs ==
  ASSUME NEW p, NEW S
  PROVE  Sold(p, S) = SumOver(p, S)[S]
BY DEF Sold, MapThenSumSet, MapThenFoldSet, SumOver, IsSum, PickOne, Rest

LEMMA RestIsLess ==
  ASSUME NEW s, s # {}
  PROVE  PickOne(s) \in s /\ Rest(s) \subseteq s /\ Rest(s) # s /\ s = Rest(s) \cup {PickOne(s)}
BY DEF PickOne, Rest

\* Induction over the subsets of a finite set, as a counterexample that is
\* minimal.
LEMMA MinimalSubset ==
  ASSUME NEW S, IsFiniteSet(S), NEW Bad, Bad \subseteq SUBSET S, Bad # {}
  PROVE  \E x \in Bad : \A y \in SUBSET x : y # x => y \notin Bad
<1> DEFINE Less == StrictSubsetOrdering(S)
           Subsets == FiniteSubsetsOf(S)
<1>1. Bad \subseteq Subsets
  BY FS_Subset DEF FiniteSubsetsOf
<1>2. IsWellFoundedOn(Less, Subsets)
  BY FS_StrictSubsetOrderingWellFounded
<1>3. \A x \in Subsets : \A y \in SUBSET x : y # x => <<y, x>> \in Less
  BY DEF FiniteSubsetsOf, StrictSubsetOrdering
<1> HIDE DEF Less, Subsets
<1>4. PICK x \in Bad : \A y \in Bad : ~(<<y, x>> \in Less)
  BY <1>1, <1>2, WFMin, Zenon
<1>5. QED
  BY <1>1, <1>3, <1>4

\* Two of these functions agree where both are defined.
LEMMA SumsAgree ==
  ASSUME NEW p, NEW S, NEW T, IsFiniteSet(S), NEW g, NEW h, IsSum(g, p, S), IsSum(h, p, T),
         NEW s, s \subseteq S, s \subseteq T
  PROVE  g[s] = h[s]
<1> DEFINE Bad == {x \in SUBSET S : x \subseteq T /\ g[x] # h[x]}
<1> SUFFICES ASSUME Bad # {} PROVE FALSE
  OBVIOUS
<1>0. Bad \subseteq SUBSET S
  OBVIOUS
<1>1. PICK x \in Bad : \A y \in SUBSET x : y # x => y \notin Bad
  <2> HIDE DEF Bad
  <2>1. QED
    BY <1>0, MinimalSubset
<1>2. /\ g[x] = IF x = {} THEN 0 ELSE Items[PickOne(x)][p].quantity + g[Rest(x)]
      /\ h[x] = IF x = {} THEN 0 ELSE Items[PickOne(x)][p].quantity + h[Rest(x)]
  BY <1>1 DEF IsSum
<1>3. x # {}
  BY <1>1, <1>2
<1>4. Rest(x) \in SUBSET x /\ Rest(x) # x
  BY <1>3, RestIsLess
<1>5. g[Rest(x)] = h[Rest(x)]
  BY <1>1, <1>4
<1>6. QED
  BY <1>1, <1>2, <1>3, <1>5

LEMMA SumExists ==
  ASSUME NEW p, NEW S, IsFiniteSet(S)
  PROVE  IsSum(SumOver(p, S), p, S)
<1> DEFINE Bad == {x \in SUBSET S : ~IsSum(SumOver(p, x), p, x)}
<1> SUFFICES ASSUME Bad # {} PROVE FALSE
  OBVIOUS
<1>0. Bad \subseteq SUBSET S
  OBVIOUS
<1>1. PICK x \in Bad : \A y \in SUBSET x : y # x => y \notin Bad
  <2> HIDE DEF Bad
  <2>1. QED
    BY <1>0, MinimalSubset
<1>2. IsFiniteSet(x)
  BY <1>1, FS_Subset
<1>3. \A y \in SUBSET x : y # x => IsSum(SumOver(p, y), p, y)
  BY <1>1
<1> DEFINE f == [s \in SUBSET x |->
                   IF s = {} THEN 0 ELSE Items[PickOne(s)][p].quantity + SumOver(p, Rest(s))[Rest(s)]]
<1>4. ASSUME NEW y \in SUBSET x, y # x
      PROVE  f[y] = SumOver(p, y)[y]
  <2>1. IsSum(SumOver(p, y), p, y)
    BY <1>3, <1>4
  <2>2. SumOver(p, y)[y] =
          IF y = {} THEN 0 ELSE Items[PickOne(y)][p].quantity + SumOver(p, y)[Rest(y)]
    BY <2>1 DEF IsSum
  <2>3. CASE y = {}
    BY <2>2, <2>3
  <2>4. CASE y # {}
    <3>1. Rest(y) \subseteq y /\ Rest(y) # y
      BY <2>4, RestIsLess
    <3>2. IsSum(SumOver(p, Rest(y)), p, Rest(y)) /\ IsFiniteSet(y)
      BY <1>2, <1>3, <1>4, <3>1, FS_Subset
    <3>3. SumOver(p, y)[Rest(y)] = SumOver(p, Rest(y))[Rest(y)]
      BY <2>1, <3>1, <3>2, SumsAgree
    <3>4. QED
      BY <2>2, <2>4, <3>3
  <2>5. QED
    BY <2>3, <2>4
<1>5. ASSUME NEW s \in SUBSET x, s # {}
      PROVE  f[Rest(s)] = SumOver(p, Rest(s))[Rest(s)]
  <2>1. Rest(s) \in SUBSET x /\ Rest(s) # x
    BY <1>5, RestIsLess
  <2>2. QED
    BY <1>4, <2>1
<1>6. f = [s \in SUBSET x |-> IF s = {} THEN 0 ELSE Items[PickOne(s)][p].quantity + f[Rest(s)]]
  BY <1>5
<1>7. IsSum(f, p, x)
  BY <1>6 DEF IsSum
<1>8. IsSum(SumOver(p, x), p, x)
  <2> HIDE DEF f
  <2>1. QED
    BY <1>7, Zenon DEF SumOver
<1>9. QED
  BY <1>1, <1>8

\* So Sold is what the recursion says.
LEMMA SoldRecursion ==
  ASSUME NEW p, NEW S, IsFiniteSet(S)
  PROVE  Sold(p, S) = IF S = {} THEN 0 ELSE Items[PickOne(S)][p].quantity + Sold(p, Rest(S))
<1>1. IsSum(SumOver(p, S), p, S)
  BY SumExists
<1>2. SumOver(p, S)[S] =
        IF S = {} THEN 0 ELSE Items[PickOne(S)][p].quantity + SumOver(p, S)[Rest(S)]
  BY <1>1 DEF IsSum
<1>3. CASE S = {}
  BY <1>2, <1>3, SoldIs
<1>4. CASE S # {}
  <2>1. Rest(S) \subseteq S /\ IsFiniteSet(Rest(S))
    BY <1>4, RestIsLess, FS_Subset
  <2>2. SumOver(p, S)[Rest(S)] = SumOver(p, Rest(S))[Rest(S)]
    BY <1>1, <2>1, SumExists, SumsAgree
  <2>3. QED
    BY <1>2, <1>4, <2>2, SoldIs
<1>5. QED
  BY <1>3, <1>4

LEMMA NothingSold ==
  ASSUME NEW p
  PROVE  Sold(p, {}) = 0
BY SoldRecursion, FS_EmptySet

LEMMA SoldType ==
  ASSUME NEW p, NEW S, IsFiniteSet(S), \A r \in S : Items[r][p].quantity \in Int
  PROVE  Sold(p, S) \in Int
<1> DEFINE Bad == {x \in SUBSET S : Sold(p, x) \notin Int}
<1> SUFFICES ASSUME Bad # {} PROVE FALSE
  OBVIOUS
<1>0. Bad \subseteq SUBSET S
  OBVIOUS
<1>1. PICK x \in Bad : \A y \in SUBSET x : y # x => y \notin Bad
  <2> HIDE DEF Bad
  <2>1. QED
    BY <1>0, MinimalSubset
<1>2. Sold(p, x) = IF x = {} THEN 0 ELSE Items[PickOne(x)][p].quantity + Sold(p, Rest(x))
  BY <1>1, FS_Subset, SoldRecursion
<1>3. x # {}
  BY <1>1, <1>2
<1>4. PickOne(x) \in S /\ Sold(p, Rest(x)) \in Int
  BY <1>1, <1>3, RestIsLess
<1>5. QED
  BY <1>1, <1>2, <1>3, <1>4

\* One request more buys what it orders, whichever CHOOSE would pick first.
LEMMA SoldToOneMore ==
  ASSUME NEW p, NEW S, IsFiniteSet(S), \A r \in S : Items[r][p].quantity \in Int,
         NEW r, r \notin S, Items[r][p].quantity \in Int
  PROVE  Sold(p, S \cup {r}) = Sold(p, S) + Items[r][p].quantity
<1> DEFINE All == S \cup {r}
           Bad == {x \in SUBSET All : \E q \in All : q \notin x /\ x \cup {q} \subseteq All /\
                                        Sold(p, x \cup {q}) # Sold(p, x) + Items[q][p].quantity}
<1>1. IsFiniteSet(All)
  BY FS_AddElement
<1>2. \A x \in SUBSET All : IsFiniteSet(x) /\ Sold(p, x) \in Int
  BY <1>1, FS_Subset, SoldType
<1>3. Bad = {}
  <2> SUFFICES ASSUME Bad # {} PROVE FALSE
    OBVIOUS
  <2>0. Bad \subseteq SUBSET All
    OBVIOUS
  <2>1. PICK x \in Bad : \A y \in SUBSET x : y # x => y \notin Bad
    <3> HIDE DEF Bad, All
    <3>1. QED
      BY <1>1, <2>0, MinimalSubset
  <2>2. PICK q \in All : q \notin x /\ Sold(p, x \cup {q}) # Sold(p, x) + Items[q][p].quantity
    BY <2>1
  <2> DEFINE more == x \cup {q}
             first == PickOne(more)
  <2>3. more \in SUBSET All /\ x \in SUBSET All /\ first \in more /\ more # {}
    BY <2>1, <2>2, RestIsLess
  <2>4. Sold(p, more) = Items[first][p].quantity + Sold(p, Rest(more))
    BY <1>2, <2>3, SoldRecursion
  <2>5. Items[first][p].quantity \in Int /\ Items[q][p].quantity \in Int /\ Sold(p, x) \in Int
    BY <1>2, <2>2, <2>3
  <2>6. CASE first = q
    <3>1. Rest(more) = x
      BY <2>2, <2>6 DEF Rest
    <3>2. QED
      BY <2>2, <2>4, <2>5, <2>6, <3>1
  <2>7. CASE first # q
    <3> DEFINE y == x \ {first}
    <3>1. first \in x /\ y \in SUBSET x /\ y # x /\ y \notin Bad
      BY <2>1, <2>3, <2>7
    <3>2. Rest(more) = y \cup {q} /\ q \notin y /\ first \notin y /\ x = y \cup {first}
      BY <2>2, <2>7, <3>1 DEF Rest
    <3>3. Sold(p, y \cup {q}) = Sold(p, y) + Items[q][p].quantity
      BY <2>2, <2>3, <3>1, <3>2
    <3>4. Sold(p, y \cup {first}) = Sold(p, y) + Items[first][p].quantity
      BY <2>3, <3>1, <3>2
    <3>5. Sold(p, y) \in Int
      BY <1>2, <2>3, <3>1
    <3> HIDE DEF more, first, y
    <3>6. Sold(p, Rest(more)) = Sold(p, y) + Items[q][p].quantity
      BY <3>2, <3>3
    <3>7. Sold(p, x) = Sold(p, y) + Items[first][p].quantity
      BY <3>2, <3>4
    <3>8. Sold(p, more) = Sold(p, x) + Items[q][p].quantity
      BY <2>4, <2>5, <3>5, <3>6, <3>7
    <3>9. QED
      BY <2>2, <3>8 DEF more
  <2>8. QED
    BY <2>6, <2>7
<1>4. S \in SUBSET All /\ r \in All /\ r \notin S /\ S \cup {r} \subseteq All
  OBVIOUS
<1>5. QED
  BY <1>3, <1>4

-----------------------------------------------------------------------------
(* The inductive invariant.                                                *)

Buyers(p) == {r \in orders : p \in DOMAIN Items[r]}

\* A transaction reads a snapshot, which is what the stock still is, except for
\* the products that others have changed since, by an order.
Current(r) ==
  /\ DOMAIN tx[r].snapshot \subseteq DOMAIN stock
  /\ \A p \in DOMAIN tx[r].snapshot \ tx[r].overtaken : tx[r].snapshot[p] = stock[p]
  /\ \A p \in tx[r].overtaken : Buyers(p) # {}

\* What SaveChanges sent is the snapshot lowered by the order, once: whatever
\* the last attempt left in memory is not in it.
Lowered(r) ==
  \A p \in DOMAIN Items[r] :
    /\ p \in DOMAIN tx[r].snapshot
    /\ tx[r].snapshot[p] >= Items[r][p].most
    /\ tracked[r].products[p] = tx[r].snapshot[p] - Items[r][p].quantity

Accounted(p) ==
  /\ Buyers(p) # {} => stock[p] >= 0
  /\ stock[p] + Sold(p, Buyers(p)) = StockOf[p]

StockInv ==
  /\ IsFiniteSet(orders)
  /\ \A r \in orders : DOMAIN Items[r] \subseteq DOMAIN stock
  /\ \A r \in Requests : tx[r].open => Current(r)
  /\ \A r \in Requests : pc[r] = "commit" /\ tx[r].sent => Lowered(r)
  /\ \A p \in DOMAIN stock : Accounted(p)

\* A step of one request that leaves the database alone.
LEMMA OwnStep ==
  ASSUME StockInv, UNCHANGED dbVars, NEW r \in Requests,
         \A q \in Requests \ {r} : tx'[q] = tx[q] /\ tracked'[q] = tracked[q] /\ pc'[q] = pc[q],
         tx'[r].open => Current(r)', pc'[r] = "commit" /\ tx'[r].sent => Lowered(r)'
  PROVE  StockInv'
<1>1. stock' = stock /\ orders' = orders
  BY DEF dbVars
<1>2. ASSUME NEW q \in Requests
      PROVE  /\ tx'[q].open => Current(q)'
             /\ pc'[q] = "commit" /\ tx'[q].sent => Lowered(q)'
  <2>1. CASE q = r
    BY <2>1
  <2>2. CASE q # r
    BY <1>1, <2>2 DEF StockInv, Current, Lowered, Buyers
  <2>3. QED
    BY <2>1, <2>2
<1>3. \A p \in DOMAIN stock' : Accounted(p)'
  BY <1>1 DEF StockInv, Accounted, Buyers
<1>4. QED
  BY <1>1, <1>2, <1>3 DEF StockInv

\* A new product has been bought by nobody.
LEMMA CreateAccounts ==
  ASSUME Inv, StockInv, NEW p \in Products, CreateProduct(p)
  PROVE  StockInv'
<1>1. /\ p \notin DOMAIN stock
      /\ stock' = [q \in DOMAIN stock \cup {p} |-> IF q = p THEN StockOf[p] ELSE stock[q]]
      /\ orders' = orders /\ tx' = tx /\ pc' = pc /\ tracked' = tracked
  BY DEF CreateProduct, handlerVars
<1>2. /\ DOMAIN stock' = DOMAIN stock \cup {p} /\ stock'[p] = StockOf[p]
      /\ \A q \in DOMAIN stock : stock'[q] = stock[q]
  BY <1>1
<1>3. ASSUME NEW r \in Requests, tx[r].open
      PROVE  Current(r)'
  BY <1>1, <1>2, <1>3 DEF StockInv, Current, Buyers
<1>4. \A r \in Requests : pc'[r] = "commit" /\ tx'[r].sent => Lowered(r)'
  BY <1>1 DEF StockInv, Lowered
<1>5. ASSUME NEW q \in DOMAIN stock PROVE Accounted(q)'
  BY <1>1, <1>2 DEF StockInv, Accounted, Buyers
<1>6. Accounted(p)'
  <2>1. Buyers(p)' = {}
    BY <1>1 DEF StockInv, Buyers
  <2>2. StockOf[p] \in Int
    BY TransactionsAssumption
  <2>3. Sold(p, {}) = 0
    BY NothingSold
  <2>4. QED
    BY <1>2, <2>1, <2>2, <2>3 DEF Accounted
<1>7. QED
  BY <1>1, <1>2, <1>3, <1>4, <1>5, <1>6 DEF StockInv

\* COMMIT takes effect: no product that the order changes was changed since the
\* snapshot, so what is written is the stock lowered by the order; one that it
\* leaves as it is was ordered since, or is still what the order was checked by.
LEMMA CommittedAccounts ==
  ASSUME Inv, StockInv, NEW r \in Requests, pc[r] = "commit", Committed(r),
         UNCHANGED tracked, pc'[r] = "dispose", \A q \in Requests \ {r} : pc'[q] = pc[q]
  PROVE  StockInv'
<1> DEFINE changed == Changed(r)
           bought  == tracked[r].products
<1>1. /\ stock' = [p \in DOMAIN stock |-> IF p \in changed THEN bought[p] ELSE stock[p]]
      /\ orders' = IF tx[r].sent THEN orders \cup {r} ELSE orders
      /\ tx' = [q \in Requests |->
                  IF q = r \/ ~tx[q].open THEN NoTransaction
                  ELSE [tx[q] EXCEPT !.overtaken = @ \cup changed]]
      /\ changed \cap tx[r].overtaken = {}
  BY DEF Committed, Conflict
<1>2. r \notin orders /\ orders \subseteq Requests /\ tx[r].open /\ Current(r)
  BY DEF Inv, TypeInv, OrderKnown, WellFormed, StockInv
<1>3. /\ changed \subseteq DOMAIN Items[r] /\ \A p \in changed : tx[r].sent
      /\ tx[r].sent => \A p \in DOMAIN Items[r] \ changed : Items[r][p].quantity = 0
  BY ChangedIs
<1>4. tx[r].sent => Lowered(r)
  BY DEF StockInv
<1>5. Amounts(stock)
  BY AmountSetIs DEF Inv, TypeInv
<1>6. \A p \in DOMAIN stock : stock[p] \in Int
  BY <1>5 DEF Amounts
<1> HIDE DEF changed, bought
<1>7. ASSUME NEW p \in DOMAIN Items[r], tx[r].sent
      PROVE  /\ p \in DOMAIN stock
             /\ Items[r][p].quantity \in Int
             /\ p \in changed => bought[p] = stock[p] - Items[r][p].quantity
             /\ stock[p] - Items[r][p].quantity >= 0
  <2>1. /\ p \in DOMAIN tx[r].snapshot /\ tx[r].snapshot[p] >= Items[r][p].most
        /\ bought[p] = tx[r].snapshot[p] - Items[r][p].quantity
    BY <1>4, <1>7 DEF Lowered, bought
  <2>2. /\ Items[r][p].quantity \in Int /\ Items[r][p].most \in Int
        /\ Items[r][p].most >= Items[r][p].quantity
    BY <1>7, ItemsAre
  <2>3. p \in DOMAIN stock
    BY <1>2, <2>1 DEF Current
  <2>4. CASE p \in tx[r].overtaken
    <3>1. p \notin changed /\ Items[r][p].quantity = 0
      BY <1>1, <1>3, <1>7, <2>4
    <3>2. stock[p] >= 0
      BY <1>2, <2>3, <2>4 DEF Current, StockInv, Accounted
    <3>3. QED
      BY <1>6, <2>2, <2>3, <3>1, <3>2
  <2>5. CASE p \notin tx[r].overtaken
    <3>1. tx[r].snapshot[p] = stock[p]
      BY <1>2, <2>1, <2>5 DEF Current
    <3>2. stock[p] >= Items[r][p].most /\ bought[p] = stock[p] - Items[r][p].quantity
      BY <2>1, <3>1
    <3>3. QED
      BY <1>6, <2>2, <2>3, <3>2
  <2>6. QED
    BY <2>4, <2>5
<1>8. DOMAIN stock' = DOMAIN stock
  BY <1>1
<1>9. ASSUME NEW p \in DOMAIN stock
      PROVE  stock'[p] = IF p \in changed THEN stock[p] - Items[r][p].quantity ELSE stock[p]
  BY <1>1, <1>3, <1>7
<1>10. IsFiniteSet(orders')
  BY <1>1, FS_AddElement DEF StockInv
<1>11. \A q \in orders' : DOMAIN Items[q] \subseteq DOMAIN stock'
  BY <1>1, <1>7, <1>8 DEF StockInv
<1>12. /\ \A p : Buyers(p) # {} => Buyers(p)' # {}
       /\ \A p \in changed : Buyers(p)' # {}
  BY <1>1, <1>3 DEF Buyers
<1>13. ASSUME NEW q \in Requests
       PROVE  /\ tx'[q].open => Current(q)'
              /\ pc'[q] = "commit" /\ tx'[q].sent => Lowered(q)'
  <2>1. tx[q] \in Transactions
    BY DEF Inv, TypeInv
  <2>2. CASE q = r \/ ~tx[q].open
    <3>1. tx'[q] = NoTransaction
      BY <1>1, <2>2
    <3>2. QED
      BY <3>1 DEF NoTransaction
  <2>3. CASE q # r /\ tx[q].open
    <3>1. tx'[q] = [tx[q] EXCEPT !.overtaken = @ \cup changed]
      BY <1>1, <2>3
    <3>2. /\ tx'[q].snapshot = tx[q].snapshot /\ tx'[q].sent = tx[q].sent
          /\ tx'[q].overtaken = tx[q].overtaken \cup changed
      BY <2>1, <3>1 DEF Transactions
    <3>3. /\ DOMAIN tx[q].snapshot \subseteq DOMAIN stock
          /\ \A p \in DOMAIN tx[q].snapshot \ tx[q].overtaken : tx[q].snapshot[p] = stock[p]
          /\ \A p \in tx[q].overtaken : Buyers(p) # {}
      BY <2>3 DEF StockInv, Current
    <3>4. DOMAIN tx'[q].snapshot \subseteq DOMAIN stock'
      BY <1>8, <3>2, <3>3
    <3>5. ASSUME NEW p \in DOMAIN tx'[q].snapshot \ tx'[q].overtaken
          PROVE  tx'[q].snapshot[p] = stock'[p]
      BY <1>9, <3>2, <3>3, <3>5
    <3>6. \A p \in tx'[q].overtaken : Buyers(p)' # {}
      BY <1>12, <3>2, <3>3
    <3>7. pc[q] = "commit" /\ tx[q].sent => Lowered(q)
      BY DEF StockInv
    <3>8. pc'[q] = "commit" /\ tx'[q].sent => Lowered(q)'
      BY <2>3, <3>2, <3>7 DEF Lowered
    <3>9. QED
      BY <3>4, <3>5, <3>6, <3>8 DEF Current
  <2>4. QED
    BY <2>2, <2>3
<1>14. ASSUME NEW p \in DOMAIN stock PROVE Accounted(p)'
  <2>1. Accounted(p) /\ stock[p] \in Int
    BY <1>6 DEF StockInv
  <2>2. IsFiniteSet(Buyers(p)) /\ r \notin Buyers(p)
    BY <1>2, FS_Subset DEF StockInv, Buyers
  <2>3. \A q \in Buyers(p) : Items[q][p].quantity \in Int
    BY <1>2, ItemsAre DEF Buyers
  <2>4. Sold(p, Buyers(p)) \in Int
    BY <2>2, <2>3, SoldType
  <2>5. CASE tx[r].sent /\ p \in DOMAIN Items[r]
    <3>1. Buyers(p)' = Buyers(p) \cup {r}
      BY <1>1, <2>5 DEF Buyers
    <3>2. Items[r][p].quantity \in Int /\ stock[p] - Items[r][p].quantity >= 0
      BY <1>7, <2>5
    <3>3. Sold(p, Buyers(p) \cup {r}) = Sold(p, Buyers(p)) + Items[r][p].quantity
      BY <2>2, <2>3, <3>2, SoldToOneMore
    <3>4. stock'[p] = stock[p] - Items[r][p].quantity
      BY <1>3, <1>9, <2>1, <2>5, <3>2
    <3>5. stock[p] + Sold(p, Buyers(p)) = StockOf[p]
      BY <2>1 DEF Accounted
    <3>6. stock'[p] >= 0 /\ stock'[p] + Sold(p, Buyers(p) \cup {r}) = StockOf[p]
      BY <2>1, <2>4, <3>2, <3>3, <3>4, <3>5
    <3>7. QED
      BY <3>1, <3>6 DEF Accounted
  <2>6. CASE ~(tx[r].sent /\ p \in DOMAIN Items[r])
    <3>1. Buyers(p)' = Buyers(p)
      BY <1>1, <2>6 DEF Buyers
    <3>2. stock'[p] = stock[p]
      BY <1>3, <1>9, <2>6
    <3>3. QED
      BY <2>1, <3>1, <3>2 DEF Accounted
  <2>7. QED
    BY <2>5, <2>6
<1>15. QED
  BY <1>8, <1>10, <1>11, <1>13, <1>14 DEF StockInv

\* The operation starts from an empty tracker, so what it finds is the snapshot.
LEMMA OperationAccounts ==
  ASSUME Inv, StockInv, NEW r \in Requests, Operation(r)
  PROVE  StockInv'
<1> DEFINE start  == Started(r)
           found  == Find(r, start.entities)
           valid  == Valid(r, found)
           placed == IF valid THEN Placed(r, found) ELSE start.entities
           snap   == tx[r].snapshot
<1>1. tx[r] \in Transactions /\ tx[r].open /\ Current(r)
  BY DEF Operation, Inv, TypeInv, WellFormed, StockInv
<1>2. tx \in [Requests -> Transactions] /\ tracked \in [Requests -> Trackers]
  BY DEF Inv, TypeInv
<1>3. DOMAIN found = DOMAIN snap /\ \A p \in DOMAIN snap : found[p] = snap[p]
  BY DEF Find, Started, Untracked, NoStock
<1>4. valid => \A p \in DOMAIN Items[r] :
                 /\ p \in DOMAIN snap /\ snap[p] >= Items[r][p].most
                 /\ placed.products[p] = snap[p] - Items[r][p].quantity
  BY <1>3 DEF Valid, Placed
<1>5. \/ /\ tx' = [tx EXCEPT ![r].sent = valid]
         /\ tracked' = [tracked EXCEPT ![r] = placed]
         /\ Goto(r, "commit")
      \/ /\ \E entities \in {start.entities, placed} : tracked' = [tracked EXCEPT ![r] = entities]
         /\ Goto(r, "dispose")
         /\ UNCHANGED tx
  BY Zenon DEF Operation
<1>6. valid \in BOOLEAN /\ UNCHANGED dbVars
  BY DEF Valid, Operation
<1>7. snap = tx[r].snapshot
  OBVIOUS
<1> HIDE DEF start, found, valid, placed, snap
<1>8. CASE /\ tx' = [tx EXCEPT ![r].sent = valid]
           /\ tracked' = [tracked EXCEPT ![r] = placed]
           /\ Goto(r, "commit")
  <2>1. \A q \in Requests \ {r} : tx'[q] = tx[q] /\ tracked'[q] = tracked[q] /\ pc'[q] = pc[q]
    BY <1>8, OtherRequests DEF Inv
  <2>2. /\ tx'[r].snapshot = snap /\ tx'[r].overtaken = tx[r].overtaken /\ tx'[r].sent = valid
        /\ tracked'[r] = placed
    BY <1>1, <1>2, <1>7, <1>8 DEF Transactions
  <2>3. Current(r)'
    BY <1>1, <1>6, <1>7, <2>2 DEF Current, Buyers, dbVars
  <2>4. tx'[r].sent => Lowered(r)'
    BY <1>4, <2>2 DEF Lowered
  <2>5. QED
    BY <1>6, <2>1, <2>3, <2>4, OwnStep
<1>9. CASE /\ \E entities \in {start.entities, placed} :
                tracked' = [tracked EXCEPT ![r] = entities]
           /\ Goto(r, "dispose")
           /\ UNCHANGED tx
  <2>1. \A q \in Requests \ {r} : tx'[q] = tx[q] /\ tracked'[q] = tracked[q] /\ pc'[q] = pc[q]
    BY <1>9, OtherRequests DEF Inv
  <2>2. pc'[r] = "dispose"
    BY <1>9, OtherRequests DEF Inv
  <2>3. Current(r)'
    BY <1>1, <1>6, <1>9 DEF Current, Buyers, dbVars
  <2>4. QED
    BY <1>6, <2>1, <2>2, <2>3, OwnStep
<1>10. QED
  BY <1>5, <1>8, <1>9

\* BEGIN takes the snapshot.
LEMMA BeginAccounts ==
  ASSUME Inv, StockInv, NEW r \in Requests, BeginDbTransaction(r)
  PROVE  StockInv'
<1>1. UNCHANGED dbVars /\ UNCHANGED tracked
  BY DEF BeginDbTransaction, handlerVars
<1>2. CASE /\ tx' = [tx EXCEPT ![r] = [NoTransaction EXCEPT !.open = TRUE, !.snapshot = stock]]
           /\ Goto(r, "operation")
  <2>1. \A q \in Requests \ {r} : tx'[q] = tx[q] /\ tracked'[q] = tracked[q] /\ pc'[q] = pc[q]
    BY <1>1, <1>2, OtherRequests DEF Inv
  <2>2. tx'[r].snapshot = stock /\ tx'[r].sent = FALSE /\ tx'[r].overtaken = {}
    BY <1>2 DEF Inv, TypeInv, NoTransaction
  <2>3. Current(r)'
    BY <1>1, <2>2 DEF Current, Buyers, dbVars
  <2>4. QED
    BY <1>1, <2>1, <2>2, <2>3, OwnStep
<1>3. CASE Goto(r, "caught") /\ UNCHANGED tx
  <2>1. \A q \in Requests \ {r} : tx'[q] = tx[q] /\ tracked'[q] = tracked[q] /\ pc'[q] = pc[q]
    BY <1>1, <1>3, OtherRequests DEF Inv
  <2>2. pc'[r] = "caught"
    BY <1>3, OtherRequests DEF Inv
  <2>3. tx'[r].open => Current(r)'
    BY <1>1, <1>3 DEF StockInv, Current, Buyers, dbVars
  <2>4. QED
    BY <1>1, <2>1, <2>2, <2>3, OwnStep
<1>4. QED
  BY <1>2, <1>3 DEF BeginDbTransaction

\* ROLLBACK, or the server's abort, forgets the transaction.
LEMMA ForgottenAccounts ==
  ASSUME Inv, StockInv, NEW r \in Requests, UNCHANGED dbVars, UNCHANGED tracked,
         NEW label, label # "commit", Goto(r, label),
         UNCHANGED tx \/ tx' = [tx EXCEPT ![r] = NoTransaction]
  PROVE  StockInv'
<1>1. pc'[r] = label /\ \A q \in Requests \ {r} : pc'[q] = pc[q]
  BY OtherRequests DEF Inv
<1>2. /\ \A q \in Requests \ {r} : tx'[q] = tx[q] /\ tracked'[q] = tracked[q]
      /\ tx'[r] = tx[r] \/ tx'[r] = NoTransaction
  BY DEF Inv, TypeInv
<1>3. tx'[r].open => Current(r)'
  <2>1. CASE tx'[r] = tx[r]
    BY <2>1 DEF StockInv, Current, Buyers, dbVars
  <2>2. CASE tx'[r] = NoTransaction
    BY <2>2 DEF NoTransaction
  <2>3. QED
    BY <1>2, <2>1, <2>2
<1>4. QED
  BY <1>1, <1>2, <1>3, OwnStep

LEMMA CommitAccounts ==
  ASSUME Inv, StockInv, NEW r \in Requests, Commit(r)
  PROVE  StockInv'
<1>1. pc[r] = "commit" /\ Goto(r, "dispose") /\ UNCHANGED tracked
  BY DEF Commit, handlerVars
<1>2. CASE Committed(r)
  BY <1>1, <1>2, OtherRequests, CommittedAccounts DEF Inv
<1>3. CASE Aborted(r) \/ UNCHANGED <<dbVars, tx>>
  BY <1>1, <1>3, ForgottenAccounts DEF Aborted
<1>4. QED
  BY <1>2, <1>3 DEF Commit

\* The strategy's own steps leave the server alone.
LEMMA StrategyAccounts ==
  ASSUME Inv, StockInv, NEW r \in Requests,
         OnFirstExecution(r) \/ Catch(r) \/ Verify(r) \/ Result(r)
  PROVE  StockInv'
<1>1. UNCHANGED dbVars /\ UNCHANGED tx
  BY DEF OnFirstExecution, Catch, Verify, Result
<1>2. pc'[r] # "commit" /\ \A q \in Requests \ {r} : pc'[q] = pc[q]
  BY DEF OnFirstExecution, Catch, Verify, Result, QueryConflict, Return, Retry, Respond, Goto, Inv, TypeInv
<1>3. \A q \in Requests \ {r} : tracked'[q] = tracked[q]
  BY DEF OnFirstExecution, Catch, Verify, Result, handlerVars, Inv, TypeInv
<1>4. tx'[r].open => Current(r)'
  BY <1>1 DEF StockInv, Current, Buyers, dbVars
<1>5. QED
  BY <1>1, <1>2, <1>3, <1>4, OwnStep

-----------------------------------------------------------------------------
(* The theorem.                                                            *)

LEMMA InitStock == Init => StockInv
<1> SUFFICES ASSUME Init PROVE StockInv
  OBVIOUS
<1>1. orders = {} /\ DOMAIN stock = AtStart /\ \A p \in AtStart : stock[p] = StockOf[p]
  BY DEF Init
<1>2. \A r \in Requests : ~tx[r].open /\ pc[r] = "idle"
  BY DEF Init, NoTransaction
<1>3. ASSUME NEW p \in AtStart PROVE Accounted(p)
  <2>1. Buyers(p) = {} /\ StockOf[p] \in Int /\ Sold(p, {}) = 0
    BY <1>1, TransactionsAssumption, NothingSold DEF Buyers
  <2>2. QED
    BY <1>1, <2>1 DEF Accounted
<1>4. QED
  BY <1>1, <1>2, <1>3, FS_EmptySet DEF StockInv

LEMMA StepStock == Inv /\ StockInv /\ [Next]_vars => StockInv'
<1> SUFFICES ASSUME Inv, StockInv, [Next]_vars PROVE StockInv'
  OBVIOUS
<1>1. ASSUME NEW p \in Products, CreateProduct(p) PROVE StockInv'
  BY <1>1, CreateAccounts
<1>2. ASSUME NEW r \in Requests, OnFirstExecution(r) \/ Handle(r) PROVE StockInv'
  <2>1. CASE Dispose(r)
    <3>1. UNCHANGED dbVars /\ UNCHANGED tracked
      BY <2>1 DEF Dispose, handlerVars
    <3>2. UNCHANGED tx \/ tx' = [tx EXCEPT ![r] = NoTransaction]
      <4>1. tx \in [Requests -> Transactions]
        BY DEF Inv, TypeInv
      <4>2. CASE completed[r]
        <5>1. tx' = [tx EXCEPT ![r] = tx[r]]
          BY <2>1, <4>2 DEF Dispose
        <5>2. QED
          BY <4>1, <5>1
      <4>3. CASE ~completed[r]
        BY <2>1, <4>3 DEF Dispose
      <4>4. QED
        BY <4>2, <4>3
    <3>3. Goto(r, "respond") \/ Goto(r, "caught")
      BY <2>1 DEF Dispose, Return
    <3>4. QED
      BY <3>1, <3>2, <3>3, ForgottenAccounts
  <2>2. QED
    BY <1>2, <2>1, StrategyAccounts, BeginAccounts, OperationAccounts, CommitAccounts DEF Handle
<1>3. CASE UNCHANGED vars
  <2>1. UNCHANGED <<stock, orders, tx, pc, tracked>>
    BY <1>3 DEF vars, dbVars, handlerVars
  <2>2. \A r \in Requests : (Current(r)' <=> Current(r)) /\ (Lowered(r)' <=> Lowered(r))
    BY <2>1 DEF Current, Buyers, Lowered
  <2>3. \A p : Accounted(p)' <=> Accounted(p)
    BY <2>1 DEF Accounted, Buyers
  <2>4. QED
    BY <2>1, <2>2, <2>3 DEF StockInv
<1>4. QED
  BY <1>1, <1>2, <1>3 DEF Next

\* For any requests, products, retries and failures, and quantities and stock of
\* either sign: what is left of a product and what the orders there are bought of
\* it is what it was created with, and no order leaves less than nothing.
THEOREM StockIsAccountedFor == Spec => []StockAccounted
<1>1. StockInv => StockAccounted
  BY DEF StockInv, Accounted, Buyers, StockAccounted
<1>2. QED
  BY <1>1, InitStock, StepStock, AlwaysInv, PTL DEF Spec
=============================================================================
