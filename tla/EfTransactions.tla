---------------------------- MODULE EfTransactions ----------------------------
(***************************************************************************)
(* Transactions of EF Core on Aurora DSQL: DsqlExecutionStrategy repeats   *)
(* what failed with a conflict, DsqlConnectionWrapper sends BEGIN and      *)
(* DsqlTransactionWrapper COMMIT and ROLLBACK. What is repeated is what    *)
(* the repository gives as the complete example, the /orders handler of    *)
(* InventoryApi, by requests that compete for the stock.                   *)
(***************************************************************************)
EXTENDS Integers, FiniteSets, FiniteSetsExt

CONSTANTS
  Requests,       \* POST /orders
  Products,
  Items,          \* what each orders of its products: the quantity, and the most
                  \* that its items, one after the other, come to on the way
  StockOf,        \* the stock with which a product is created
  AtStart,        \* the products that are there at the start
  MaxRetryCount,
  MaxFaults       \* bound: schema changes met, timeouts, lost connections

ASSUME TransactionsAssumption ==
  /\ AtStart \subseteq Products
  /\ StockOf \in [Products -> Int]
  /\ \A r \in Requests :
       /\ DOMAIN Items[r] \subseteq Products
       /\ \A p \in DOMAIN Items[r] :
            /\ Items[r][p].quantity \in Int /\ Items[r][p].most \in Int
            /\ Items[r][p].most >= Items[r][p].quantity
  /\ MaxRetryCount \in Nat /\ MaxFaults \in Nat

NoStock       == [p \in {} |-> 0]
Untracked     == [products |-> NoStock, order |-> FALSE]
NoTransaction == [open |-> FALSE, snapshot |-> NoStock, sent |-> FALSE, overtaken |-> {}]

VARIABLES
  stock,            \* the database: what there is of each product,
  orders,           \* and the requests whose order there is
  tx,               \* the server's side of each request's connection: is it in
                    \* a transaction, on what snapshot, are SaveChanges'
                    \* statements executed, what have others changed since
  pc,               \* of each request
  completed,        \* DsqlTransactionWrapper._completed
  tracked,          \* the change tracker
  commitFailed,     \* the CommitFailed of ExecuteInTransaction
  validationError,  \* is there one?
  exception,        \* the one that was thrown
  retries,          \* the length of ExceptionsEncountered
  answer,           \* the status of the response
  faults,
  troubled,         \* history: requests that met a failure that is no conflict
  unsure            \* history: requests that lost an answer, COMMIT being sent

dbVars      == <<stock, orders>>
retryVars   == <<commitFailed, exception, retries>>
handlerVars == <<tracked, validationError, answer>>
historyVars == <<faults, troubled, unsure>>
vars        == <<dbVars, tx, pc, completed, retryVars, handlerVars, historyVars>>

Goto(r, label) == pc' = [pc EXCEPT ![r] = label]
Throw(r, kind) == exception' = [exception EXCEPT ![r] = kind]

\* OC001: somebody changed the schema.
SchemaChanged(r) ==
  /\ faults < MaxFaults /\ faults' = faults + 1
  /\ Throw(r, "occ") /\ UNCHANGED troubled

\* A timeout, a lost connection.
Fault(r) ==
  /\ faults < MaxFaults /\ faults' = faults + 1
  /\ Throw(r, "other") /\ troubled' = troubled \cup {r}

-----------------------------------------------------------------------------
Init ==
  /\ stock = [p \in AtStart |-> StockOf[p]] /\ orders = {}
  /\ tx = [r \in Requests |-> NoTransaction]
  /\ pc = [r \in Requests |-> "idle"]
  /\ completed = [r \in Requests |-> FALSE]
  /\ tracked = [r \in Requests |-> Untracked]
  /\ commitFailed = [r \in Requests |-> FALSE]
  /\ validationError = [r \in Requests |-> FALSE]
  /\ exception = [r \in Requests |-> "none"]
  /\ retries = [r \in Requests |-> 0]
  /\ answer = [r \in Requests |-> 0]
  /\ faults = 0 /\ troubled = {} /\ unsure = {}

\* POST /products of a new one: SaveChanges commits it by itself.
CreateProduct(p) ==
  /\ p \notin DOMAIN stock
  /\ stock' = [q \in DOMAIN stock \cup {p} |-> IF q = p THEN StockOf[p] ELSE stock[q]]
  /\ UNCHANGED <<orders, tx, pc, completed, retryVars, handlerVars, historyVars>>

\* The handler starts the strategy.
OnFirstExecution(r) ==
  /\ pc[r] = "idle" /\ Goto(r, "begin")
  /\ retries' = [retries EXCEPT ![r] = 0]
  /\ UNCHANGED <<dbVars, tx, completed, commitFailed, exception, handlerVars, historyVars>>

\* BEGIN, without an isolation level. When it fails there is nothing to dispose
\* of.
BeginDbTransaction(r) ==
  /\ pc[r] = "begin"
  /\ \/ /\ tx' = [tx EXCEPT ![r] = [NoTransaction EXCEPT !.open = TRUE, !.snapshot = stock]]
        /\ completed' = [completed EXCEPT ![r] = FALSE]
        /\ commitFailed' = [commitFailed EXCEPT ![r] = FALSE]
        /\ Throw(r, "none") /\ Goto(r, "operation")
        /\ UNCHANGED <<faults, troubled>>
     \/ /\ Fault(r) /\ Goto(r, "caught")
        /\ UNCHANGED <<tx, completed, commitFailed>>
  /\ UNCHANGED <<dbVars, retries, handlerVars, unsure>>

-----------------------------------------------------------------------------
(* The operation: the handler's lambda.                                    *)

\* Mutant: the entities of the last attempt are still tracked.
StartedUncleared(r) == [entities |-> tracked[r], error |-> FALSE]

\* Mutant: the error of the last attempt is still there.
StartedWithError(r) == [entities |-> Untracked, error |-> validationError[r]]

\* ctx.ChangeTracker.Clear(); validationError = null.
Started(r) == [entities |-> Untracked, error |-> FALSE]

\* FindAsync: the tracked product or else the one in the database, if any.
Find(r, entities) ==
  [p \in DOMAIN entities.products \cup DOMAIN tx[r].snapshot |->
     IF p \in DOMAIN entities.products THEN entities.products[p] ELSE tx[r].snapshot[p]]

\* Mutant: the quantity is not looked at.
ValidIfFound(r, found) == DOMAIN Items[r] \subseteq DOMAIN found

\* Neither "Product not found" nor "Insufficient stock". Item by item the stock
\* is compared and lowered: it is enough for each when it is for the most they
\* come to. Neither quantities nor stock need be positive.
Valid(r, found) ==
  \A p \in DOMAIN Items[r] : p \in DOMAIN found /\ found[p] >= Items[r][p].most

\* The stock lowered and the order added, in memory.
Placed(r, found) ==
  [products |-> [p \in DOMAIN Items[r] |-> found[p] - Items[r][p].quantity], order |-> TRUE]

\* The operation runs to its end, or throws: a query or SaveChanges fails, or
\* the order's id is in the tracker already. There are no savepoints: the wrappers
\* neither support nor send any.
Operation(r) ==
  /\ pc[r] = "operation"
  /\ LET start  == Started(r)
         found  == Find(r, start.entities)
         valid  == Valid(r, found)
         placed == IF valid THEN Placed(r, found) ELSE start.entities
     IN \/ /\ valid => ~start.entities.order
           /\ tx' = [tx EXCEPT ![r].sent = valid]
           /\ tracked' = [tracked EXCEPT ![r] = placed]
           /\ validationError' = [validationError EXCEPT ![r] = start.error \/ ~valid]
           /\ commitFailed' = [commitFailed EXCEPT ![r] = TRUE]
           /\ Goto(r, "commit")
           /\ UNCHANGED <<exception, faults, troubled>>
        \/ /\ \/ SchemaChanged(r) \/ Fault(r)
              \/ /\ valid /\ start.entities.order
                 /\ Throw(r, "other") /\ UNCHANGED <<faults, troubled>>
           /\ \E entities \in {start.entities, placed} :
                tracked' = [tracked EXCEPT ![r] = entities]
           /\ validationError' = [validationError EXCEPT ![r] = start.error]
           /\ Goto(r, "dispose")
           /\ UNCHANGED <<tx, commitFailed>>
  /\ UNCHANGED <<dbVars, completed, retries, answer, unsure>>

-----------------------------------------------------------------------------
(* DsqlTransactionWrapper.                                                 *)

\* SaveChanges updates the products whose stock is another than it was.
Changed(r) == IF tx[r].sent THEN {p \in DOMAIN Items[r] : Items[r][p].quantity # 0} ELSE {}

\* Snapshot isolation: of two transactions that change a row the first to
\* commit wins.
Conflict(r) == Changed(r) \cap tx[r].overtaken # {}

Aborted(r) == tx' = [tx EXCEPT ![r] = NoTransaction] /\ UNCHANGED dbVars

Committed(r) ==
  /\ ~Conflict(r)
  /\ stock' = [p \in DOMAIN stock |-> IF p \in Changed(r) THEN tracked[r].products[p] ELSE stock[p]]
  /\ orders' = IF tx[r].sent THEN orders \cup {r} ELSE orders
  /\ tx' = [q \in Requests |->
              IF q = r \/ ~tx[q].open THEN NoTransaction
              ELSE [tx[q] EXCEPT !.overtaken = @ \cup Changed(r)]]

\* COMMIT is done; or a conflict; or fails, when it is done all the same, or
\* not. Only what was answered completes the wrapper.
Commit(r) ==
  /\ pc[r] = "commit" /\ ~completed[r]
  /\ \/ /\ Committed(r)
        /\ completed' = [completed EXCEPT ![r] = TRUE]
        /\ UNCHANGED <<exception, faults, troubled, unsure>>
     \/ /\ Conflict(r) /\ Throw(r, "occ") /\ Aborted(r)
        /\ UNCHANGED <<completed, faults, troubled, unsure>>
     \/ /\ SchemaChanged(r) /\ Aborted(r)
        /\ UNCHANGED <<completed, unsure>>
     \/ /\ Fault(r) /\ Committed(r) /\ unsure' = unsure \cup {r}
        /\ UNCHANGED completed
     \/ /\ Fault(r) /\ UNCHANGED <<dbVars, tx, completed, unsure>>
  /\ Goto(r, "dispose")
  /\ UNCHANGED <<commitFailed, retries, handlerVars>>

\* The strategy returns; a query that follows starts its own.
Return(r) == Goto(r, "respond") /\ retries' = [retries EXCEPT ![r] = 0]

\* DisposeAsync: ROLLBACK unless completed. Its failure is logged; the server
\* ends the transaction of a lost connection.
Dispose(r) ==
  /\ pc[r] = "dispose"
  /\ tx' = [tx EXCEPT ![r] = IF completed[r] THEN @ ELSE NoTransaction]
  /\ completed' = [completed EXCEPT ![r] = TRUE]
  /\ IF exception[r] = "none" THEN Return(r) ELSE Goto(r, "caught") /\ UNCHANGED retries
  /\ UNCHANGED <<dbVars, commitFailed, exception, handlerVars, historyVars>>

-----------------------------------------------------------------------------
(* DsqlExecutionStrategy.                                                  *)

\* Database.CurrentTransaction is not null.
InTransaction(r) == pc[r] \in {"operation", "commit", "dispose"}

\* A conflict, outside a transaction.
ShouldRetryOn(r) == ~InTransaction(r) /\ exception[r] = "occ"

Respond(r, status) == answer' = [answer EXCEPT ![r] = status] /\ Goto(r, "answered")

\* Mutant: one retry more.
RetryOneMore(r) ==
  /\ retries' = [retries EXCEPT ![r] = @ + 1]
  /\ IF retries[r] <= MaxRetryCount THEN Goto(r, "begin") /\ UNCHANGED answer ELSE Respond(r, 500)

\* GetNextDelay: the exception is counted, and there is another attempt, or
\* RetryLimitExceededException.
Retry(r) ==
  /\ retries' = [retries EXCEPT ![r] = @ + 1]
  /\ IF retries[r] < MaxRetryCount THEN Goto(r, "begin") /\ UNCHANGED answer ELSE Respond(r, 500)

\* The strategy has caught the exception. After COMMIT was tried, and if it
\* would retry, it first has verifySucceeded look whether that took effect.
Catch(r) ==
  /\ pc[r] = "caught"
  /\ IF ~ShouldRetryOn(r) THEN Respond(r, 500) /\ UNCHANGED retries
     ELSE IF commitFailed[r] THEN Goto(r, "verify") /\ UNCHANGED <<answer, retries>>
     ELSE Retry(r)
  /\ UNCHANGED <<dbVars, tx, completed, commitFailed, exception, tracked, validationError, historyVars>>

\* A conflict of a query counts as one more exception and it is repeated, unless
\* that is too many.
QueryConflict(r) ==
  /\ SchemaChanged(r)
  /\ retries' = [retries EXCEPT ![r] = @ + 1]
  /\ IF retries[r] < MaxRetryCount THEN UNCHANGED <<pc, answer>> ELSE Respond(r, 500)

\* verifySucceeded: ChangeTracker.Clear(), is the order there?
Verify(r) ==
  /\ pc[r] = "verify"
  /\ tracked' = [tracked EXCEPT ![r] = Untracked]
  /\ \/ /\ IF r \in orders THEN Return(r) /\ UNCHANGED answer ELSE Retry(r)
        /\ UNCHANGED <<exception, faults, troubled>>
     \/ QueryConflict(r)
     \/ Fault(r) /\ Respond(r, 500) /\ UNCHANGED retries
  /\ UNCHANGED <<dbVars, tx, completed, commitFailed, validationError, unsure>>

\* The strategy returned: 400, or the order is read once more for the 201, by a
\* query with a strategy of its own.
Result(r) ==
  /\ pc[r] = "respond"
  /\ \/ /\ Respond(r, IF validationError[r] THEN 400 ELSE IF r \in orders THEN 201 ELSE 500)
        /\ UNCHANGED <<exception, retries, faults, troubled, unsure>>
     \/ /\ ~validationError[r] /\ unsure' = unsure \cup {r}
        /\ \/ QueryConflict(r)
           \/ Fault(r) /\ Respond(r, 500) /\ UNCHANGED retries
  /\ UNCHANGED <<dbVars, tx, completed, commitFailed, tracked, validationError>>

Handle(r) ==
  \/ BeginDbTransaction(r) \/ Operation(r) \/ Commit(r) \/ Dispose(r)
  \/ Catch(r) \/ Verify(r) \/ Result(r)

Next ==
  \/ \E p \in Products : CreateProduct(p)
  \/ \E r \in Requests : OnFirstExecution(r) \/ Handle(r)

Spec == Init /\ [][Next]_vars

\* A request that was taken up is handled to its end.
FairSpec == Spec /\ \A r \in Requests : WF_vars(Handle(r))

-----------------------------------------------------------------------------
(* Properties.                                                             *)

Amounts(f) == DOMAIN f \subseteq Products /\ f \in [DOMAIN f -> Int]

\* Types of the variables.
TypeOK ==
  /\ Amounts(stock) /\ orders \subseteq Requests
  /\ \A r \in Requests :
       /\ Amounts(tx[r].snapshot) /\ Amounts(tracked[r].products)
       /\ tx[r].open \in BOOLEAN /\ tx[r].sent \in BOOLEAN /\ tx[r].overtaken \subseteq Products
       /\ tracked[r].order \in BOOLEAN
  /\ pc \in [Requests -> {"idle", "begin", "operation", "commit", "dispose", "caught", "verify",
                          "respond", "answered"}]
  /\ completed \in [Requests -> BOOLEAN]
  /\ commitFailed \in [Requests -> BOOLEAN] /\ validationError \in [Requests -> BOOLEAN]
  /\ exception \in [Requests -> {"none", "occ", "other"}]
  /\ retries \in [Requests -> 0..(MaxRetryCount + 1)]
  /\ answer \in [Requests -> {0, 201, 400, 500}]
  /\ faults \in 0..MaxFaults /\ troubled \subseteq Requests /\ unsure \subseteq Requests

\* What requests ordered of a product together.
Sold(p, rs) == MapThenSumSet(LAMBDA r : Items[r][p].quantity, rs)

\* However requests interleave, are retried and fail, the stock is what the
\* orders left of it: none lowers it twice, none on a stock it did not read, and
\* none is placed without stock. Below 0 is only a product that was created so,
\* and that nobody ordered yet.
StockAccounted ==
  \A p \in DOMAIN stock :
    LET buyers == {r \in orders : p \in DOMAIN Items[r]}
    IN (buyers # {} => stock[p] >= 0) /\ stock[p] + Sold(p, buyers) = StockOf[p]

\* 201 is an order that is there, 400 one that is not, whatever attempts there
\* were before; 500 is one that is not, unless an answer was lost after COMMIT
\* (for these verifySucceeded is not asked: it is no conflict).
AnswerTellsOrder ==
  \A r \in Requests :
    /\ answer[r] = 201 => r \in orders
    /\ answer[r] = 400 => r \notin orders
    /\ answer[r] = 500 /\ r \in orders => r \in unsure

\* Every request is answered and leaves no transaction behind; with 500 only
\* for a failure that is no conflict, or when its retries are used up. Requests
\* that compete do not use them up by themselves: every conflict is with one
\* that was committed, or a change of the schema.
RequestsEnd ==
  \A r \in Requests :
    pc[r] = "begin" ~>
      /\ pc[r] = "answered" /\ ~tx[r].open
      /\ answer[r] = 500 => r \in troubled \/ retries[r] > MaxRetryCount
      /\ retries[r] > MaxRetryCount => Cardinality(Requests) - 1 + faults > MaxRetryCount
=============================================================================
