--------------------------- MODULE DrizzleMigrator ---------------------------
(***************************************************************************)
(* migrateInternal of node/drizzle/src/migrator.ts: runs of the migrator   *)
(* (deploys, re-runs, concurrent deploys) over one Aurora DSQL database.   *)
(* Each run creates the tracking table, reads the recorded statements ONCE *)
(* and then executes and records, in two separate autocommits, every       *)
(* statement it did not find there. Every database operation goes through  *)
(* withRetry, which repeats it on an optimistic-concurrency conflict.      *)
(*                                                                         *)
(* A statement is a position of Script; all that is kept of its text is    *)
(* what the code or the database tells apart (its kind).                   *)
(***************************************************************************)
EXTENDS Integers, Sequences, FiniteSets

CONSTANTS
  Runs,         \* the invocations of migrateInternal
  Script,       \* the chunks of the migration files, in order
  MaxRetries,   \* maxRetries of withRetry (DEFAULT_MAX_RETRIES is 3)
  MaxFaults,    \* bound: failures the environment may inject in a behaviour
  Concurrent    \* may a run start while another one is active?

SyncKinds  == {"create", "createIfNotExists", "write"}
AsyncKinds == {"index", "indexIfNotExists", "validate"}
Kinds      == SyncKinds \cup AsyncKinds \cup {"empty", "multi"}

ASSUME MigratorAssumption ==
  /\ Script \in Seq([kind : Kinds, last : BOOLEAN])
  /\ Len(Script) > 0 => Script[Len(Script)].last
  /\ MaxRetries \in Nat
  /\ MaxFaults \in Nat
  /\ Concurrent \in BOOLEAN

Chunk            == 1..Len(Script)
Kind(p)          == Script[p].kind
EndsMigration(p) == Script[p].last

VARIABLES
  \* The database, shared by all runs.
  created,      \* which of the tracking schema and table exist
  rows,         \* positions with a row in the tracking table
  catalog,      \* positions whose object (table, index) is in the catalog
  committed,    \* <<r, p>>: run r's execution of statement p committed
  job,          \* job[r][p]: the asynchronous job run r's statement p started
  \* Each run.
  pc,           \* where the run is, or how it ended
  tries,        \* withRetry's attempt, for the operation in progress
  snap,         \* appliedHashMap: the rows the run read when it started
  pos,          \* the chunk the loop is at
  hadPending,   \* migrationHadPendingStatements
  appliedCount, \* appliedStatementsCount
  completed,    \* completedMigrations
  faults        \* failures injected so far

dbVars  == <<created, rows, catalog, committed, job>>
runVars == <<snap, pos, hadPending, appliedCount, completed>>
vars    == <<dbVars, pc, tries, runVars, faults>>

DbOps  == {"schema", "table", "load", "execute", "wait", "record"}
Ended  == {"success", "failed", "threw", "crashed"}
Labels == {"idle", "scan"} \cup DbOps \cup Ended

Active(r) == pc[r] \notin Ended \cup {"idle"}

Init ==
  /\ created = {} /\ rows = {} /\ catalog = {} /\ committed = {}
  /\ job = [r \in Runs |-> [p \in Chunk |-> "none"]]
  /\ pc = [r \in Runs |-> "idle"]
  /\ tries = [r \in Runs |-> 0]
  /\ snap = [r \in Runs |-> {}]
  /\ pos = [r \in Runs |-> 1]
  /\ hadPending = [r \in Runs |-> FALSE]
  /\ appliedCount = [r \in Runs |-> 0]
  /\ completed = [r \in Runs |-> 0]
  /\ faults = 0

\* Run r leaves the operation it is at: the next one gets a fresh withRetry.
Goto(r, label) ==
  /\ pc' = [pc EXCEPT ![r] = label]
  /\ tries' = [tries EXCEPT ![r] = 0]

-----------------------------------------------------------------------------
(* Before the loop.                                                        *)

Start(r) ==
  /\ pc[r] = "idle"
  /\ Concurrent \/ \A q \in Runs : ~Active(q)
  /\ Goto(r, "schema")
  /\ UNCHANGED <<dbVars, runVars, faults>>

\* CREATE SCHEMA IF NOT EXISTS.
EnsureSchema(r) ==
  /\ pc[r] = "schema"
  /\ created' = created \cup {"schema"}
  /\ Goto(r, "table")
  /\ UNCHANGED <<rows, catalog, committed, job, runVars, faults>>

\* Mutant: CREATE TABLE without IF NOT EXISTS.
EnsureTableOnce(r) ==
  /\ pc[r] = "table"
  /\ created' = created \cup {"table"}
  /\ Goto(r, IF "table" \in created THEN "threw" ELSE "load")
  /\ UNCHANGED <<rows, catalog, committed, job, runVars, faults>>

\* CREATE TABLE IF NOT EXISTS, with the unique key <<folder millis, index>>.
EnsureTable(r) ==
  /\ pc[r] = "table"
  /\ created' = created \cup {"table"}
  /\ Goto(r, "load")
  /\ UNCHANGED <<rows, catalog, committed, job, runVars, faults>>

\* Mutant: a migration with any row counts as applied, as the stock migrate()
\* tracks whole files.
LoadAppliedFiles(r) ==
  /\ pc[r] = "load"
  /\ snap' = [snap EXCEPT ![r] =
                {p \in Chunk : \E q \in rows :
                   \A x \in (p..(q - 1)) \cup (q..(p - 1)) : ~EndsMigration(x)}]
  /\ Goto(r, "scan")
  /\ UNCHANGED <<dbVars, pos, hadPending, appliedCount, completed, faults>>

\* Mutant: the newest row is not visible to the SELECT.
LoadAppliedStale(r) ==
  /\ pc[r] = "load"
  /\ snap' = [snap EXCEPT ![r] = {p \in rows : \E q \in rows : p < q}]
  /\ Goto(r, "scan")
  /\ UNCHANGED <<dbVars, pos, hadPending, appliedCount, completed, faults>>

\* The one SELECT of the tracking table: appliedHashMap is never refreshed.
LoadApplied(r) ==
  /\ pc[r] = "load"
  /\ snap' = [snap EXCEPT ![r] = rows]
  /\ Goto(r, "scan")
  /\ UNCHANGED <<dbVars, pos, hadPending, appliedCount, completed, faults>>

-----------------------------------------------------------------------------
(* The loop over the chunks.                                               *)

\* The end of the loop body: go to the next chunk, and count the migration
\* when this chunk was its last one and it had something pending.
NextChunk(r, pending) ==
  /\ pos' = [pos EXCEPT ![r] = @ + 1]
  /\ hadPending' = [hadPending EXCEPT ![r] = pending /\ ~EndsMigration(pos[r])]
  /\ completed' = [completed EXCEPT ![r] =
                     IF pending /\ EndsMigration(pos[r]) THEN @ + 1 ELSE @]

Scanning(r) == pc[r] = "scan" /\ pos[r] \in Chunk

SkipRecorded(r) ==
  /\ Scanning(r)
  /\ pos[r] \in snap[r]
  /\ NextChunk(r, hadPending[r])
  /\ UNCHANGED <<dbVars, pc, tries, snap, appliedCount, faults>>

\* Mutant: a chunk with several statements is skipped with a warning.
DispatchSkipsMulti(r) ==
  /\ Scanning(r)
  /\ pos[r] \notin snap[r]
  /\ IF Kind(pos[r]) = "multi"
     THEN NextChunk(r, TRUE) /\ UNCHANGED <<pc, tries>>
     ELSE /\ hadPending' = [hadPending EXCEPT ![r] = TRUE]
          /\ Goto(r, IF Kind(pos[r]) = "empty" THEN "record" ELSE "execute")
          /\ UNCHANGED <<pos, completed>>
  /\ UNCHANGED <<dbVars, snap, appliedCount, faults>>

\* A pending chunk: refused when it holds several statements, recorded without
\* an execution when it is empty, executed otherwise.
Dispatch(r) ==
  /\ Scanning(r)
  /\ pos[r] \notin snap[r]
  /\ hadPending' = [hadPending EXCEPT ![r] = TRUE]
  /\ Goto(r, CASE Kind(pos[r]) = "multi" -> "failed"
               [] Kind(pos[r]) = "empty" -> "record"
               [] OTHER                  -> "execute")
  /\ UNCHANGED <<dbVars, snap, pos, appliedCount, completed, faults>>

Finish(r) ==
  /\ pc[r] = "scan"
  /\ pos[r] \notin Chunk
  /\ Goto(r, "success")
  /\ UNCHANGED <<dbVars, runVars, faults>>

-----------------------------------------------------------------------------
(* The database's side of a statement.                                     *)

IfNotExists(p) == Kind(p) \in {"createIfNotExists", "indexIfNotExists"}
Creates(p)     == Kind(p) \in {"create", "index"} \/ IfNotExists(p)

\* "already exists" (42P07): an error no retry helps with.
Refused(p) == Creates(p) /\ ~IfNotExists(p) /\ p \in catalog

\* An asynchronous statement answers with the id of the job it started; an IF
\* NOT EXISTS one that finds the index answers with no row at all.
StartsJob(p) == Kind(p) \in AsyncKinds /\ ~(IfNotExists(p) /\ p \in catalog)

\* Statement pos[r] commits, in the implicit transaction of its own.
Commits(r) ==
  /\ committed' = committed \cup {<<r, pos[r]>>}
  /\ catalog' = IF Creates(pos[r]) THEN catalog \cup {pos[r]} ELSE catalog
  /\ job' = IF StartsJob(pos[r])
            THEN [job EXCEPT ![r][pos[r]] = "running"] ELSE job

-----------------------------------------------------------------------------
(* Executing and recording a statement.                                    *)

\* Mutant: the job a statement starts is not awaited.
ExecuteNoWait(r) ==
  /\ pc[r] = "execute"
  /\ ~Refused(pos[r])
  /\ Commits(r)
  /\ Goto(r, "record")
  /\ UNCHANGED <<created, rows, runVars, faults>>

Execute(r) ==
  /\ pc[r] = "execute"
  /\ ~Refused(pos[r])
  /\ Commits(r)
  /\ Goto(r, IF StartsJob(pos[r]) THEN "wait" ELSE "record")
  /\ UNCHANGED <<created, rows, runVars, faults>>

ExecuteRefused(r) ==
  /\ pc[r] = "execute"
  /\ Refused(pos[r])
  /\ Goto(r, "failed")
  /\ UNCHANGED <<dbVars, runVars, faults>>

\* Mutant: a job that ended is a success.
WaitForAnyOutcome(r) ==
  /\ pc[r] = "wait"
  /\ job[r][pos[r]] # "running"
  /\ Goto(r, "record")
  /\ UNCHANGED <<dbVars, runVars, faults>>

\* waitForDsqlJob: only an explicit succeeded = true is a success.
WaitForDsqlJob(r) ==
  /\ pc[r] = "wait"
  /\ job[r][pos[r]] # "running"
  /\ Goto(r, IF job[r][pos[r]] = "succeeded" THEN "record" ELSE "failed")
  /\ UNCHANGED <<dbVars, runVars, faults>>

\* recordStatement: INSERT ... ON CONFLICT DO NOTHING, in its own autocommit.
RecordStatement(r) ==
  /\ pc[r] = "record"
  /\ rows' = rows \cup {pos[r]}
  /\ appliedCount' = [appliedCount EXCEPT ![r] = @ + 1]
  /\ NextChunk(r, hadPending[r])
  /\ Goto(r, "scan")
  /\ UNCHANGED <<created, catalog, committed, job, snap, faults>>

-----------------------------------------------------------------------------
(* What goes wrong.                                                        *)

\* How the run ends when its operation throws: the set-up and the recording of
\* an empty chunk are outside the try blocks, so migrateInternal throws.
Thrown(r) ==
  IF \/ pc[r] \in {"schema", "table", "load"}
     \/ pc[r] = "record" /\ Kind(pos[r]) = "empty"
  THEN "threw" ELSE "failed"

Fault == faults < MaxFaults /\ faults' = faults + 1

\* Mutant: one attempt too many.
ConflictOnceMore(r) ==
  /\ pc[r] \in DbOps
  /\ tries[r] <= MaxRetries
  /\ tries' = [tries EXCEPT ![r] = @ + 1]
  /\ UNCHANGED <<dbVars, pc, runVars, faults>>

\* Mutant: the attempts start over at the limit.
ConflictForever(r) ==
  /\ pc[r] \in DbOps
  /\ tries' = [tries EXCEPT ![r] = IF @ = MaxRetries THEN 0 ELSE @ + 1]
  /\ UNCHANGED <<dbVars, pc, runVars, faults>>

\* An optimistic-concurrency conflict with attempts left: withRetry runs the
\* operation again. It did not commit.
Conflict(r) ==
  /\ pc[r] \in DbOps
  /\ tries[r] < MaxRetries
  /\ tries' = [tries EXCEPT ![r] = @ + 1]
  /\ UNCHANGED <<dbVars, pc, runVars, faults>>

\* A conflict on the last attempt (AwsDsqlRetryExhaustedError).
RetriesExhausted(r) ==
  /\ pc[r] \in DbOps
  /\ tries[r] = MaxRetries
  /\ Fault
  /\ Goto(r, Thrown(r))
  /\ UNCHANGED <<dbVars, runVars>>

\* An error that is not a conflict, before the operation had an effect; for a
\* wait, also the wait that times out (succeeded is null).
OperationFails(r) ==
  /\ pc[r] \in DbOps
  /\ Fault
  /\ Goto(r, Thrown(r))
  /\ UNCHANGED <<dbVars, runVars>>

\* The connection drops after the operation committed: the run sees an error
\* that is not a conflict and ends, the effect stays.
ReplyLost(r) ==
  /\ pc[r] \in {"schema", "table", "execute", "record"}
  /\ Fault
  /\ \/ pc[r] \in {"schema", "table"} /\ created' = created \cup {pc[r]}
                                     /\ UNCHANGED <<rows, catalog, committed, job>>
     \/ pc[r] = "execute" /\ ~Refused(pos[r]) /\ Commits(r)
                          /\ UNCHANGED <<created, rows>>
     \/ pc[r] = "record" /\ rows' = rows \cup {pos[r]}
                         /\ UNCHANGED <<created, catalog, committed, job>>
  /\ Goto(r, Thrown(r))
  /\ UNCHANGED runVars

Crash(r) ==
  /\ Active(r)
  /\ Fault
  /\ Goto(r, "crashed")
  /\ UNCHANGED <<dbVars, runVars>>

-----------------------------------------------------------------------------
(* Jobs run in the database, whatever became of the run that started them. *)

JobSucceeds(r, p) ==
  /\ job[r][p] = "running"
  /\ job' = [job EXCEPT ![r][p] = "succeeded"]
  /\ UNCHANGED <<created, rows, catalog, committed, pc, tries, runVars, faults>>

\* A failed index build leaves the index in the catalog (invalid) or not.
JobFails(r, p) ==
  /\ job[r][p] = "running"
  /\ Fault
  /\ job' = [job EXCEPT ![r][p] = "failed"]
  /\ catalog' \in {catalog, catalog \ {p}}
  /\ UNCHANGED <<created, rows, committed, pc, tries, runVars>>

-----------------------------------------------------------------------------
Operation(r) ==
  \/ EnsureSchema(r) \/ EnsureTable(r) \/ LoadApplied(r)
  \/ SkipRecorded(r) \/ Dispatch(r) \/ Finish(r)
  \/ Execute(r) \/ ExecuteRefused(r) \/ WaitForDsqlJob(r) \/ RecordStatement(r)

Failure(r) ==
  \/ Conflict(r) \/ RetriesExhausted(r) \/ OperationFails(r)
  \/ ReplyLost(r) \/ Crash(r)

Job(r, p) == JobSucceeds(r, p) \/ JobFails(r, p)

Next ==
  \/ \E r \in Runs : Start(r) \/ Operation(r) \/ Failure(r)
  \/ \E r \in Runs, p \in Chunk : Job(r, p)

Spec == Init /\ [][Next]_vars

\* An active run takes its next step, whatever its outcome, and a job finishes.
Fairness ==
  /\ \A r \in Runs : WF_vars(Operation(r) \/ Failure(r))
  /\ \A r \in Runs, p \in Chunk : WF_vars(Job(r, p))

FairSpec == Spec /\ Fairness

\* As FairSpec, and a deploy is eventually tried again.
RetriedSpec == FairSpec /\ \A r \in Runs : WF_vars(Start(r))
-----------------------------------------------------------------------------
(* Properties.                                                             *)

TypeOK ==
  /\ created \subseteq {"schema", "table"}
  /\ rows \subseteq Chunk /\ catalog \subseteq Chunk
  /\ committed \subseteq Runs \X Chunk
  /\ job \in [Runs -> [Chunk -> {"none", "running", "succeeded", "failed"}]]
  /\ pc \in [Runs -> Labels]
  /\ tries \in [Runs -> 0..MaxRetries]
  /\ snap \in [Runs -> SUBSET Chunk]
  /\ pos \in [Runs -> 1..(Len(Script) + 1)]
  /\ hadPending \in [Runs -> BOOLEAN]
  /\ appliedCount \in [Runs -> Nat]
  /\ completed \in [Runs -> Nat]
  /\ faults \in 0..MaxFaults
  /\ \A r \in Runs : pc[r] \in DbOps \ {"schema", "table", "load"} => pos[r] \in Chunk

\* The effect of statement p is in the database. A job is awaited before its
\* statement counts, except an IF NOT EXISTS one (see JobAwaited).
Applied(p) ==
  CASE Kind(p) = "empty"               -> TRUE
    [] Kind(p) \in {"index", "validate"} -> \E r \in Runs : job[r][p] = "succeeded"
    [] OTHER                           -> \E r \in Runs : <<r, p>> \in committed

\* The tracking table has no gap: a recorded statement has every earlier one
\* recorded, however many runs raced, failed or crashed (loop at
\* migrator.ts:340-445).
RecordedIsPrefix == \A p \in rows : 1..p \subseteq rows

\* A statement is recorded only once it took effect, an asynchronous one only
\* once a job of it succeeded (migrator.ts:392-440).
RecordedIsApplied == \A p \in rows : Applied(p)

\* A statement runs only when everything before it took effect: "so a follow-up
\* migration (or the caller) can rely on it" (migrator.ts:397-400).
DependenciesReady ==
  \A c \in committed : \A q \in 1..(c[2] - 1) : Applied(q)

\* A run that reports success leaves nothing pending, even what another run
\* was executing meanwhile (migrator.ts:447-453, getMigrationStatus).
SuccessIsComplete ==
  \A r \in Runs : pc[r] = "success" => rows = Chunk /\ \A p \in Chunk : Applied(p)

\* The chunks of the migration whose last chunk is e.
MigrationChunks(e) == {q \in 1..e : \A x \in q..(e - 1) : ~EndsMigration(x)}
MigrationEnds == {e \in Chunk : EndsMigration(e)}

\* totalStatements and totalMigrations of a run.
TotalStatements(r) == Cardinality(Chunk \ snap[r])
TotalMigrations(r) ==
  Cardinality({e \in MigrationEnds : ~(MigrationChunks(e) \subseteq snap[r])})

\* getMigrationStatus: the migrations all of whose chunks are recorded.
AppliedMigrations == {e \in MigrationEnds : MigrationChunks(e) \subseteq rows}

\* The result of a run adds up: everything pending is counted once on success,
\* a failed run is short of its totals, and the migrations it completed are
\* among those getMigrationStatus reports (migrator.ts:274-287, 318-338, 439-453).
CountsAddUp ==
  \A r \in Runs :
    /\ pc[r] = "success" => /\ appliedCount[r] = TotalStatements(r)
                            /\ completed[r] = TotalMigrations(r)
    /\ pc[r] = "failed" => /\ appliedCount[r] < TotalStatements(r)
                           /\ completed[r] < TotalMigrations(r)
    /\ completed[r] <= Cardinality({e \in AppliedMigrations :
                                      ~(MigrationChunks(e) \subseteq snap[r])})

\* With one run at a time a recorded statement is never executed again: only a
\* run that ended between a statement and its row leads to a second execution
\* (migrator.ts:162-165).
RecordedNeverRerun ==
  [][\A c \in committed' \ committed : c[2] \notin rows]_vars

\* What migrator.ts:164-167 says of the gap between a statement and its row:
\* the re-run's error is surfaced. So no statement runs twice without an error.
RerunSurfaced ==
  \A p \in Chunk : Kind(p) = "write" =>
    Cardinality({r \in Runs : <<r, p>> \in committed}) <= 1

\* What migrator.ts:397-400 says of asynchronous statements: "a failed job is
\* never recorded as applied". So a recorded one has a job that succeeded.
JobAwaited ==
  \A p \in rows : Kind(p) \in AsyncKinds => \E r \in Runs : job[r][p] = "succeeded"

\* Every run that starts ends: retries are bounded and a wait returns
\* (retry.ts:130-149, migrator.ts:106-124).
RunsEnd == \A r \in Runs : Active(r) ~> ~Active(r)

\* "A run that fails partway can be re-run" (migrator.ts:162): with statements
\* that can be repeated and more runs than failures, some run gets to the end,
\* or to the chunk that every run refuses.
EventuallyMigrated ==
  <>(\E r \in Runs : \/ pc[r] = "success"
                     \/ pc[r] = "failed" /\ Kind(pos[r]) = "multi")

-----------------------------------------------------------------------------
(* Refinement.                                                             *)

Log == INSTANCE StatementLog WITH
         N <- Len(Script),
         NoOps <- {p \in Chunk : Kind(p) = "empty"},
         applied <- {p \in Chunk : Applied(p)},
         recorded <- rows

\* The migrator implements the log of statements: an effect appears only after
\* all earlier rows, a row only after its effect, and neither ever goes away.
ImplementsLog == Log!LogSpec
=============================================================================
