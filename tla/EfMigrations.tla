----------------------------- MODULE EfMigrations -----------------------------
(***************************************************************************)
(* EF Core's migrator with Amazon.AuroraDsql.EntityFrameworkCore: the      *)
(* commands of a migration are rewritten to be executed again without harm *)
(* where that can be done (DsqlSqlTransform), and each commits by itself   *)
(* (DsqlMigrator), the row of the history last. Deployments run Migrate,   *)
(* alone or at once: EF's LOCK TABLE is suppressed (DsqlCommandWrapper).   *)
(* An index is built by a job of the database, which nobody waits for.     *)
(***************************************************************************)
EXTENDS Integers, Sequences

CONSTANTS
  Deployments,  \* the processes that run Migrate
  Migrations,   \* the migrations, numbered in order
  Up,           \* the commands of each
  MaxRetries,   \* the execution strategy's MaxRetryCount
  MaxRuns,      \* bound: calls of Migrate
  MaxFaults     \* bound: crashes, OCC errors, refusals of dsql-lint, failed jobs

AllObjects == UNION {{Up[m][i].object : i \in DOMAIN Up[m]} : m \in Migrations}

ObjectsOf(kind) ==
  UNION {{Up[m][i].object : i \in {j \in DOMAIN Up[m] : Up[m][j].kind = kind}} : m \in Migrations}

Indexes == ObjectsOf("createIndex")
Columns == ObjectsOf("add")
Rows    == ObjectsOf("insert")

\* A command: CREATE TABLE or INDEX, ALTER ... ADD, DROP, or the insertion of a
\* row; on an object that may be part of others, though not of an index.
Creates  == {"createTable", "createIndex"}
UpKinds  == Creates \cup {"add", "drop", "insert"}
Commands == [kind : UpKinds, object : AllObjects, within : SUBSET (AllObjects \ Indexes)]

ASSUME EfAssumption ==
  /\ Migrations \subseteq Nat \ {0}
  /\ Up \in [Migrations -> Seq(Commands)]
  /\ MaxRetries \in Nat /\ MaxRuns \in Nat /\ MaxFaults \in Nat

\* Of any migrations one is the oldest and one the newest: there are not
\* infinitely many.
ASSUME OrderAssumption ==
  \A ms \in SUBSET Migrations :
    ms # {} => /\ \E m \in ms : \A n \in ms : m <= n
               /\ \E m \in ms : \A n \in ms : n <= m

VARIABLES
  objects,     \* tables, columns, rows, and indexes, valid or not
  building,    \* indexes that a job is building
  failed,      \* indexes whose job failed, there or not
  history,     \* migrations with a row in __EFMigrationsHistory
  pc,          \* of each deployment
  todo,        \* the migrations it found to be applied, or reverted
  later,       \* those to be applied after what is to be reverted
  down,        \* is it reverting?
  script,      \* the commands of the migration in hand still to be executed
  retries,
  runs,
  faults,
  astray,      \* history: migrations begun and not ended
  overlapped,  \* history: did two deployments ever run at once?
  reverted     \* history: did one ever revert?

catalog == <<objects, building, failed>>
vars == <<catalog, history, pc, todo, later, down, script, retries, runs, faults, astray, overlapped, reverted>>

PartsOf(o) ==
  UNION {{Up[m][i].object : i \in {j \in DOMAIN Up[m] : o \in Up[m][j].within}} : m \in Migrations}

-----------------------------------------------------------------------------
(* The commands of a migration: GenerateUpSql, GenerateDownSql.            *)

\* What reverses a command: rows are deleted, what was dropped comes back.
Reverses(c) ==
  CASE c.kind \in Creates \cup {"add"} -> "drop"
    [] c.kind = "insert" -> "delete"
    [] c.object \in Indexes -> "createIndex"
    [] c.object \in Columns \ Indexes -> "add"
    [] OTHER -> "createTable"

Down(m) == [i \in DOMAIN Up[m] |->
              LET c == Up[m][Len(Up[m]) + 1 - i] IN [c EXCEPT !.kind = Reverses(c)]]

\* What dsql-lint makes of a command.
Lint(c) == IF c.kind = "createIndex" THEN [c EXCEPT !.kind = "createIndexAsync"] ELSE c

\* Mutant: indexes are not rewritten.
MakeIdempotentTables(c) == IF c.kind = "createTable" THEN [c EXCEPT !.kind = "createTableIfNotExists"] ELSE c

IfNotExists == {"createTableIfNotExists", "createIndexAsyncIfNotExists"}

\* IF NOT EXISTS for tables and indexes; ALTER and DROP stay as they are.
MakeIdempotent(c) ==
  CASE c.kind = "createTable"      -> [c EXCEPT !.kind = "createTableIfNotExists"]
    [] c.kind = "createIndexAsync" -> [c EXCEPT !.kind = "createIndexAsyncIfNotExists"]
    [] OTHER -> c

\* Mutant: the result has the DDL only.
TransformDdlOnly(commands) ==
  LET ddl == SelectSeq(commands, LAMBDA c : c.kind \notin {"insert", "delete"})
  IN [i \in DOMAIN ddl |-> MakeIdempotent(Lint(ddl[i]))]

\* TransformBatchWithDiagnostics: DDL through the linter and rewritten, the
\* rest in its place.
Transform(commands) == [i \in DOMAIN commands |-> MakeIdempotent(Lint(commands[i]))]

Row(kind, m) == [kind |-> kind, object |-> m, within |-> {}]

\* Mutant: the row comes first.
GenerateUpSqlRowFirst(m) == <<Row("insertRow", m)>> \o Transform(Up[m])

GenerateUpSql(m)   == Transform(Up[m]) \o <<Row("insertRow", m)>>
GenerateDownSql(m) == Transform(Down(m)) \o <<Row("deleteRow", m)>>

-----------------------------------------------------------------------------
(* A command, executed.                                                    *)

Executable(c) ==
  /\ c.within \subseteq objects
  /\ c.kind \in Creates \cup {"createIndexAsync", "add", "insert"} => c.object \notin objects
  /\ c.kind = "drop" => c.object \in objects
  /\ c.kind = "insertRow" => c.object \notin history

\* Command c makes object o, or takes it away.
Makes(c, o) == c.kind \in Creates \cup IfNotExists \cup {"createIndexAsync", "add", "insert"} /\ o = c.object
Takes(c, o) == c.kind \in {"drop", "delete"} /\ o \in {c.object} \cup PartsOf(c.object)

\* The objects there are after it, out of those before.
After(c, before) == {o \in AllObjects : Makes(c, o) \/ (o \in before /\ ~Takes(c, o))}

\* A command commits. An index that is created anew has a job to build it.
Effect(c) ==
  LET new  == {o \in AllObjects \ objects : Makes(c, o)}
      gone == {o \in AllObjects : Takes(c, o)}
  IN /\ objects'  = After(c, objects)
     /\ building' = (building \ gone) \cup {o \in new : c.kind \in {"createIndexAsync", "createIndexAsyncIfNotExists"}}
     /\ failed'   = failed \ (new \cup gone)
     /\ history'  = CASE c.kind = "insertRow" -> history \cup {c.object}
                      [] c.kind = "deleteRow" -> history \ {c.object}
                      [] OTHER -> history
     /\ astray'   = IF c.kind \in {"insertRow", "deleteRow"} THEN astray \ {c.object} ELSE astray

\* The job of index o ends. It may fail, on rows that are not unique say: the
\* index then stays as an invalid one, or is gone.
JobSucceeds(o) ==
  /\ o \in building
  /\ building' = building \ {o}
  /\ UNCHANGED <<objects, failed, history, pc, todo, later, down, script, retries, runs, faults, astray, overlapped, reverted>>

JobFails(o) ==
  /\ o \in building /\ faults < MaxFaults
  /\ faults' = faults + 1
  /\ building' = building \ {o}
  /\ failed' = failed \cup {o}
  /\ objects' = objects \/ objects' = objects \ {o}
  /\ UNCHANGED <<history, pc, todo, later, down, script, retries, runs, astray, overlapped, reverted>>

-----------------------------------------------------------------------------
Init ==
  /\ objects = {} /\ building = {} /\ failed = {} /\ history = {}
  /\ pc = [d \in Deployments |-> "idle"]
  /\ todo = [d \in Deployments |-> {}]
  /\ later = [d \in Deployments |-> {}]
  /\ down = [d \in Deployments |-> FALSE]
  /\ script = [d \in Deployments |-> <<>>]
  /\ retries = [d \in Deployments |-> 0]
  /\ runs = 0 /\ faults = 0 /\ astray = {} /\ overlapped = FALSE /\ reverted = FALSE

\* The call ends, well or with an exception.
Return(d) ==
  /\ pc' = [pc EXCEPT ![d] = "idle"]
  /\ todo' = [todo EXCEPT ![d] = {}]
  /\ later' = [later EXCEPT ![d] = {}]
  /\ script' = [script EXCEPT ![d] = <<>>]

\* Migrate(target): LOCK TABLE locks nothing, and the history as it is now
\* says what there is to do: revert what is above the target, then apply what
\* is missing below it.
Migrate(d, target) ==
  /\ pc[d] = "idle" /\ runs < MaxRuns
  /\ runs' = runs + 1
  /\ LET above == {m \in history : m > target}
         below == {m \in Migrations \ history : m <= target}
     IN /\ down' = [down EXCEPT ![d] = above # {}]
        /\ todo' = [todo EXCEPT ![d] = IF above # {} THEN above ELSE below]
        /\ later' = [later EXCEPT ![d] = IF above # {} THEN below ELSE {}]
        /\ reverted' = (reverted \/ above # {})
  /\ pc' = [pc EXCEPT ![d] = "running"]
  /\ retries' = [retries EXCEPT ![d] = 0]
  /\ overlapped' = (overlapped \/ \E e \in Deployments : pc[e] = "running")
  /\ UNCHANGED <<catalog, history, script, faults, astray>>

\* The oldest of those to apply, the newest of those to revert.
NextOf(d) ==
  CHOOSE m \in todo[d] : \A n \in todo[d] : IF down[d] THEN n <= m ELSE m <= n

\* Everything that was to be reverted is: on to what is to be applied.
TurnRound(d) ==
  /\ pc[d] = "running" /\ script[d] = <<>> /\ todo[d] = {} /\ later[d] # {}
  /\ down' = [down EXCEPT ![d] = FALSE]
  /\ todo' = [todo EXCEPT ![d] = later[d]]
  /\ later' = [later EXCEPT ![d] = {}]
  /\ UNCHANGED <<catalog, history, pc, script, retries, runs, faults, astray, overlapped, reverted>>

\* The next migration. dsql-lint may refuse it: nothing of it is executed then.
NextMigration(d) ==
  /\ pc[d] = "running" /\ script[d] = <<>>
  /\ \/ todo[d] = {} /\ later[d] = {} /\ Return(d) /\ UNCHANGED <<faults, astray>>
     \/ /\ todo[d] # {}
        /\ script' = [script EXCEPT ![d] =
                        IF down[d] THEN GenerateDownSql(NextOf(d)) ELSE GenerateUpSql(NextOf(d))]
        /\ todo' = [todo EXCEPT ![d] = @ \ {NextOf(d)}]
        /\ astray' = astray \cup {NextOf(d)}
        /\ UNCHANGED <<pc, later, faults>>
     \/ /\ todo[d] # {} /\ faults < MaxFaults
        /\ Return(d) /\ faults' = faults + 1 /\ UNCHANGED astray
  /\ UNCHANGED <<catalog, history, down, retries, runs, overlapped, reverted>>

\* A command commits, or is an error.
Execute(d) ==
  /\ pc[d] = "running" /\ script[d] # <<>>
  /\ IF Executable(Head(script[d]))
       THEN /\ Effect(Head(script[d]))
            /\ script' = [script EXCEPT ![d] = Tail(@)]
            /\ UNCHANGED <<pc, todo, later>>
       ELSE Return(d) /\ UNCHANGED <<catalog, history, astray>>
  /\ UNCHANGED <<down, retries, runs, faults, overlapped, reverted>>

\* Mutant: one retry too many.
OccErrorOneMore(d) ==
  /\ pc[d] = "running" /\ script[d] # <<>> /\ faults < MaxFaults
  /\ faults' = faults + 1
  /\ IF retries[d] <= MaxRetries
       THEN retries' = [retries EXCEPT ![d] = @ + 1] /\ UNCHANGED <<pc, todo, later, script>>
       ELSE Return(d) /\ UNCHANGED retries
  /\ UNCHANGED <<catalog, history, down, runs, astray, overlapped, reverted>>

\* An OCC error: the strategy has the command executed again, there being no
\* transaction around it, until its retries are used up.
OccError(d) ==
  /\ pc[d] = "running" /\ script[d] # <<>> /\ faults < MaxFaults
  /\ faults' = faults + 1
  /\ IF retries[d] < MaxRetries
       THEN retries' = [retries EXCEPT ![d] = @ + 1] /\ UNCHANGED <<pc, todo, later, script>>
       ELSE Return(d) /\ UNCHANGED retries
  /\ UNCHANGED <<catalog, history, down, runs, astray, overlapped, reverted>>

\* The process is killed, or an answer is lost.
Crash(d) ==
  /\ pc[d] = "running" /\ faults < MaxFaults
  /\ faults' = faults + 1 /\ Return(d)
  /\ UNCHANGED <<catalog, history, down, retries, runs, astray, overlapped, reverted>>

StepOf(d) ==
  \/ \E target \in {0} \cup Migrations : Migrate(d, target)
  \/ TurnRound(d) \/ NextMigration(d) \/ Execute(d) \/ OccError(d) \/ Crash(d)

Next ==
  \/ \E d \in Deployments : StepOf(d)
  \/ \E o \in AllObjects : JobSucceeds(o) \/ JobFails(o)

Spec == Init /\ [][Next]_vars

-----------------------------------------------------------------------------
(* Properties.                                                             *)

\* Types of the variables. Nothing but indexes is built by jobs, and none that
\* is being built has failed or is gone.
TypeOK ==
  /\ objects \subseteq AllObjects
  /\ building \subseteq Indexes \cap objects /\ failed \subseteq Indexes \ building
  /\ history \subseteq Migrations /\ astray \subseteq Migrations
  /\ pc \in [Deployments -> {"idle", "running"}]
  /\ todo \in [Deployments -> SUBSET Migrations]
  /\ later \in [Deployments -> SUBSET Migrations]
  /\ down \in [Deployments -> BOOLEAN]
  /\ retries \in [Deployments -> 0..MaxRetries]
  /\ \A d \in Deployments : \A i \in DOMAIN script[d] :
       script[d][i].kind \in {"add", "drop", "insert", "delete", "insertRow", "deleteRow"} \cup IfNotExists
  /\ runs \in 0..MaxRuns /\ faults \in 0..MaxFaults
  /\ overlapped \in BOOLEAN /\ reverted \in BOOLEAN

\* The first k of these commands leave o behind: one makes it, none later takes it.
Leaves(commands, k, o) ==
  \E i \in 1..k : Makes(commands[i], o) /\ \A j \in (i + 1)..k : ~Takes(commands[j], o)

\* What there is after these migrations, in their order.
SchemaOf(ms) ==
  {o \in AllObjects : \E m \in ms :
     /\ Leaves(Up[m], Len(Up[m]), o)
     /\ \A n \in ms : n > m => \A j \in DOMAIN Up[n] : ~Takes(Up[n][j], o)}

\* While deployments take turns and none was interrupted within a migration,
\* the database is what the history says: nothing left over, and nothing missing
\* but an index whose job failed (or rows: reverting a DROP TABLE brings the
\* table back, not what was in it). An index is there, built or being built.
HistoryIsSchema ==
  ~overlapped /\ astray = {} =>
    /\ objects \cup failed \subseteq SchemaOf(history)
    /\ SchemaOf(history) \ objects \subseteq failed \cup IF reverted THEN Rows ELSE {}

\* What a recorded migration made, and none since began to drop, is there, but
\* for an index whose job failed; also when two deployments apply the same
\* migrations at once.
RecordedIsThere ==
  ~reverted =>
    \A m \in history : \A i \in DOMAIN Up[m] :
      \/ Up[m][i].kind = "drop"
      \/ Up[m][i].object \in objects \cup failed
      \/ \E n \in history \cup astray : \E j \in DOMAIN Up[n] :
           Up[n][j].kind = "drop" /\ Up[m][i].object \in {Up[n][j].object} \cup PartsOf(Up[n][j].object)

\* "a migration can be safely re-run after fixing a failure": wherever a
\* migration that only creates was interrupted, applying it again never meets a
\* command that fails for what is there already or is not there yet.
CanBeRerun ==
  ~overlapped =>
    \A d \in Deployments :
      LET c == Head(script[d])
      IN script[d] # <<>> /\ c.kind # "insertRow" /\ ~down[d] =>
           \A m \in astray :
             /\ astray = {m}
             /\ \A i \in DOMAIN Up[m] : Up[m][i].kind \in Creates
             => Executable(c)

\* "already-applied statements are skipped safely": what a command of a
\* migration finds there already is as the command would have made it.
SkippedIsApplied ==
  \A d \in Deployments :
    LET c == Head(script[d])
    IN script[d] # <<>> /\ c.kind \in IfNotExists /\ c.object \in objects => c.object \notin failed

-----------------------------------------------------------------------------
(* What theorems assume of the migrations.                                 *)

Below(m) == {n \in Migrations : n < m}

\* One of the first k of these commands makes or takes o.
Touches(commands, k, o) == \E i \in 1..k : Makes(commands[i], o) \/ Takes(commands[i], o)

\* What there is after these commands, out of what there was before.
AfterAll(commands, before) ==
  {o \in AllObjects : \/ Leaves(commands, Len(commands), o)
                      \/ o \in before /\ ~Touches(commands, Len(commands), o)}

\* Reverting a migration undoes it: what comes back is what was there before
\* the migration, all but rows.
DownUndoesUp ==
  \A m \in Migrations :
    LET after == AfterAll(Down(m), SchemaOf(Below(m) \cup {m}))
    IN after \subseteq SchemaOf(Below(m)) /\ SchemaOf(Below(m)) \ after \subseteq Rows

\* What a migration that only creates adds to was created before: earlier in it,
\* or by the migrations before it.
ContainersFirst ==
  \A m \in Migrations :
    (\A i \in DOMAIN Up[m] : Up[m][i].kind \in Creates) =>
      \A i \in DOMAIN Up[m] : \A o \in Up[m][i].within :
        \/ \E j \in 1..(i - 1) : Up[m][j].object = o
        \/ /\ o \in SchemaOf(Below(m)) \ Rows
           /\ \A j \in DOMAIN Up[m] : Up[m][j].object # o
=============================================================================
