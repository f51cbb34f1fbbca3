--------------------------- MODULE AerichMigrations ---------------------------
(***************************************************************************)
(* Aerich as aurora_dsql_tortoise patches it: upgrade and downgrade run    *)
(* the statements of a migration one by one, with no transaction around    *)
(* them, and then write or delete the migration's row                      *)
(* (python/tortoise-orm/aurora_dsql_tortoise/aerich/patch.py).             *)
(*                                                                         *)
(* A migration is known by its number. Its file is "<number>_<name>.py",   *)
(* and rows come back in the order of the files' names.                    *)
(***************************************************************************)
EXTENDS Integers, Sequences

CONSTANTS
  Versions,      \* the numbers of the migrations
  UpgradeSql,    \* what upgrade() of each migration returns, in statements
  DowngradeSql,  \* and what downgrade() does
  MaxCommands,   \* bound: how often aerich is started
  MaxFaults      \* bound: crashes, failed statements and lost answers

ObjectsOf(v) == {UpgradeSql[v][i].object : i \in DOMAIN UpgradeSql[v]}
AllObjects   == UNION {ObjectsOf(v) : v \in Versions}

\* A statement is about an object, possibly part of others. Aerich writes some
\* so that a second execution does no harm. validate is ALTER TABLE ASYNC.
Statements == [kind : {"add", "addIfMissing", "validate", "drop", "dropIfExists"},
               object : AllObjects, within : SUBSET AllObjects]

ASSUME AerichAssumption ==
  /\ Versions \subseteq Nat
  /\ UpgradeSql \in [Versions -> Seq(Statements)]
  /\ DowngradeSql \in [Versions -> Seq(Statements)]
  /\ MaxCommands \in Nat /\ MaxFaults \in Nat

VARIABLES
  files,     \* migrations whose file is there
  rows,      \* those with a row of the aerich table
  objects,   \* what exists in the database
  job,       \* of each object: the job that validates it
  astray,    \* history: migrations begun and not ended, or faked
  commands,
  faults,
  \* The process.
  command,
  fake,
  delete,
  pc,
  todo,      \* downgrade: the versions still to be undone
  version,
  script     \* statements of it still to be executed

database   == <<objects, job>>
invocation == <<commands, command, fake, delete>>
vars == <<files, rows, database, astray, invocation, faults, pc, todo, version, script>>

None == -1

\* What is part of object o, and goes with it.
PartsOf(o) ==
  UNION {{UpgradeSql[v][i].object :
            i \in {j \in DOMAIN UpgradeSql[v] : o \in UpgradeSql[v][j].within}} : v \in Versions}

-----------------------------------------------------------------------------
(* The order of the rows: by version, a string, descending.                *)

Digits[n \in Nat] == IF n < 10 THEN <<n>> ELSE Append(Digits[n \div 10], n % 10)

\* A number's digits, and the "_" after them, which sorts after any digit.
Name(n) == Append(Digits[n], 10)

SortsBefore(v, w) ==
  \E i \in DOMAIN Name(v) \cap DOMAIN Name(w) :
    Name(v)[i] < Name(w)[i] /\ \A j \in 1..(i - 1) : Name(v)[j] = Name(w)[j]

\* The first of these rows: what get_last_version takes for the newest.
First(vs) == CHOOSE v \in vs : \A w \in vs \ {v} : SortsBefore(w, v)

\* Different names: of any rows one comes first.
ASSUME NamesAssumption ==
  \A vs \in SUBSET Versions : vs # {} => \E v \in vs : \A w \in vs \ {v} : SortsBefore(w, v)

-----------------------------------------------------------------------------
(* What theorems assume of the migrations, beyond the types.               *)

\* The names of the files sort as their numbers do: with as many digits each.
NamesSortAsNumbers ==
  \A v, w \in Versions : v < w => SortsBefore(v, w) /\ ~SortsBefore(w, v)

\* How migrations are written. Upgrading adds objects of the migration's own,
\* each part of nothing that a later migration adds; downgrading drops its own
\* objects, all of them, some with what they are part of.
MigrationsApart ==
  /\ \A v \in Versions : \A i \in DOMAIN UpgradeSql[v] :
       /\ UpgradeSql[v][i].kind \in {"add", "addIfMissing", "validate"}
       /\ UpgradeSql[v][i].within \subseteq UNION {ObjectsOf(w) : w \in {u \in Versions : u <= v}}
  /\ \A v, w \in Versions : v # w => ObjectsOf(v) \cap ObjectsOf(w) = {}
  /\ \A v \in Versions : \A i \in DOMAIN DowngradeSql[v] :
       /\ DowngradeSql[v][i].kind \in {"drop", "dropIfExists"}
       /\ DowngradeSql[v][i].object \in ObjectsOf(v)
  /\ \A v \in Versions : \A o \in ObjectsOf(v) : \E i \in DOMAIN DowngradeSql[v] :
       LET dropped == DowngradeSql[v][i].object IN o = dropped \/ o \in PartsOf(dropped)

-----------------------------------------------------------------------------
Init ==
  /\ files = Versions /\ rows = {} /\ objects = {} /\ astray = {}
  /\ job = [o \in AllObjects |-> "none"]
  /\ commands = 0 /\ faults = 0
  /\ command = "none" /\ fake = FALSE /\ delete = FALSE
  /\ pc = "idle" /\ todo = {} /\ version = None /\ script = <<>>

\* The command is done, or an exception ends it.
Stop == pc' = "idle" /\ todo' = {} /\ version' = None /\ script' = <<>>

Start(c) ==
  /\ pc = "idle" /\ commands < MaxCommands
  /\ commands' = commands + 1 /\ command' = c
  /\ fake' \in BOOLEAN
  /\ UNCHANGED <<files, rows, database, astray, faults, version, script>>

-----------------------------------------------------------------------------
(* _execute_ddl.                                                           *)

\* Statement s can be executed: its containers exist, and it does not add
\* what is there or drop what is not.
Executable(s) ==
  /\ s.within \subseteq objects
  /\ s.kind = "add" => s.object \notin objects
  /\ s.kind \in {"drop", "validate"} => s.object \in objects

Effect(s) ==
  LET gone == {s.object} \cup PartsOf(s.object)
  IN CASE s.kind \in {"add", "addIfMissing"} ->
            objects' = objects \cup {s.object} /\ UNCHANGED job
       [] s.kind \in {"drop", "dropIfExists"} ->
            /\ objects' = objects \ gone
            /\ job' = [o \in AllObjects |-> IF o \in gone THEN "none" ELSE job[o]]
       [] s.kind = "validate" ->
            job' = [job EXCEPT ![s.object] = "running"] /\ UNCHANGED objects

\* Mutant: ALTER TABLE ASYNC is executed like any other statement.
ExecuteStatementOnly ==
  /\ pc = "ddl" /\ script # <<>>
  /\ IF Executable(Head(script))
       THEN Effect(Head(script)) /\ script' = Tail(script) /\ UNCHANGED <<pc, todo, version>>
       ELSE Stop /\ UNCHANGED database
  /\ UNCHANGED <<files, rows, astray, invocation, faults>>

\* execute_script; of ALTER TABLE ASYNC, execute_query gives a job to wait for.
ExecuteStatement ==
  /\ pc = "ddl" /\ script # <<>>
  /\ IF Executable(Head(script))
       THEN /\ Effect(Head(script))
            /\ IF Head(script).kind = "validate"
                 THEN pc' = "wait" /\ UNCHANGED script
                 ELSE script' = Tail(script) /\ UNCHANGED pc
            /\ UNCHANGED <<todo, version>>
       ELSE Stop /\ UNCHANGED database
  /\ UNCHANGED <<files, rows, astray, invocation, faults>>

\* CALL sys.wait_for_job: an exception unless the job succeeded.
WaitForJob ==
  /\ pc = "wait" /\ job[Head(script).object] # "running"
  /\ IF job[Head(script).object] = "succeeded"
       THEN pc' = "ddl" /\ script' = Tail(script) /\ UNCHANGED <<todo, version>>
       ELSE Stop
  /\ UNCHANGED <<files, rows, database, astray, invocation, faults>>

\* The job is the database's, and fails when a row breaks the constraint.
JobEnds(o) ==
  /\ job[o] = "running"
  /\ \E outcome \in {"succeeded", "failed"} : job' = [job EXCEPT ![o] = outcome]
  /\ UNCHANGED <<files, rows, objects, astray, invocation, faults, pc, todo, version, script>>

-----------------------------------------------------------------------------
(* upgrade: Aerich calls _upgrade for every file without a row, in the     *)
(* order of the numbers.                                                   *)

Pending == {v \in files : v \notin rows}

StartUpgrade ==
  /\ Start("upgrade") /\ delete' = FALSE
  /\ pc' = "pick" /\ todo' = {}

\* Mutant: the newest file first.
LastPending == CHOOSE v \in Pending : \A w \in Pending : w <= v

NextPending == CHOOSE v \in Pending : \A w \in Pending : v <= w

Upgrade ==
  /\ pc = "pick" /\ command = "upgrade"
  /\ IF Pending = {} THEN Stop /\ UNCHANGED astray
     ELSE /\ version' = NextPending /\ pc' = "ddl" /\ UNCHANGED todo
          /\ script' = IF fake THEN <<>> ELSE UpgradeSql[NextPending]
          /\ astray' = astray \cup {NextPending}
  /\ UNCHANGED <<files, rows, database, invocation, faults>>

\* Mutant: the row gets the number of the migration before.
CreateRowOfPrevious ==
  /\ pc = "ddl" /\ script = <<>> /\ command = "upgrade"
  /\ rows' = rows \cup {version - 1}
  /\ astray' = IF fake THEN astray ELSE astray \ {version}
  /\ pc' = "pick" /\ version' = None
  /\ UNCHANGED <<files, database, invocation, faults, todo, script>>

CreateRow ==
  /\ pc = "ddl" /\ script = <<>> /\ command = "upgrade"
  /\ rows' = rows \cup {version}
  /\ astray' = IF fake THEN astray ELSE astray \ {version}
  /\ pc' = "pick" /\ version' = None
  /\ UNCHANGED <<files, database, invocation, faults, todo, script>>

-----------------------------------------------------------------------------
(* downgrade to version n, inclusive, or (-1) of the newest.               *)

StartDowngrade(n) ==
  /\ Start("downgrade") /\ delete' \in BOOLEAN
  /\ IF n = None
       THEN rows # {} /\ todo' = {First(rows)}
       ELSE n \in rows /\ todo' = {v \in rows : v >= n}
  /\ pc' = "pick"

\* Mutant: the file is removed as soon as it is loaded.
DowngradeUnlinksFirst ==
  /\ pc = "pick" /\ command = "downgrade"
  /\ IF todo = {} \/ DowngradeSql[First(todo)] = <<>> THEN Stop /\ UNCHANGED <<astray, files>>
     ELSE /\ version' = First(todo) /\ todo' = todo \ {First(todo)} /\ pc' = "ddl"
          /\ script' = IF fake THEN <<>> ELSE DowngradeSql[First(todo)]
          /\ astray' = astray \cup {First(todo)}
          /\ files' = IF delete THEN files \ {First(todo)} ELSE files
  /\ UNCHANGED <<rows, database, invocation, faults>>

\* The versions in the order of their rows; an error without anything to undo.
Downgrade ==
  /\ pc = "pick" /\ command = "downgrade"
  /\ IF todo = {} \/ DowngradeSql[First(todo)] = <<>> THEN Stop /\ UNCHANGED astray
     ELSE /\ version' = First(todo) /\ todo' = todo \ {First(todo)} /\ pc' = "ddl"
          /\ script' = IF fake THEN <<>> ELSE DowngradeSql[First(todo)]
          /\ astray' = astray \cup {First(todo)}
  /\ UNCHANGED <<files, rows, database, invocation, faults>>

DeleteRow ==
  /\ pc = "ddl" /\ script = <<>> /\ command = "downgrade"
  /\ rows' = rows \ {version}
  /\ astray' = IF fake THEN astray ELSE astray \ {version}
  /\ pc' = IF delete THEN "unlink" ELSE "pick"
  /\ UNCHANGED <<files, database, invocation, faults, todo, version, script>>

Unlink ==
  /\ pc = "unlink"
  /\ files' = files \ {version}
  /\ pc' = "pick"
  /\ UNCHANGED <<rows, database, astray, invocation, faults, todo, version, script>>

-----------------------------------------------------------------------------
\* The process is killed, or a statement fails, or its answer is lost. What
\* was executed stays.
Abort ==
  /\ pc # "idle" /\ faults < MaxFaults
  /\ faults' = faults + 1 /\ Stop
  /\ UNCHANGED <<files, rows, database, astray, invocation>>

Next ==
  \/ StartUpgrade \/ Upgrade \/ CreateRow
  \/ \E n \in Versions \cup {None} : StartDowngrade(n)
  \/ Downgrade \/ DeleteRow \/ Unlink
  \/ ExecuteStatement \/ WaitForJob \/ \E o \in AllObjects : JobEnds(o)
  \/ Abort

Spec == Init /\ [][Next]_vars

-----------------------------------------------------------------------------
(* Properties.                                                             *)

\* Types of the variables.
TypeOK ==
  /\ files \subseteq Versions /\ rows \subseteq Versions /\ astray \subseteq Versions
  /\ objects \subseteq AllObjects
  /\ job \in [AllObjects -> {"none", "running", "succeeded", "failed"}]
  /\ commands \in 0..MaxCommands /\ faults \in 0..MaxFaults
  /\ command \in {"none", "upgrade", "downgrade"}
  /\ fake \in BOOLEAN /\ delete \in BOOLEAN
  /\ pc \in {"idle", "pick", "ddl", "wait", "unlink"}
  /\ todo \subseteq Versions /\ version \in Versions \cup {None}
  /\ pc \in {"ddl", "wait", "unlink"} => version \in Versions

\* A migration with a row keeps its file, which alone can undo it: wherever
\* downgrade --delete is interrupted, the row is gone before the file.
RecordedHasFile == rows \subseteq files

\* No migration is recorded above one that is not: upgrades run upwards and
\* downgrades undo the newest first, interrupted or not.
RecordsArePrefix ==
  \A v \in rows : \A w \in files : w < v => w \in rows

\* A migration with a row is in the database, every statement and with its
\* constraints validated ("waits for the validation job before recording the
\* migration as complete"); one without a row left nothing in it. Excepted are
\* migrations faked, and those a command began and did not end.
RecordsMatchSchema ==
  \A v \in Versions \ astray :
    IF v \in rows
    THEN \A i \in DOMAIN UpgradeSql[v] :
           /\ UpgradeSql[v][i].object \in objects
           /\ UpgradeSql[v][i].kind = "validate" => job[UpgradeSql[v][i].object] = "succeeded"
    ELSE ObjectsOf(v) \cap objects = {}
=============================================================================
