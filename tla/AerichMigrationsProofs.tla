------------------------ MODULE AerichMigrationsProofs ------------------------
(***************************************************************************)
(* Proofs about AerichMigrations: its types, that a recorded migration     *)
(* keeps its file, that records are a prefix wherever the names of the     *)
(* files sort as their numbers do, and that they then say what is in the   *)
(* database.                                                               *)
(***************************************************************************)
EXTENDS AerichMigrations, WellFoundedInduction, TLAPS

-----------------------------------------------------------------------------
(* Which migration is next.                                                *)

\* Of some versions one is the smallest.
LEMMA SmallestVersion ==
  ASSUME NEW vs, vs \subseteq Versions, vs # {}
  PROVE  \E v \in vs : \A w \in vs : v <= w
<1> DEFINE Less == OpToRel(<, Nat)
<1>1. vs \subseteq Nat
  BY AerichAssumption
<1>2. IsWellFoundedOn(Less, Nat)
  BY NatLessThanWellFounded
<1>3. \A v, w \in Nat : w < v => <<w, v>> \in Less
  BY DEF OpToRel
<1> HIDE DEF Less
<1>4. \E v \in vs : \A w \in vs : ~(<<w, v>> \in Less)
  BY <1>1, <1>2, WFMin, Zenon
<1>5. \A v, w \in Nat : ~(w < v) => v <= w
  OBVIOUS
<1>6. QED
  BY <1>1, <1>3, <1>4, <1>5, Zenon

\* upgrade takes the smallest of the files without a row.
LEMMA NextPendingIsSmallest ==
  ASSUME files \subseteq Versions, Pending # {}
  PROVE  NextPending \in Pending /\ \A w \in Pending : NextPending <= w
<1>1. Pending \subseteq Versions
  BY DEF Pending
<1>2. \E v \in Pending : \A w \in Pending : v <= w
  BY <1>1, SmallestVersion
<1>3. QED
  BY <1>2 DEF NextPending

\* downgrade takes the one whose row comes first.
LEMMA FirstIsFirst ==
  ASSUME NEW vs, vs \subseteq Versions, vs # {}
  PROVE  First(vs) \in vs /\ \A w \in vs \ {First(vs)} : SortsBefore(w, First(vs))
<1>1. \E v \in vs : \A w \in vs \ {v} : SortsBefore(w, v)
  BY NamesAssumption
<1>2. QED
  BY <1>1 DEF First

-----------------------------------------------------------------------------
(* Types.                                                                  *)

\* What TypeOK does not say: statements are executed, and one is while its job
\* is waited for.
TypeInv ==
  /\ TypeOK
  /\ script \in Seq(Statements)
  /\ pc = "wait" => script # <<>>

LEMMA StopType ==
  ASSUME Stop
  PROVE  /\ pc' = "idle" /\ todo' = {} /\ version' = None /\ script' \in Seq(Statements)
BY DEF Stop

LEMMA EmptyScript == <<>> \in Seq(Statements)
OBVIOUS

LEMMA EffectType ==
  ASSUME TypeInv, NEW s \in Statements, Effect(s)
  PROVE  /\ objects' \subseteq AllObjects
         /\ job' \in [AllObjects -> {"none", "running", "succeeded", "failed"}]
<1> DEFINE gone == {s.object} \cup PartsOf(s.object)
<1>0. /\ objects \subseteq AllObjects
      /\ job \in [AllObjects -> {"none", "running", "succeeded", "failed"}]
      /\ s.object \in AllObjects
  BY DEF TypeInv, TypeOK, Statements
<1>1. CASE s.kind \in {"add", "addIfMissing"}
  BY <1>0, <1>1 DEF Effect
<1>2. CASE s.kind \in {"drop", "dropIfExists"}
  <2>1. /\ objects' = objects \ gone
        /\ job' = [o \in AllObjects |-> IF o \in gone THEN "none" ELSE job[o]]
    BY <1>2 DEF Effect
  <2> HIDE DEF gone
  <2>2. QED
    BY <1>0, <2>1
<1>3. CASE s.kind = "validate"
  BY <1>0, <1>3 DEF Effect
<1>4. QED
  BY <1>1, <1>2, <1>3 DEF Statements

LEMMA StepType ==
  ASSUME TypeInv, Next
  PROVE  TypeInv'
<1> USE AerichAssumption DEF TypeInv, TypeOK, database, invocation, None
<1>1. CASE StartUpgrade
  <2>1. fake' \in BOOLEAN /\ delete' \in BOOLEAN
    BY <1>1, Zenon DEF StartUpgrade, Start
  <2>2. commands' \in 0..MaxCommands /\ faults' \in 0..MaxFaults /\ script' \in Seq(Statements)
    BY <1>1 DEF StartUpgrade, Start
  <2>3. QED
    BY <1>1, <2>1, <2>2 DEF StartUpgrade, Start
<1>2. CASE Upgrade
  <2>1. CASE Pending = {}
    BY <1>2, <2>1, StopType DEF Upgrade
  <2>2. CASE Pending # {}
    <3>1. NextPending \in Versions
      BY <2>2, NextPendingIsSmallest DEF Pending
    <3>2. \A v \in Versions : UpgradeSql[v] \in Seq(Statements)
      OBVIOUS
    <3>3. script' \in {<<>>, UpgradeSql[NextPending]}
      BY <1>2, <2>2 DEF Upgrade
    <3>4. script' \in Seq(Statements)
      BY <3>1, <3>2, <3>3, EmptyScript
    <3>5. QED
      BY <1>2, <2>2, <3>1, <3>4 DEF Upgrade
  <2>3. QED
    BY <2>1, <2>2
<1>3. CASE CreateRow
  BY <1>3 DEF CreateRow
<1>4. ASSUME NEW n \in Versions \cup {None}, StartDowngrade(n)
      PROVE  TypeInv'
  <2>1. todo' \subseteq Versions
    BY <1>4, FirstIsFirst DEF StartDowngrade
  <2>2. QED
    BY <1>4, <2>1 DEF StartDowngrade, Start
<1>5. CASE Downgrade
  <2>1. CASE todo = {} \/ DowngradeSql[First(todo)] = <<>>
    BY <1>5, <2>1, StopType DEF Downgrade
  <2>2. CASE ~(todo = {} \/ DowngradeSql[First(todo)] = <<>>)
    <3>1. First(todo) \in Versions
      BY <2>2, FirstIsFirst
    <3>2. \A v \in Versions : DowngradeSql[v] \in Seq(Statements)
      OBVIOUS
    <3>3. script' \in {<<>>, DowngradeSql[First(todo)]}
      BY <1>5, <2>2 DEF Downgrade
    <3>4. script' \in Seq(Statements)
      BY <3>1, <3>2, <3>3, EmptyScript
    <3>5. QED
      BY <1>5, <2>2, <3>1, <3>4 DEF Downgrade
  <2>3. QED
    BY <2>1, <2>2
<1>6. CASE DeleteRow
  BY <1>6 DEF DeleteRow
<1>7. CASE Unlink
  BY <1>7 DEF Unlink
<1>8. CASE ExecuteStatement
  <2>1. Head(script) \in Statements /\ Tail(script) \in Seq(Statements)
    BY <1>8 DEF ExecuteStatement
  <2>2. CASE Executable(Head(script))
    <3>1. /\ objects' \subseteq AllObjects
          /\ job' \in [AllObjects -> {"none", "running", "succeeded", "failed"}]
      BY <1>8, <2>1, <2>2, EffectType DEF ExecuteStatement
    <3>2. /\ pc' \in {"ddl", "wait"} /\ script' \in Seq(Statements)
          /\ pc' = "wait" => script' # <<>>
          /\ UNCHANGED <<todo, version>> /\ version \in Versions
      BY <1>8, <2>1, <2>2 DEF ExecuteStatement
    <3>3. QED
      BY <1>8, <3>1, <3>2 DEF ExecuteStatement
  <2>3. CASE ~Executable(Head(script))
    BY <1>8, <2>3, StopType DEF ExecuteStatement
  <2>4. QED
    BY <2>2, <2>3
<1>9. CASE WaitForJob
  <2>1. CASE job[Head(script).object] = "succeeded"
    <3>1. script' \in Seq(Statements)
      <4>1. script # <<>> /\ script \in Seq(Statements) /\ script' = Tail(script)
        BY <1>9, <2>1 DEF WaitForJob
      <4>2. QED
        BY <4>1
    <3>2. version \in Versions
      BY <1>9 DEF WaitForJob
    <3>3. QED
      BY <1>9, <2>1, <3>1, <3>2 DEF WaitForJob
  <2>2. CASE job[Head(script).object] # "succeeded"
    BY <1>9, <2>2, StopType DEF WaitForJob
  <2>3. QED
    BY <2>1, <2>2
<1>10. ASSUME NEW o \in AllObjects, JobEnds(o)
       PROVE  TypeInv'
  <2>1. job' \in [AllObjects -> {"none", "running", "succeeded", "failed"}]
    BY <1>10 DEF JobEnds
  <2>2. QED
    BY <1>10, <2>1 DEF JobEnds
<1>11. CASE Abort
  BY <1>11, StopType DEF Abort
<1>12. QED
  BY <1>1, <1>2, <1>3, <1>4, <1>5, <1>6, <1>7, <1>8, <1>9, <1>10, <1>11 DEF Next

LEMMA Types == Spec => []TypeInv
<1>1. ASSUME Init
      PROVE  TypeInv
  <2>1. job \in [AllObjects -> {"none", "running", "succeeded", "failed"}]
    BY <1>1 DEF Init
  <2>2. commands \in 0..MaxCommands /\ faults \in 0..MaxFaults /\ script \in Seq(Statements)
    BY <1>1, AerichAssumption DEF Init
  <2>3. QED
    BY <1>1, <2>1, <2>2 DEF Init, TypeInv, TypeOK
<1>2. TypeInv /\ UNCHANGED vars => TypeInv'
  BY DEF TypeInv, TypeOK, vars, database, invocation
<1>3. TypeInv /\ [Next]_vars => TypeInv'
  BY <1>2, StepType
<1>4. QED
  BY <1>1, <1>3, PTL DEF Spec

\* Every variable keeps its type: upgrade and downgrade only ever hold a
\* version that there is (aerich/patch.py).
THEOREM TypeCorrect == Spec => []TypeOK
<1>1. TypeInv => TypeOK
  BY DEF TypeInv
<1>2. QED
  BY <1>1, Types, PTL

-----------------------------------------------------------------------------
(* Rows and files.                                                         *)

\* Inductive: a version whose file is to be removed has no row any more, and
\* one that is to be recorded has its file.
FileInv ==
  /\ rows \subseteq files
  /\ pc = "unlink" => version \notin rows
  /\ pc \in {"ddl", "wait"} /\ command = "upgrade" => version \in files

LEMMA StepFile ==
  ASSUME TypeInv, FileInv, Next
  PROVE  FileInv'
<1> USE DEF FileInv, database, invocation
<1>1. CASE StartUpgrade
  BY <1>1 DEF StartUpgrade, Start
<1>2. CASE Upgrade
  <2>1. CASE Pending = {}
    BY <1>2, <2>1, StopType DEF Upgrade
  <2>2. CASE Pending # {}
    <3>1. files \subseteq Versions
      BY DEF TypeInv, TypeOK
    <3>2. NextPending \in files
      BY <2>2, <3>1, NextPendingIsSmallest DEF Pending
    <3>3. QED
      BY <1>2, <2>2, <3>2 DEF Upgrade
  <2>3. QED
    BY <2>1, <2>2
<1>3. CASE CreateRow
  BY <1>3 DEF CreateRow
<1>4. ASSUME NEW n \in Versions \cup {None}, StartDowngrade(n)
      PROVE  FileInv'
  BY <1>4 DEF StartDowngrade, Start
<1>5. CASE Downgrade
  BY <1>5, StopType DEF Downgrade
<1>6. CASE DeleteRow
  BY <1>6 DEF DeleteRow
<1>7. CASE Unlink
  BY <1>7 DEF Unlink
<1>8. CASE ExecuteStatement
  BY <1>8, StopType DEF ExecuteStatement
<1>9. CASE WaitForJob
  BY <1>9, StopType DEF WaitForJob
<1>10. ASSUME NEW o \in AllObjects, JobEnds(o)
       PROVE  FileInv'
  BY <1>10 DEF JobEnds
<1>11. CASE Abort
  BY <1>11, StopType DEF Abort
<1>12. QED
  BY <1>1, <1>2, <1>3, <1>4, <1>5, <1>6, <1>7, <1>8, <1>9, <1>10, <1>11 DEF Next

LEMMA FilesKept == Spec => []FileInv
<1>1. Init => FileInv
  BY DEF Init, FileInv
<1>2. FileInv /\ UNCHANGED vars => FileInv'
  BY DEF FileInv, vars, database, invocation
<1>3. TypeInv /\ FileInv /\ [Next]_vars => FileInv'
  BY <1>2, StepFile
<1>4. QED
  BY <1>1, <1>3, Types, PTL DEF Spec

\* A migration with a row keeps its file, whatever interrupts downgrade
\* --delete: _patched_downgrade deletes the row before it removes the file.
THEOREM RecordedMigrationsKeepTheirFiles == Spec => []RecordedHasFile
<1>1. FileInv => RecordedHasFile
  BY DEF FileInv, RecordedHasFile
<1>2. QED
  BY <1>1, FilesKept, PTL

-----------------------------------------------------------------------------
(* Records are a prefix.                                                   *)

\* Inductive: what upgrade is about to record comes after every file without a
\* row; what downgrade is about to undo is the newest row, and what it has left
\* to undo are the newest rows but for that one.
PrefixInv ==
  /\ RecordsArePrefix
  /\ pc \in {"ddl", "wait"} /\ command = "upgrade" =>
       \A w \in files : w < version => w \in rows
  /\ pc \in {"ddl", "wait"} /\ command = "downgrade" => \A w \in rows : w <= version
  /\ pc \in {"pick", "unlink"} /\ command = "downgrade" =>
       \A v \in todo : \A w \in rows \ todo : w < v
  /\ pc \in {"ddl", "wait"} /\ command = "downgrade" =>
       \A v \in todo : \A w \in rows \ (todo \cup {version}) : w < v

\* The row that comes first has the largest number.
LEMMA FirstIsNewest ==
  ASSUME NamesSortAsNumbers, NEW vs, vs \subseteq Versions, vs # {}
  PROVE  First(vs) \in vs /\ \A w \in vs : w # First(vs) => w < First(vs)
<1>1. First(vs) \in vs /\ \A w \in vs \ {First(vs)} : SortsBefore(w, First(vs))
  BY FirstIsFirst
<1>2. ASSUME NEW w \in vs, w # First(vs)
      PROVE  w < First(vs)
  <2>1. w \in Nat /\ First(vs) \in Nat /\ w \in Versions /\ First(vs) \in Versions
    BY <1>1, AerichAssumption
  <2>2. ~(First(vs) < w)
    BY <1>1, <1>2, <2>1 DEF NamesSortAsNumbers
  <2>3. QED
    BY <1>2, <2>1, <2>2
<1>3. QED
  BY <1>1, <1>2

LEMMA StepPrefix ==
  ASSUME NamesSortAsNumbers, TypeInv, FileInv, PrefixInv, Next
  PROVE  PrefixInv'
<1>0. /\ Versions \subseteq Nat /\ files \subseteq Versions /\ rows \subseteq Versions
      /\ todo \subseteq Versions /\ rows \subseteq files
      /\ pc \in {"ddl", "wait", "unlink"} => version \in Versions
  BY AerichAssumption DEF TypeInv, TypeOK, FileInv
<1> USE DEF PrefixInv, RecordsArePrefix, database, invocation
<1>1. CASE StartUpgrade
  BY <1>1 DEF StartUpgrade, Start
<1>2. CASE Upgrade
  <2>1. CASE Pending = {}
    BY <1>2, <2>1, StopType DEF Upgrade
  <2>2. CASE Pending # {}
    <3>1. NextPending \in Pending /\ \A w \in Pending : NextPending <= w
      BY <1>0, <2>2, NextPendingIsSmallest
    <3>2. \A w \in files : w < NextPending => w \in rows
      BY <1>0, <3>1 DEF Pending
    <3>3. QED
      BY <1>2, <2>2, <3>2 DEF Upgrade
  <2>3. QED
    BY <2>1, <2>2
<1>3. CASE CreateRow
  <2>1. /\ rows' = rows \cup {version} /\ files' = files /\ pc' = "pick"
        /\ \A w \in files : w < version => w \in rows
        /\ command' = "upgrade"
    BY <1>3 DEF CreateRow
  <2>2. QED
    BY <2>1
<1>4. ASSUME NEW n \in Versions \cup {None}, StartDowngrade(n)
      PROVE  PrefixInv'
  <2>1. UNCHANGED <<rows, files>> /\ pc' = "pick"
    BY <1>4 DEF StartDowngrade, Start
  <2>2. CASE n = None
    <3>1. rows # {} /\ todo' = {First(rows)}
      BY <1>4, <2>2 DEF StartDowngrade
    <3>2. \A w \in rows : w # First(rows) => w < First(rows)
      BY <1>0, <3>1, FirstIsNewest
    <3>3. QED
      BY <2>1, <3>1, <3>2
  <2>3. CASE n # None
    <3>1. todo' = {v \in rows : v >= n} /\ n \in Nat
      BY <1>0, <1>4, <2>3 DEF StartDowngrade
    <3>2. \A v \in todo' : \A w \in rows \ todo' : w < v
      BY <1>0, <3>1
    <3>3. QED
      BY <2>1, <3>2
  <2>4. QED
    BY <2>2, <2>3
<1>5. CASE Downgrade
  <2>1. CASE todo = {} \/ DowngradeSql[First(todo)] = <<>>
    BY <1>5, <2>1, StopType DEF Downgrade
  <2>2. CASE ~(todo = {} \/ DowngradeSql[First(todo)] = <<>>)
    <3>1. /\ version' = First(todo) /\ todo' = todo \ {First(todo)} /\ pc' = "ddl"
          /\ UNCHANGED <<rows, files, command>> /\ command = "downgrade" /\ pc = "pick"
      BY <1>5, <2>2 DEF Downgrade
    <3>2. First(todo) \in todo /\ \A w \in todo : w # First(todo) => w < First(todo)
      BY <1>0, <2>2, FirstIsNewest
    <3>3. \A v \in todo : \A w \in rows \ todo : w < v
      BY <3>1
    <3>4. ASSUME NEW w \in rows
          PROVE  w <= First(todo)
      <4>1. w = First(todo) \/ w < First(todo)
        BY <3>2, <3>3
      <4>2. w \in Nat /\ First(todo) \in Nat
        BY <1>0, <3>2
      <4>3. QED
        BY <4>1, <4>2
    <3>5. \A v \in todo \ {First(todo)} :
            \A w \in rows \ ((todo \ {First(todo)}) \cup {First(todo)}) : w < v
      BY <3>3
    <3>6. QED
      BY <3>1, <3>4, <3>5
  <2>3. QED
    BY <2>1, <2>2
<1>6. CASE DeleteRow
  <2>1. /\ rows' = rows \ {version} /\ files' = files /\ pc' \in {"unlink", "pick"}
        /\ UNCHANGED <<todo, version, command>>
        /\ \A w \in rows : w <= version
        /\ \A v \in todo : \A w \in rows \ (todo \cup {version}) : w < v
        /\ command = "downgrade" /\ version \in Versions
    BY <1>0, <1>6 DEF DeleteRow
  <2>2. RecordsArePrefix'
    BY <1>0, <2>1
  <2>3. QED
    BY <2>1, <2>2
<1>7. CASE Unlink
  BY <1>7 DEF Unlink
<1>8. CASE ExecuteStatement
  <2>1. CASE Executable(Head(script))
    BY <1>8, <2>1 DEF ExecuteStatement
  <2>2. CASE ~Executable(Head(script))
    BY <1>8, <2>2, StopType DEF ExecuteStatement
  <2>3. QED
    BY <2>1, <2>2
<1>9. CASE WaitForJob
  BY <1>9, StopType DEF WaitForJob
<1>10. ASSUME NEW o \in AllObjects, JobEnds(o)
       PROVE  PrefixInv'
  BY <1>10 DEF JobEnds
<1>11. CASE Abort
  BY <1>11, StopType DEF Abort
<1>12. QED
  BY <1>1, <1>2, <1>3, <1>4, <1>5, <1>6, <1>7, <1>8, <1>9, <1>10, <1>11 DEF Next

\* Where names sort as numbers, no migration is ever recorded above one that is
\* not, whatever was interrupted: upgrade goes up and _patched_downgrade down.
\* Where they do not, AerichTenthMigration shows how it fails.
THEOREM RecordedInOrder ==
  ASSUME NamesSortAsNumbers
  PROVE  Spec => []RecordsArePrefix
<1>1. Init => PrefixInv
  BY DEF Init, PrefixInv, RecordsArePrefix
<1>2. PrefixInv /\ UNCHANGED vars => PrefixInv'
  BY DEF PrefixInv, RecordsArePrefix, vars, database, invocation
<1>3. TypeInv /\ FileInv /\ PrefixInv /\ [Next]_vars => PrefixInv'
  BY <1>2, StepPrefix
<1>4. PrefixInv => RecordsArePrefix
  BY DEF PrefixInv
<1>5. QED
  BY <1>1, <1>3, <1>4, Types, FilesKept, PTL DEF Spec

-----------------------------------------------------------------------------
(* Rows and the schema.                                                    *)

\* What is recorded of v is so, if v is not astray.
Matches(v) ==
  IF v \in rows
  THEN \A i \in DOMAIN UpgradeSql[v] :
         /\ UpgradeSql[v][i].object \in objects
         /\ UpgradeSql[v][i].kind = "validate" => job[UpgradeSql[v][i].object] = "succeeded"
  ELSE ObjectsOf(v) \cap objects = {}

\* Statement s of an upgrade was executed, and its job waited for unless it is now.
Upgraded(s) ==
  /\ s.object \in objects
  /\ s.kind = "validate" =>
       \/ job[s.object] = "succeeded"
       \/ pc = "wait" /\ s.object = Head(script).object

\* Statement s of a downgrade was.
Downgraded(s) == objects \cap ({s.object} \cup PartsOf(s.object)) = {}

\* The script in hand is what is left of statements, after those of which P.
Left(statements) ==
  /\ Len(script) <= Len(statements)
  /\ \A i \in 1..Len(script) : script[i] = statements[Len(statements) - Len(script) + i]

Begun(statements) == 1..(Len(statements) - Len(script))

\* Inductive: migrations are as recorded; the one in hand is astray, and what
\* its script has left behind holds.
SchemaInv ==
  /\ \A v \in Versions \ astray : Matches(v)
  /\ pc # "idle" => command # "none"
  /\ pc \in {"ddl", "wait"} => version \in astray
  /\ pc = "wait" =>
       ~fake /\ Head(script).kind = "validate" /\ Head(script).object \in objects
  /\ pc = "ddl" /\ fake => script = <<>>
  /\ pc \in {"ddl", "wait"} /\ ~fake /\ command = "upgrade" =>
       /\ Left(UpgradeSql[version])
       /\ \A i \in Begun(UpgradeSql[version]) : Upgraded(UpgradeSql[version][i])
  /\ pc \in {"ddl", "wait"} /\ ~fake /\ command = "downgrade" =>
       /\ Left(DowngradeSql[version])
       /\ \A i \in Begun(DowngradeSql[version]) : Downgraded(DowngradeSql[version][i])

\* The statements of the script in hand are of those a migration is written with.
LEMMA ScriptOfVersion ==
  ASSUME NEW v \in Versions
  PROVE  UpgradeSql[v] \in Seq(Statements) /\ DowngradeSql[v] \in Seq(Statements)
BY AerichAssumption

LEMMA OwnObjects ==
  ASSUME NEW v \in Versions, NEW i \in DOMAIN UpgradeSql[v]
  PROVE  UpgradeSql[v][i].object \in ObjectsOf(v)
BY DEF ObjectsOf

\* Two migrations with no object in common.
LEMMA ApartObjects ==
  ASSUME MigrationsApart, NEW v \in Versions, NEW w \in Versions, v # w,
         NEW o \in ObjectsOf(v)
  PROVE  o \notin ObjectsOf(w)
BY DEF MigrationsApart

\* What is part of an object was added by no earlier migration.
LEMMA PartsAreLater ==
  ASSUME MigrationsApart, NEW v \in Versions, NEW w \in Versions, w < v,
         NEW o \in ObjectsOf(v)
  PROVE  (PartsOf(o) \cup {o}) \cap ObjectsOf(w) = {}
<1>0. Versions \subseteq Nat
  BY AerichAssumption
<1>1. o \notin ObjectsOf(w)
  <2>1. v # w
    BY <1>0
  <2>2. QED
    BY <2>1, ApartObjects
<1>2. SUFFICES ASSUME NEW p \in PartsOf(o), p \in ObjectsOf(w)
               PROVE  FALSE
  BY <1>1
<1>3. PICK u \in Versions : \E j \in DOMAIN UpgradeSql[u] :
                              o \in UpgradeSql[u][j].within /\ p = UpgradeSql[u][j].object
  BY DEF PartsOf
<1>4. PICK j \in DOMAIN UpgradeSql[u] :
             o \in UpgradeSql[u][j].within /\ p = UpgradeSql[u][j].object
  BY <1>3
<1>5. u = w
  BY <1>2, <1>4, OwnObjects DEF MigrationsApart
<1>6. o \in UNION {ObjectsOf(x) : x \in {y \in Versions : y <= w}}
  BY <1>4, <1>5 DEF MigrationsApart
<1>7. PICK x \in Versions : x <= w /\ o \in ObjectsOf(x)
  BY <1>6
<1>8. x = v
  BY <1>7 DEF MigrationsApart
<1>9. QED
  BY <1>0, <1>7, <1>8

\* The head of the script is the first statement not yet executed; without it
\* one more is left behind.
LEMMA NextStatement ==
  ASSUME NEW statements \in Seq(Statements), script \in Seq(Statements), script # <<>>,
         Left(statements)
  PROVE  \E k \in DOMAIN statements :
           /\ Head(script) = statements[k]
           /\ script' = Tail(script) =>
                Left(statements)' /\ Begun(statements)' = Begun(statements) \cup {k}
<1> DEFINE k == Len(statements) - Len(script) + 1
<1>1. Len(script) \in Nat /\ Len(statements) \in Nat /\ Len(script) > 0
  OBVIOUS
<1>2. k \in DOMAIN statements /\ Head(script) = statements[k]
  <2>1. k \in 1..Len(statements) /\ script[1] = statements[k]
    BY <1>1 DEF Left
  <2>2. QED
    BY <2>1
<1>3. ASSUME script' = Tail(script)
      PROVE  Left(statements)' /\ Begun(statements)' = Begun(statements) \cup {k}
  <2>1. Len(script') = Len(script) - 1
    BY <1>1, <1>3
  <2>2. ASSUME NEW i \in 1..Len(script')
        PROVE  script'[i] = statements[Len(statements) - Len(script') + i]
    <3>1. script'[i] = script[i + 1] /\ i + 1 \in 1..Len(script)
      BY <1>1, <1>3, <2>1
    <3>2. script[i + 1] = statements[Len(statements) - Len(script) + (i + 1)]
      BY <3>1 DEF Left
    <3>3. Len(statements) - Len(script) + (i + 1) = Len(statements) - Len(script') + i
      BY <1>1, <2>1
    <3>4. QED
      BY <3>1, <3>2, <3>3
  <2>3. Left(statements)'
    BY <1>1, <2>1, <2>2 DEF Left
  <2>4. Begun(statements)' = Begun(statements) \cup {k}
    BY <1>1, <2>1 DEF Begun, Left
  <2>5. QED
    BY <2>3, <2>4
<1>4. QED
  BY <1>2, <1>3

\* At its beginning nothing of it is left behind, at its end everything.
LEMMA WholeScript ==
  ASSUME NEW statements \in Seq(Statements)
  PROVE  /\ script' = statements => Left(statements)' /\ Begun(statements)' = {}
         /\ script = <<>> => Begun(statements) = DOMAIN statements
BY DEF Left, Begun

\* A statement of an upgrade leaves the other migrations as they are recorded.
LEMMA UpgradeTouchesItsOwn ==
  ASSUME MigrationsApart, TypeInv, NEW u \in Versions, NEW v \in Versions, u # v, Matches(v),
         NEW s \in Statements, s.object \in ObjectsOf(u),
         s.kind \in {"add", "addIfMissing", "validate"}, Effect(s), rows' = rows
  PROVE  Matches(v)'
<1>1. /\ objects \subseteq objects' /\ objects' \subseteq objects \cup {s.object}
      /\ \A o \in AllObjects : o # s.object => job'[o] = job[o]
  <2>1. job \in [AllObjects -> {"none", "running", "succeeded", "failed"}]
    BY DEF TypeInv, TypeOK
  <2>2. QED
    BY <2>1 DEF Effect
<1>2. s.object \notin ObjectsOf(v)
  BY ApartObjects
<1>3. ASSUME v \in rows, NEW i \in DOMAIN UpgradeSql[v]
      PROVE  /\ UpgradeSql[v][i].object \in objects'
             /\ UpgradeSql[v][i].kind = "validate" =>
                  job'[UpgradeSql[v][i].object] = "succeeded"
  <2>1. UpgradeSql[v][i].object \in ObjectsOf(v) /\ ObjectsOf(v) \subseteq AllObjects
    BY OwnObjects DEF AllObjects
  <2>2. QED
    BY <1>1, <1>2, <1>3, <2>1 DEF Matches
<1>4. CASE v \in rows
  BY <1>3, <1>4 DEF Matches
<1>5. CASE v \notin rows
  BY <1>1, <1>2, <1>5 DEF Matches
<1>6. QED
  BY <1>4, <1>5

\* So does one of the downgrade of the newest.
LEMMA DowngradeTouchesNewer ==
  ASSUME MigrationsApart, TypeInv, NEW u \in Versions, NEW v \in Versions, u # v, Matches(v),
         \A w \in rows : w <= u,
         NEW s \in Statements, s.object \in ObjectsOf(u),
         s.kind \in {"drop", "dropIfExists"}, Effect(s), rows' = rows
  PROVE  Matches(v)'
<1> DEFINE gone == {s.object} \cup PartsOf(s.object)
<1>1. objects' = objects \ gone
      /\ job' = [o \in AllObjects |-> IF o \in gone THEN "none" ELSE job[o]]
  BY DEF Effect
<1>2. CASE v \in rows
  <2>1. v < u
    BY <1>2, AerichAssumption
  <2>2. gone \cap ObjectsOf(v) = {}
    BY <2>1, PartsAreLater
  <2> HIDE DEF gone
  <2>3. ASSUME NEW i \in DOMAIN UpgradeSql[v]
        PROVE  /\ UpgradeSql[v][i].object \in objects'
               /\ UpgradeSql[v][i].kind = "validate" =>
                    job'[UpgradeSql[v][i].object] = "succeeded"
    <3>1. UpgradeSql[v][i].object \in ObjectsOf(v) /\ ObjectsOf(v) \subseteq AllObjects
      BY OwnObjects DEF AllObjects
    <3>2. QED
      BY <1>1, <1>2, <2>2, <3>1 DEF Matches
  <2>4. QED
    BY <1>2, <2>3 DEF Matches
<1>3. CASE v \notin rows
  BY <1>1, <1>3 DEF Matches
<1>4. QED
  BY <1>2, <1>3

\* A job that ends is one that runs, and no migration that matches waits for it.
LEMMA JobEndsKeeps ==
  ASSUME TypeInv, NEW o \in AllObjects, JobEnds(o), NEW v \in Versions, Matches(v)
  PROVE  Matches(v)'
<1>1. /\ objects' = objects /\ rows' = rows
      /\ \A p \in AllObjects : job[p] = "succeeded" => job'[p] = "succeeded"
  BY DEF JobEnds, TypeInv, TypeOK
<1>2. \A i \in DOMAIN UpgradeSql[v] : UpgradeSql[v][i].object \in AllObjects
  BY OwnObjects DEF AllObjects
<1>3. QED
  BY <1>1, <1>2 DEF Matches

\* One statement of an upgrade: those before it still hold, and it does, unless
\* its job is now to be waited for.
LEMMA UpgradeStatement ==
  ASSUME MigrationsApart, TypeInv, SchemaInv, ExecuteStatement, Executable(Head(script)),
         command = "upgrade"
  PROVE  SchemaInv'
<1>v. PICK v0 \in Versions : v0 = version
  BY DEF ExecuteStatement, TypeInv, TypeOK
<1> DEFINE U == UpgradeSql[v0]
<1>0. /\ pc = "ddl" /\ script \in Seq(Statements) /\ script # <<>>
      /\ version \in Versions /\ v0 = version
      /\ job \in [AllObjects -> {"none", "running", "succeeded", "failed"}]
  BY <1>v DEF ExecuteStatement, TypeInv, TypeOK
<1>1. /\ ~fake /\ Left(U) /\ \A i \in Begun(U) : Upgraded(U[i])
      /\ version \in astray /\ \A v \in Versions \ astray : Matches(v)
  BY <1>0 DEF SchemaInv
<1>2. U \in Seq(Statements)
  BY <1>0, ScriptOfVersion
<1>3. PICK k \in DOMAIN U :
        /\ Head(script) = U[k]
        /\ script' = Tail(script) => Left(U)' /\ Begun(U)' = Begun(U) \cup {k}
  BY <1>0, <1>1, <1>2, NextStatement
<1> DEFINE s == U[k]
<1>4. /\ s \in Statements /\ s.object \in ObjectsOf(v0)
      /\ s.kind \in {"add", "addIfMissing", "validate"}
  <2>1. s \in Statements
    BY <1>2
  <2>2. s.object \in ObjectsOf(v0)
    BY <1>0, OwnObjects
  <2>3. QED
    BY <1>0, <2>1, <2>2 DEF MigrationsApart
<1>5. /\ UNCHANGED <<rows, astray, fake, command, version>>
      /\ Effect(s)
      /\ IF s.kind = "validate" THEN pc' = "wait" /\ script' = script
         ELSE script' = Tail(script) /\ pc' = pc
  BY <1>3 DEF ExecuteStatement, invocation
<1>6. \A v \in Versions \ astray : Matches(v)'
  <2>1. SUFFICES ASSUME NEW v \in Versions \ astray
                 PROVE  Matches(v)'
    OBVIOUS
  <2>2. v \in Versions /\ v # v0 /\ Matches(v) /\ rows' = rows
    BY <1>0, <1>1, <1>5
  <2> HIDE DEF s
  <2>3. QED
    BY <1>0, <1>4, <1>5, <2>2, UpgradeTouchesItsOwn
<1>7. /\ objects \subseteq objects'
      /\ s.kind = "validate" =>
           job' = [job EXCEPT ![s.object] = "running"] /\ objects' = objects
      /\ s.kind # "validate" => job' = job /\ s.object \in objects'
  BY <1>4, <1>5 DEF Effect
<1>8. s.kind = "validate" => s.object \in objects
  BY <1>3 DEF Executable
<1>9. ASSUME NEW i \in Begun(U)
      PROVE  Upgraded(U[i])'
  <2>1. U[i].object \in AllObjects
    <3>1. Len(script) \in Nat /\ Len(U) \in Nat
      BY <1>0, <1>2
    <3>2. i \in DOMAIN U
      BY <1>2, <3>1 DEF Begun
    <3>3. U[i] \in Statements
      BY <1>2, <3>2
    <3>4. QED
      BY <3>3 DEF Statements
  <2>2. U[i].object \in objects /\ (U[i].kind = "validate" => job[U[i].object] = "succeeded")
    BY <1>0, <1>1 DEF Upgraded
  <2>3. CASE s.kind = "validate"
    <3>1. pc' = "wait" /\ Head(script)' = s
      BY <1>3, <1>5, <2>3
    <3>2. U[i].object # s.object => job'[U[i].object] = job[U[i].object]
      BY <1>0, <1>7, <2>1, <2>3
    <3>3. QED
      BY <1>7, <2>2, <2>3, <3>1, <3>2 DEF Upgraded
  <2>4. CASE s.kind # "validate"
    BY <1>7, <2>2, <2>4 DEF Upgraded
  <2>5. QED
    BY <2>3, <2>4
<1>10. Left(U)' /\ \A i \in Begun(U)' : Upgraded(U[i])'
  <2>1. CASE s.kind = "validate"
    <3>1. script' = script
      BY <1>5, <2>1
    <3>2. Left(U)' /\ Begun(U)' = Begun(U)
      BY <1>1, <1>5, <3>1 DEF Left, Begun
    <3>3. QED
      BY <1>9, <3>2
  <2>2. CASE s.kind # "validate"
    <3>1. Left(U)' /\ Begun(U)' = Begun(U) \cup {k}
      BY <1>3, <1>5, <2>2
    <3>2. Upgraded(U[k])'
      BY <1>3, <1>7, <2>2 DEF Upgraded
    <3>3. QED
      BY <1>9, <3>1, <3>2
  <2>3. QED
    BY <2>1, <2>2
<1>11. /\ pc' \in {"ddl", "wait"}
       /\ pc' = "wait" => Head(script)' = s /\ s.kind = "validate" /\ s.object \in objects'
  BY <1>0, <1>3, <1>5, <1>7, <1>8
<1>12. version' = v0 /\ version = v0
  BY <1>0, <1>5
<1> HIDE DEF s
<1>13. QED
  BY <1>1, <1>5, <1>6, <1>10, <1>11, <1>12 DEF SchemaInv

\* One statement of a downgrade.
LEMMA DowngradeStatement ==
  ASSUME MigrationsApart, TypeInv, PrefixInv, SchemaInv,
         ExecuteStatement, Executable(Head(script)), command = "downgrade"
  PROVE  SchemaInv'
<1>v. PICK v0 \in Versions : v0 = version
  BY DEF ExecuteStatement, TypeInv, TypeOK
<1> DEFINE D == DowngradeSql[v0]
<1>0. /\ pc = "ddl" /\ script \in Seq(Statements) /\ script # <<>>
      /\ version \in Versions /\ v0 = version
  BY <1>v DEF ExecuteStatement, TypeInv, TypeOK
<1>1. /\ ~fake /\ Left(D) /\ \A i \in Begun(D) : Downgraded(D[i])
      /\ version \in astray /\ \A v \in Versions \ astray : Matches(v)
  BY <1>0 DEF SchemaInv
<1>2. D \in Seq(Statements)
  BY <1>0, ScriptOfVersion
<1>3. PICK k \in DOMAIN D :
        /\ Head(script) = D[k]
        /\ script' = Tail(script) => Left(D)' /\ Begun(D)' = Begun(D) \cup {k}
  BY <1>0, <1>1, <1>2, NextStatement
<1> DEFINE s == D[k]
<1>4. /\ s \in Statements /\ s.object \in ObjectsOf(v0)
      /\ s.kind \in {"drop", "dropIfExists"}
  <2>1. s \in Statements
    BY <1>2
  <2>2. QED
    BY <1>0, <2>1 DEF MigrationsApart
<1>5. /\ UNCHANGED <<rows, astray, fake, command, version>>
      /\ Effect(s) /\ script' = Tail(script) /\ pc' = pc
  BY <1>3, <1>4 DEF ExecuteStatement, invocation
<1>6. \A v \in Versions \ astray : Matches(v)'
  <2>1. SUFFICES ASSUME NEW v \in Versions \ astray
                 PROVE  Matches(v)'
    OBVIOUS
  <2>2. v \in Versions /\ v # v0 /\ Matches(v) /\ rows' = rows
    BY <1>0, <1>1, <1>5
  <2>3. \A w \in rows : w <= v0
    BY <1>0 DEF PrefixInv
  <2> HIDE DEF s
  <2>4. QED
    BY <1>0, <1>4, <1>5, <2>2, <2>3, DowngradeTouchesNewer
<1>7. objects' = objects \ ({s.object} \cup PartsOf(s.object))
  BY <1>4, <1>5 DEF Effect
<1>8. \A i \in Begun(D) : Downgraded(D[i])'
  BY <1>1, <1>7 DEF Downgraded
<1>9. Downgraded(D[k])'
  BY <1>3, <1>7 DEF Downgraded
<1>10. Left(D)' /\ \A i \in Begun(D)' : Downgraded(D[i])'
  BY <1>3, <1>5, <1>8, <1>9
<1>11. version' = v0 /\ version = v0
  BY <1>0, <1>5
<1> HIDE DEF s
<1>12. QED
  BY <1>0, <1>1, <1>5, <1>6, <1>10, <1>11 DEF SchemaInv

\* The job of the statement just executed is waited for.
LEMMA WaitKeeps ==
  ASSUME MigrationsApart, TypeInv, SchemaInv, WaitForJob
  PROVE  SchemaInv'
<1>v. PICK v0 \in Versions : v0 = version
  BY DEF WaitForJob, TypeInv, TypeOK
<1> DEFINE U == UpgradeSql[v0]
<1>0. /\ pc = "wait" /\ script \in Seq(Statements) /\ script # <<>>
      /\ version \in Versions /\ v0 = version
      /\ UNCHANGED <<rows, objects, job, astray, fake, command>>
      /\ command \in {"none", "upgrade", "downgrade"}
  BY <1>v DEF WaitForJob, TypeInv, TypeOK, invocation, database
<1>1. \A v \in Versions \ astray : Matches(v)'
  BY <1>0 DEF SchemaInv, Matches
<1>2. CASE job[Head(script).object] # "succeeded"
  BY <1>0, <1>1, <1>2 DEF WaitForJob, Stop, SchemaInv
<1>3. CASE job[Head(script).object] = "succeeded"
  <2>1. pc' = "ddl" /\ script' = Tail(script) /\ version' = version
    BY <1>3 DEF WaitForJob
  <2>2. /\ ~fake /\ Head(script).kind = "validate" /\ Head(script).object \in objects
        /\ version \in astray
    BY <1>0 DEF SchemaInv
  <2>3. command = "upgrade"
    <3>1. command # "none"
      BY <1>0 DEF SchemaInv
    <3>2. command # "downgrade"
      <4>1. SUFFICES ASSUME command = "downgrade"
                     PROVE  FALSE
        OBVIOUS
      <4>2. Left(DowngradeSql[v0])
        BY <1>0, <2>2, <4>1 DEF SchemaInv
      <4>3. PICK k \in DOMAIN DowngradeSql[v0] : Head(script) = DowngradeSql[v0][k]
        BY <1>0, <4>2, ScriptOfVersion, NextStatement
      <4>4. QED
        BY <1>0, <2>2, <4>3 DEF MigrationsApart
    <3>3. QED
      BY <1>0, <3>1, <3>2
  <2>4. Left(U) /\ \A i \in Begun(U) : Upgraded(U[i])
    BY <1>0, <2>2, <2>3 DEF SchemaInv
  <2>5. PICK k \in DOMAIN U : Head(script) = U[k] /\ Left(U)' /\ Begun(U)' = Begun(U) \cup {k}
    BY <1>0, <2>1, <2>4, ScriptOfVersion, NextStatement
  <2>6. \A i \in Begun(U) : Upgraded(U[i])'
    BY <1>0, <1>3, <2>4 DEF Upgraded
  <2>7. Upgraded(U[k])'
    BY <1>0, <1>3, <2>2, <2>5 DEF Upgraded
  <2>8. Left(U)' /\ \A i \in Begun(U)' : Upgraded(U[i])'
    BY <2>5, <2>6, <2>7
  <2>9. version' = v0
    BY <1>0, <2>1
  <2>10. QED
    BY <1>0, <1>1, <2>1, <2>2, <2>3, <2>8, <2>9 DEF SchemaInv
<1>4. QED
  BY <1>2, <1>3

LEMMA StepSchema ==
  ASSUME MigrationsApart, TypeInv, PrefixInv, SchemaInv, Next
  PROVE  SchemaInv'
<1>0. /\ Versions \subseteq Nat /\ files \subseteq Versions /\ rows \subseteq Versions
      /\ todo \subseteq Versions /\ command \in {"none", "upgrade", "downgrade"}
      /\ script \in Seq(Statements) /\ fake \in BOOLEAN
      /\ pc \in {"ddl", "wait", "unlink"} => version \in Versions
  BY AerichAssumption DEF TypeInv, TypeOK
<1> USE DEF database, invocation
<1>1. CASE StartUpgrade
  <2>1. /\ UNCHANGED <<rows, objects, job, astray, script>>
        /\ pc' = "pick" /\ command' = "upgrade"
    BY <1>1 DEF StartUpgrade, Start
  <2>2. QED
    BY <2>1 DEF SchemaInv, Matches
<1>2. CASE Upgrade
  <2>1. CASE Pending = {}
    BY <1>2, <2>1 DEF Upgrade, Stop, SchemaInv, Matches
  <2>2. CASE Pending # {}
    <3>1. PICK v0 \in Versions : v0 = NextPending
      BY <1>0, <2>2, NextPendingIsSmallest DEF Pending
    <3>2. /\ UNCHANGED <<rows, objects, job, fake, command>> /\ command = "upgrade"
          /\ version' = v0 /\ pc' = "ddl" /\ astray' = astray \cup {v0}
          /\ script' = IF fake THEN <<>> ELSE UpgradeSql[v0]
      BY <1>2, <2>2, <3>1 DEF Upgrade
    <3>3. UpgradeSql[v0] \in Seq(Statements)
      BY ScriptOfVersion
    <3>4. ~fake => Left(UpgradeSql[v0])' /\ Begun(UpgradeSql[v0])' = {}
      BY <3>2, <3>3, WholeScript
    <3>5. \A v \in Versions \ astray' : Matches(v)'
      BY <3>2 DEF SchemaInv, Matches
    <3>6. QED
      BY <3>2, <3>4, <3>5 DEF SchemaInv
  <2>3. QED
    BY <2>1, <2>2
<1>3. CASE CreateRow
  <2>1. PICK v0 \in Versions : v0 = version
    BY <1>0, <1>3 DEF CreateRow
  <2>2. /\ UNCHANGED <<objects, job, fake, command>> /\ command = "upgrade"
        /\ rows' = rows \cup {v0} /\ pc' = "pick" /\ script = <<>> /\ pc = "ddl"
        /\ astray' = IF fake THEN astray ELSE astray \ {v0}
        /\ v0 \in astray
    BY <1>3, <2>1 DEF CreateRow, SchemaInv
  <2>3. ASSUME ~fake
        PROVE  Matches(v0)'
    <3>1. \A i \in DOMAIN UpgradeSql[v0] : Upgraded(UpgradeSql[v0][i])
      <4>1. Begun(UpgradeSql[v0]) = DOMAIN UpgradeSql[v0]
        BY <2>2, ScriptOfVersion, WholeScript
      <4>2. QED
        BY <2>1, <2>2, <2>3, <4>1 DEF SchemaInv
    <3>2. QED
      BY <2>2, <3>1 DEF Upgraded, Matches
  <2>4. \A v \in Versions : v # v0 /\ Matches(v) => Matches(v)'
    BY <2>2 DEF Matches
  <2>5. \A v \in Versions \ astray' : Matches(v)'
    BY <1>0, <2>2, <2>3, <2>4 DEF SchemaInv
  <2>6. QED
    BY <2>2, <2>5 DEF SchemaInv
<1>4. ASSUME NEW n \in Versions \cup {None}, StartDowngrade(n)
      PROVE  SchemaInv'
  <2>1. /\ UNCHANGED <<rows, objects, job, astray, script>>
        /\ pc' = "pick" /\ command' = "downgrade"
    BY <1>4 DEF StartDowngrade, Start
  <2>2. QED
    BY <2>1 DEF SchemaInv, Matches
<1>5. CASE Downgrade
  <2>1. CASE todo = {} \/ DowngradeSql[First(todo)] = <<>>
    BY <1>5, <2>1 DEF Downgrade, Stop, SchemaInv, Matches
  <2>2. CASE ~(todo = {} \/ DowngradeSql[First(todo)] = <<>>)
    <3>1. PICK v0 \in Versions : v0 = First(todo)
      BY <1>0, <2>2, FirstIsFirst
    <3>2. /\ UNCHANGED <<rows, objects, job, fake, command>> /\ command = "downgrade"
          /\ version' = v0 /\ pc' = "ddl" /\ astray' = astray \cup {v0}
          /\ script' = IF fake THEN <<>> ELSE DowngradeSql[v0]
      BY <1>5, <2>2, <3>1 DEF Downgrade
    <3>3. DowngradeSql[v0] \in Seq(Statements)
      BY ScriptOfVersion
    <3>4. ~fake => Left(DowngradeSql[v0])' /\ Begun(DowngradeSql[v0])' = {}
      BY <3>2, <3>3, WholeScript
    <3>5. \A v \in Versions \ astray' : Matches(v)'
      BY <3>2 DEF SchemaInv, Matches
    <3>6. QED
      BY <3>2, <3>4, <3>5 DEF SchemaInv
  <2>3. QED
    BY <2>1, <2>2
<1>6. CASE DeleteRow
  <2>1. PICK v0 \in Versions : v0 = version
    BY <1>0, <1>6 DEF DeleteRow
  <2>2. /\ UNCHANGED <<objects, job, fake, command>> /\ command = "downgrade"
        /\ rows' = rows \ {v0} /\ pc' \in {"pick", "unlink"} /\ script = <<>> /\ pc = "ddl"
        /\ astray' = IF fake THEN astray ELSE astray \ {v0}
        /\ v0 \in astray
    BY <1>6, <2>1 DEF DeleteRow, SchemaInv
  <2>3. ASSUME ~fake
        PROVE  Matches(v0)'
    <3>1. \A i \in DOMAIN DowngradeSql[v0] : Downgraded(DowngradeSql[v0][i])
      <4>1. Begun(DowngradeSql[v0]) = DOMAIN DowngradeSql[v0]
        BY <2>2, ScriptOfVersion, WholeScript
      <4>2. QED
        BY <2>1, <2>2, <2>3, <4>1 DEF SchemaInv
    <3>2. ASSUME NEW o \in ObjectsOf(v0)
          PROVE  o \notin objects
      <4>1. PICK i \in DOMAIN DowngradeSql[v0] :
              LET dropped == DowngradeSql[v0][i].object IN o = dropped \/ o \in PartsOf(dropped)
        BY DEF MigrationsApart
      <4>2. QED
        BY <3>1, <4>1 DEF Downgraded
    <3>3. QED
      BY <2>2, <3>2 DEF Matches
  <2>4. \A v \in Versions : v # v0 /\ Matches(v) => Matches(v)'
    BY <2>2 DEF Matches
  <2>5. \A v \in Versions \ astray' : Matches(v)'
    BY <1>0, <2>2, <2>3, <2>4 DEF SchemaInv
  <2>6. QED
    BY <2>2, <2>5 DEF SchemaInv
<1>7. CASE Unlink
  BY <1>7 DEF Unlink, SchemaInv, Matches
<1>8. CASE ExecuteStatement
  <2>1. CASE ~Executable(Head(script))
    BY <1>8, <2>1 DEF ExecuteStatement, Stop, SchemaInv, Matches
  <2>2. CASE Executable(Head(script))
    <3>1. command # "none"
      BY <1>8 DEF ExecuteStatement, SchemaInv
    <3>2. QED
      BY <1>0, <1>8, <2>2, <3>1, UpgradeStatement, DowngradeStatement
  <2>3. QED
    BY <2>1, <2>2
<1>9. CASE WaitForJob
  BY <1>9, WaitKeeps
<1>10. ASSUME NEW o \in AllObjects, JobEnds(o)
       PROVE  SchemaInv'
  <2>1. /\ UNCHANGED <<rows, objects, astray, pc, version, script, fake, command>>
        /\ \A p \in AllObjects : job[p] = "succeeded" => job'[p] = "succeeded"
    BY <1>10 DEF JobEnds, TypeInv, TypeOK
  <2>2. \A v \in Versions \ astray : Matches(v)'
    BY <1>10, JobEndsKeeps DEF SchemaInv
  <2>3. ASSUME pc \in {"ddl", "wait"}, ~fake, command = "upgrade"
        PROVE  (/\ Left(UpgradeSql[version])
                /\ \A i \in Begun(UpgradeSql[version]) : Upgraded(UpgradeSql[version][i]))'
    <3>1. PICK v0 \in Versions : v0 = version
      BY <1>0, <2>3
    <3>2. UpgradeSql[v0] \in Seq(Statements)
      BY ScriptOfVersion
    <3>3. Left(UpgradeSql[v0])' /\ Begun(UpgradeSql[v0])' = Begun(UpgradeSql[v0])
      BY <2>1, <2>3, <3>1 DEF SchemaInv, Left, Begun
    <3>4. ASSUME NEW i \in Begun(UpgradeSql[v0])
          PROVE  Upgraded(UpgradeSql[v0][i])'
      <4>1. i \in DOMAIN UpgradeSql[v0]
        BY <1>0, <3>2 DEF Begun
      <4>2. UpgradeSql[v0][i].object \in AllObjects
        BY <4>1, OwnObjects DEF AllObjects
      <4>3. Upgraded(UpgradeSql[v0][i])
        BY <2>3, <3>1 DEF SchemaInv
      <4>4. QED
        BY <2>1, <4>2, <4>3 DEF Upgraded
    <3>5. version' = v0
      BY <2>1, <3>1
    <3>6. QED
      BY <3>3, <3>4, <3>5
  <2>4. ASSUME pc \in {"ddl", "wait"}, ~fake, command = "downgrade"
        PROVE  (/\ Left(DowngradeSql[version])
                /\ \A i \in Begun(DowngradeSql[version]) : Downgraded(DowngradeSql[version][i]))'
    BY <2>1, <2>4 DEF SchemaInv, Left, Begun, Downgraded
  <2>5. QED
    BY <2>1, <2>2, <2>3, <2>4 DEF SchemaInv
<1>11. CASE Abort
  BY <1>11 DEF Abort, Stop, SchemaInv, Matches
<1>12. QED
  BY <1>1, <1>2, <1>3, <1>4, <1>5, <1>6, <1>7, <1>8, <1>9, <1>10, <1>11 DEF Next

\* Whatever was interrupted, a migration with a row is in the database with its
\* constraints validated, and one without left nothing there: _patched_upgrade
\* writes the row after the last statement and its job. Excepted are those faked,
\* and those a command began and did not end.
THEOREM RecordedMigrationsAreInTheSchema ==
  ASSUME NamesSortAsNumbers, MigrationsApart
  PROVE  Spec => []RecordsMatchSchema
<1>1. Init => PrefixInv /\ SchemaInv
  BY DEF Init, PrefixInv, RecordsArePrefix, SchemaInv, Matches
<1>2. PrefixInv /\ UNCHANGED vars => PrefixInv'
  BY DEF PrefixInv, RecordsArePrefix, vars, database, invocation
<1>3. ASSUME SchemaInv, UNCHANGED vars
      PROVE  SchemaInv'
  <2>1. UNCHANGED <<rows, objects, job, astray, pc, version, script, fake, command>>
    BY <1>3 DEF vars, database, invocation
  <2>2. \A v \in Versions \ astray : Matches(v)'
    BY <1>3, <2>1 DEF SchemaInv, Matches
  <2>3. ASSUME pc \in {"ddl", "wait"}, ~fake, command = "upgrade"
        PROVE  (/\ Left(UpgradeSql[version])
                /\ \A i \in Begun(UpgradeSql[version]) : Upgraded(UpgradeSql[version][i]))'
    BY <1>3, <2>1, <2>3 DEF SchemaInv, Left, Begun, Upgraded
  <2>4. ASSUME pc \in {"ddl", "wait"}, ~fake, command = "downgrade"
        PROVE  (/\ Left(DowngradeSql[version])
                /\ \A i \in Begun(DowngradeSql[version]) : Downgraded(DowngradeSql[version][i]))'
    BY <1>3, <2>1, <2>4 DEF SchemaInv, Left, Begun, Downgraded
  <2>5. QED
    BY <1>3, <2>1, <2>2, <2>3, <2>4 DEF SchemaInv
<1>4. TypeInv /\ FileInv /\ PrefixInv /\ [Next]_vars => PrefixInv'
  BY <1>2, StepPrefix
<1>5. TypeInv /\ PrefixInv /\ SchemaInv /\ [Next]_vars => SchemaInv'
  BY <1>3, StepSchema
<1>6. SchemaInv => RecordsMatchSchema
  BY DEF SchemaInv, Matches, RecordsMatchSchema
<1>7. QED
  BY <1>1, <1>4, <1>5, <1>6, Types, FilesKept, PTL DEF Spec
=============================================================================
