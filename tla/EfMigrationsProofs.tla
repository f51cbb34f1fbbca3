-------------------------- MODULE EfMigrationsProofs --------------------------
(***************************************************************************)
(* Proofs about EfMigrations: its types, and that what a recorded          *)
(* migration made is there, whoever applies it at the same time.           *)
(***************************************************************************)
EXTENDS EfMigrations, TLAPS

-----------------------------------------------------------------------------
(* Scripts.                                                                *)

\* The commands of a migration and those that reverse them.
PlainCommands ==
  {c \in [kind : UpKinds \cup {"delete"}, object : AllObjects, within : SUBSET (AllObjects \ Indexes)] :
     c.kind = "createIndex" => c.object \in Indexes}

\* Those of a script: rewritten ones and the history's.
Rewritten(c) == MakeIdempotent(Lint(c))

RewrittenCommands ==
  {c \in [kind : {"add", "drop", "insert", "delete"} \cup IfNotExists, object : AllObjects,
          within : SUBSET (AllObjects \ Indexes)] :
     c.kind = "createIndexAsyncIfNotExists" => c.object \in Indexes}

ScriptCommands ==
  RewrittenCommands \cup [kind : {"insertRow", "deleteRow"}, object : Migrations, within : {{}}]

LEMMA UpIsSeq ==
  ASSUME NEW m \in Migrations
  PROVE  /\ Up[m] \in Seq(Commands)
         /\ Len(Up[m]) \in Nat /\ DOMAIN Up[m] = 1..Len(Up[m])
         /\ \A i \in 1..Len(Up[m]) : Up[m][i] \in Commands
BY EfAssumption

LEMMA UpIsPlain ==
  ASSUME NEW m \in Migrations, NEW i \in 1..Len(Up[m])
  PROVE  Up[m][i] \in PlainCommands
<1>1. Up[m][i] \in Commands /\ i \in DOMAIN Up[m]
  BY UpIsSeq
<1>2. Up[m][i].kind = "createIndex" => Up[m][i].object \in Indexes
  BY <1>1 DEF Indexes, ObjectsOf
<1>3. QED
  BY <1>1, <1>2 DEF Commands, PlainCommands

\* A rewritten command creates what it created and drops what it dropped.
LEMMA RewrittenCommand ==
  ASSUME NEW c \in PlainCommands
  PROVE  /\ Rewritten(c) \in RewrittenCommands
         /\ Rewritten(c).object = c.object /\ Rewritten(c).within = c.within
         /\ c.kind \in {"drop", "delete"} => Rewritten(c).kind = c.kind
         /\ c.kind \notin {"drop", "delete"} => Rewritten(c).kind \in {"add", "insert"} \cup IfNotExists
         /\ c.kind \in Creates => Rewritten(c).kind \in IfNotExists
<1>1. CASE c.kind = "createIndex"
  BY <1>1 DEF Rewritten, Lint, MakeIdempotent, PlainCommands, RewrittenCommands, Creates, UpKinds, IfNotExists
<1>2. CASE c.kind = "createTable"
  BY <1>2 DEF Rewritten, Lint, MakeIdempotent, PlainCommands, RewrittenCommands, Creates, UpKinds, IfNotExists
<1>3. CASE c.kind \notin Creates
  BY <1>3 DEF Rewritten, Lint, MakeIdempotent, PlainCommands, RewrittenCommands, Creates, UpKinds, IfNotExists
<1>4. QED
  BY <1>1, <1>2, <1>3 DEF Creates

LEMMA ReversedCommand ==
  ASSUME NEW c \in PlainCommands
  PROVE  [c EXCEPT !.kind = Reverses(c)] \in PlainCommands
<1>1. /\ Reverses(c) \in UpKinds \cup {"delete"}
      /\ Reverses(c) = "createIndex" => c.object \in Indexes
  BY DEF Reverses, UpKinds, Creates
<1>2. /\ [c EXCEPT !.kind = Reverses(c)] = [kind |-> Reverses(c), object |-> c.object, within |-> c.within]
      /\ c.object \in AllObjects /\ c.within \in SUBSET (AllObjects \ Indexes)
  BY DEF PlainCommands
<1>3. QED
  BY <1>1, <1>2 DEF PlainCommands

LEMMA RowCommand ==
  ASSUME NEW m \in Migrations, NEW kind \in {"insertRow", "deleteRow"}
  PROVE  Row(kind, m) \in ScriptCommands
BY DEF Row, ScriptCommands

\* The script of an upgrade: its commands in their order, then the row.
LEMMA UpSql ==
  ASSUME NEW m \in Migrations
  PROVE  /\ GenerateUpSql(m) \in Seq(ScriptCommands)
         /\ Len(GenerateUpSql(m)) = Len(Up[m]) + 1
         /\ \A i \in 1..Len(Up[m]) : GenerateUpSql(m)[i] = Rewritten(Up[m][i])
         /\ GenerateUpSql(m)[Len(Up[m]) + 1] = Row("insertRow", m)
<1> DEFINE n == Len(Up[m])
<1>1. n \in Nat /\ DOMAIN Up[m] = 1..n /\ \A i \in 1..n : Up[m][i] \in PlainCommands
  BY UpIsSeq, UpIsPlain
<1>2. \A i \in 1..n : Rewritten(Up[m][i]) \in ScriptCommands
  BY <1>1, RewrittenCommand DEF ScriptCommands
<1>3. Transform(Up[m]) = [i \in 1..n |-> Rewritten(Up[m][i])]
  BY <1>1 DEF Transform, Rewritten
<1>4. Transform(Up[m]) \in Seq(ScriptCommands) /\ Len(Transform(Up[m])) = n
  BY <1>1, <1>2, <1>3
<1>5. Row("insertRow", m) \in ScriptCommands
  BY RowCommand
<1>6. \A i \in 1..n : Transform(Up[m])[i] = Rewritten(Up[m][i])
  BY <1>3
<1> DEFINE t   == Transform(Up[m])
           row == Row("insertRow", m)
<1>7. /\ GenerateUpSql(m) = t \o <<row>> /\ t \in Seq(ScriptCommands) /\ row \in ScriptCommands
      /\ Len(t) = n /\ n \in Nat /\ \A i \in 1..n : t[i] = Rewritten(Up[m][i])
  BY <1>1, <1>4, <1>5, <1>6 DEF GenerateUpSql
<1> HIDE DEF n, t, row
<1>8. /\ t \o <<row>> \in Seq(ScriptCommands) /\ Len(t \o <<row>>) = n + 1
      /\ \A i \in 1..n : (t \o <<row>>)[i] = t[i]
      /\ (t \o <<row>>)[n + 1] = row
  BY <1>7
<1>9. QED
  BY <1>7, <1>8 DEF n, row

LEMMA DownIsPlain ==
  ASSUME NEW m \in Migrations
  PROVE  /\ Len(Down(m)) = Len(Up[m]) /\ DOMAIN Down(m) = 1..Len(Up[m])
         /\ \A i \in 1..Len(Up[m]) : Down(m)[i] \in PlainCommands
<1> DEFINE n == Len(Up[m])
           r(i) == [Up[m][n + 1 - i] EXCEPT !.kind = Reverses(Up[m][n + 1 - i])]
<1>1. n \in Nat /\ DOMAIN Up[m] = 1..n /\ \A i \in 1..n : Up[m][i] \in PlainCommands
  BY UpIsSeq, UpIsPlain
<1>2. Down(m) = [i \in 1..n |-> r(i)]
  BY <1>1 DEF Down
<1>3. \A i \in 1..n : r(i) \in PlainCommands
  <2>1. \A i \in 1..n : n + 1 - i \in 1..n
    BY <1>1
  <2>2. QED
    BY <1>1, <2>1, ReversedCommand
<1> HIDE DEF r, n
<1>4. Len(Down(m)) = n /\ DOMAIN Down(m) = 1..n /\ \A i \in 1..n : Down(m)[i] \in PlainCommands
  BY <1>1, <1>2, <1>3
<1>5. QED
  BY <1>4 DEF n

LEMMA DownSql ==
  ASSUME NEW m \in Migrations
  PROVE  /\ GenerateDownSql(m) \in Seq(ScriptCommands)
         /\ Len(GenerateDownSql(m)) = Len(Up[m]) + 1
         /\ \A i \in 1..Len(Up[m]) : GenerateDownSql(m)[i] = Rewritten(Down(m)[i])
         /\ GenerateDownSql(m)[Len(Up[m]) + 1] = Row("deleteRow", m)
<1> DEFINE n   == Len(Up[m])
           t   == Transform(Down(m))
           row == Row("deleteRow", m)
<1>1. n \in Nat /\ DOMAIN Down(m) = 1..n /\ \A i \in 1..n : Down(m)[i] \in PlainCommands
  BY UpIsSeq, DownIsPlain
<1>2. \A i \in 1..n : Rewritten(Down(m)[i]) \in ScriptCommands
  BY <1>1, RewrittenCommand DEF ScriptCommands
<1>3. t = [i \in 1..n |-> Rewritten(Down(m)[i])]
  BY <1>1 DEF Transform, Rewritten
<1>4. t \in Seq(ScriptCommands) /\ Len(t) = n /\ \A i \in 1..n : t[i] = Rewritten(Down(m)[i])
  BY <1>1, <1>2, <1>3
<1>5. GenerateDownSql(m) = t \o <<row>> /\ row \in ScriptCommands
  BY RowCommand DEF GenerateDownSql
<1> HIDE DEF n, t, row
<1>6. /\ t \o <<row>> \in Seq(ScriptCommands) /\ Len(t \o <<row>>) = n + 1
      /\ \A i \in 1..n : (t \o <<row>>)[i] = t[i]
      /\ (t \o <<row>>)[n + 1] = row
  BY <1>1, <1>4, <1>5
<1>7. QED
  BY <1>4, <1>5, <1>6 DEF n, row

LEMMA NextIsThere ==
  ASSUME NEW d, todo[d] \subseteq Migrations, todo[d] # {}, down[d] \in BOOLEAN
  PROVE  NextOf(d) \in todo[d]
<1>1. \E m \in todo[d] : \A n \in todo[d] : IF down[d] THEN n <= m ELSE m <= n
  <2>1. CASE down[d]
    BY <2>1, OrderAssumption
  <2>2. CASE ~down[d]
    BY <2>2, OrderAssumption
  <2>3. QED
    BY <2>1, <2>2
<1>2. QED
  BY <1>1 DEF NextOf

-----------------------------------------------------------------------------
(* Types.                                                                  *)

\* TypeOK, and what the scripts are made of.
TypeInv ==
  /\ objects \subseteq AllObjects
  /\ building \subseteq Indexes \cap objects /\ failed \subseteq Indexes \ building
  /\ history \subseteq Migrations /\ astray \subseteq Migrations
  /\ pc \in [Deployments -> {"idle", "running"}]
  /\ todo \in [Deployments -> SUBSET Migrations]
  /\ later \in [Deployments -> SUBSET Migrations]
  /\ down \in [Deployments -> BOOLEAN]
  /\ script \in [Deployments -> Seq(ScriptCommands)]
  /\ retries \in [Deployments -> 0..MaxRetries]
  /\ runs \in 0..MaxRuns /\ faults \in 0..MaxFaults
  /\ overlapped \in BOOLEAN /\ reverted \in BOOLEAN

LEMMA TypeInvIsEnough == TypeInv => TypeOK
<1>1. ASSUME TypeInv, NEW d \in Deployments, NEW i \in DOMAIN script[d]
      PROVE  script[d][i].kind \in {"add", "drop", "insert", "delete", "insertRow", "deleteRow"} \cup IfNotExists
  <2>1. script[d] \in Seq(ScriptCommands)
    BY <1>1 DEF TypeInv
  <2>2. script[d][i] \in ScriptCommands
    BY <1>1, <2>1
  <2>3. QED
    BY <2>2 DEF ScriptCommands, RewrittenCommands
<1>2. QED
  BY <1>1 DEF TypeInv, TypeOK

LEMMA EmptyScript == <<>> \in Seq(ScriptCommands)
OBVIOUS

LEMMA Bounds == MaxRetries \in Nat /\ MaxRuns \in Nat /\ MaxFaults \in Nat
BY EfAssumption

LEMMA ReturnType ==
  ASSUME TypeInv, NEW d \in Deployments, Return(d)
  PROVE  /\ pc' \in [Deployments -> {"idle", "running"}]
         /\ todo' \in [Deployments -> SUBSET Migrations]
         /\ later' \in [Deployments -> SUBSET Migrations]
         /\ script' \in [Deployments -> Seq(ScriptCommands)]
BY EmptyScript DEF TypeInv, Return

LEMMA IndexesAreObjects == Indexes \subseteq AllObjects
BY DEF Indexes, ObjectsOf, AllObjects

LEMMA EffectType ==
  ASSUME TypeInv, NEW c \in ScriptCommands, Effect(c)
  PROVE  /\ objects' \subseteq AllObjects
         /\ building' \subseteq Indexes \cap objects' /\ failed' \subseteq Indexes \ building'
         /\ history' \subseteq Migrations /\ astray' \subseteq Migrations
<1> DEFINE new  == {o \in AllObjects \ objects : Makes(c, o)}
           gone == {o \in AllObjects : Takes(c, o)}
           jobs == {o \in new : c.kind \in {"createIndexAsync", "createIndexAsyncIfNotExists"}}
<1>1. /\ objects' = After(c, objects)
      /\ building' = (building \ gone) \cup jobs
      /\ failed' = failed \ (new \cup gone)
  BY DEF Effect
<1>2. jobs \subseteq Indexes
  <2>1. \A o \in jobs : o = c.object /\ c.kind \in {"createIndexAsync", "createIndexAsyncIfNotExists"}
    BY DEF Makes
  <2>2. c.kind \in {"createIndexAsync", "createIndexAsyncIfNotExists"} => c.object \in Indexes
    BY DEF ScriptCommands, RewrittenCommands, IfNotExists
  <2>3. QED
    BY <2>1, <2>2
<1>3. objects' \subseteq AllObjects /\ jobs \subseteq objects' /\ building \ gone \subseteq objects'
  BY <1>1, IndexesAreObjects DEF After, TypeInv
<1>4. failed \subseteq Indexes \ building /\ building \subseteq Indexes
  BY DEF TypeInv
<1>5. /\ building' \subseteq Indexes \cap objects' /\ failed' \subseteq Indexes \ building'
  <2>1. jobs \subseteq new
    OBVIOUS
  <2> HIDE DEF jobs, new, gone
  <2>2. QED
    BY <1>1, <1>2, <1>3, <1>4, <2>1
<1>6. history' \subseteq Migrations /\ astray' \subseteq Migrations
  <2>1. c.kind \in {"insertRow", "deleteRow"} => c.object \in Migrations
    BY DEF ScriptCommands, RewrittenCommands, IfNotExists
  <2>2. history' \subseteq history \cup IF c.kind = "insertRow" THEN {c.object} ELSE {}
    BY DEF Effect
  <2>3. QED
    BY <2>1, <2>2 DEF Effect, TypeInv
<1>7. QED
  BY <1>3, <1>5, <1>6

LEMMA JobType ==
  ASSUME TypeInv, NEW o \in AllObjects, JobSucceeds(o) \/ JobFails(o)
  PROVE  TypeInv'
<1>1. o \in building /\ building' = building \ {o}
  BY DEF JobSucceeds, JobFails
<1>2. CASE JobSucceeds(o)
  BY <1>1, <1>2 DEF JobSucceeds, TypeInv
<1>3. CASE JobFails(o)
  <2>1. /\ failed' = failed \cup {o} /\ (objects' = objects \/ objects' = objects \ {o})
        /\ faults' = faults + 1 /\ faults < MaxFaults
    BY <1>3 DEF JobFails
  <2>2. /\ objects' \subseteq AllObjects
        /\ building' \subseteq Indexes \cap objects' /\ failed' \subseteq Indexes \ building'
    BY <1>1, <2>1 DEF TypeInv
  <2>3. faults' \in 0..MaxFaults
    BY <2>1, Bounds DEF TypeInv
  <2>4. QED
    BY <1>3, <2>2, <2>3 DEF JobFails, TypeInv
<1>4. QED
  BY <1>2, <1>3

LEMMA StepType ==
  ASSUME TypeInv, NEW d \in Deployments,
         StepOf(d)
  PROVE  TypeInv'
<1>1. ASSUME NEW target \in {0} \cup Migrations, Migrate(d, target)
      PROVE  TypeInv'
  <2> DEFINE above == {m \in history : m > target}
             below == {m \in Migrations \ history : m <= target}
             next  == IF above # {} THEN above ELSE below
             rest  == IF above # {} THEN below ELSE {}
  <2>1. /\ down' = [down EXCEPT ![d] = above # {}]
        /\ todo' = [todo EXCEPT ![d] = next]
        /\ later' = [later EXCEPT ![d] = rest]
        /\ reverted' = (reverted \/ above # {})
    BY <1>1 DEF Migrate
  <2>2. next \in SUBSET Migrations /\ rest \in SUBSET Migrations
    BY DEF TypeInv
  <2>3. (above # {}) \in BOOLEAN
    OBVIOUS
  <2> HIDE DEF above, below, next, rest
  <2>4. /\ todo' \in [Deployments -> SUBSET Migrations]
        /\ later' \in [Deployments -> SUBSET Migrations]
    BY <2>1, <2>2 DEF TypeInv
  <2>5. down' \in [Deployments -> BOOLEAN]
    BY <2>1, <2>3 DEF TypeInv
  <2>6. reverted' \in BOOLEAN /\ overlapped' \in BOOLEAN
    BY <1>1, <2>1 DEF Migrate
  <2>7. pc' \in [Deployments -> {"idle", "running"}]
    BY <1>1 DEF Migrate, TypeInv
  <2>8. retries' \in [Deployments -> 0..MaxRetries] /\ runs' \in 0..MaxRuns
    BY <1>1, Bounds DEF Migrate, TypeInv
  <2>9. QED
    BY <1>1, <2>4, <2>5, <2>6, <2>7, <2>8 DEF Migrate, TypeInv, catalog
<1>0. CASE TurnRound(d)
  BY <1>0 DEF TurnRound, TypeInv, catalog
<1>2. CASE NextMigration(d)
  <2>1. CASE todo[d] = {} /\ later[d] = {} /\ Return(d) /\ UNCHANGED <<faults, astray>>
    BY <1>2, <2>1, ReturnType DEF NextMigration, TypeInv, catalog
  <2>2. CASE /\ todo[d] # {}
             /\ script' = [script EXCEPT ![d] =
                             IF down[d] THEN GenerateDownSql(NextOf(d)) ELSE GenerateUpSql(NextOf(d))]
             /\ todo' = [todo EXCEPT ![d] = @ \ {NextOf(d)}]
             /\ astray' = astray \cup {NextOf(d)}
             /\ UNCHANGED <<pc, later, faults>>
    <3>1. todo[d] \subseteq Migrations /\ down[d] \in BOOLEAN
      BY DEF TypeInv
    <3>2. NextOf(d) \in Migrations
      BY <2>2, <3>1, NextIsThere
    <3>3. GenerateDownSql(NextOf(d)) \in Seq(ScriptCommands) /\ GenerateUpSql(NextOf(d)) \in Seq(ScriptCommands)
      BY <3>2, UpSql, DownSql
    <3>4. script' \in [Deployments -> Seq(ScriptCommands)] /\ todo' \in [Deployments -> SUBSET Migrations]
      BY <2>2, <3>3 DEF TypeInv
    <3>5. astray' \subseteq Migrations
      BY <2>2, <3>2 DEF TypeInv
    <3>6. QED
      BY <1>2, <2>2, <3>4, <3>5 DEF NextMigration, TypeInv, catalog
  <2>3. CASE todo[d] # {} /\ faults < MaxFaults /\ Return(d) /\ faults' = faults + 1 /\ UNCHANGED astray
    <3>1. faults' \in 0..MaxFaults
      BY <2>3, Bounds DEF TypeInv
    <3>2. /\ pc' \in [Deployments -> {"idle", "running"}]
          /\ todo' \in [Deployments -> SUBSET Migrations]
          /\ later' \in [Deployments -> SUBSET Migrations]
          /\ script' \in [Deployments -> Seq(ScriptCommands)]
      BY <2>3, ReturnType
    <3>3. QED
      BY <1>2, <2>3, <3>1, <3>2 DEF NextMigration, TypeInv, catalog
  <2>4. QED
    BY <1>2, <2>1, <2>2, <2>3 DEF NextMigration
<1>3. CASE Execute(d)
  <2>1. script[d] \in Seq(ScriptCommands) /\ script[d] # <<>>
    BY <1>3 DEF Execute, TypeInv
  <2>2. Head(script[d]) \in ScriptCommands /\ Tail(script[d]) \in Seq(ScriptCommands)
    BY <2>1
  <2>3. CASE Executable(Head(script[d]))
    <3>1. /\ objects' \subseteq AllObjects
          /\ building' \subseteq Indexes \cap objects' /\ failed' \subseteq Indexes \ building'
          /\ history' \subseteq Migrations /\ astray' \subseteq Migrations
      BY <1>3, <2>2, <2>3, EffectType DEF Execute
    <3>2. QED
      BY <1>3, <2>2, <2>3, <3>1 DEF Execute, TypeInv
  <2>4. CASE ~Executable(Head(script[d]))
    BY <1>3, <2>4, ReturnType DEF Execute, TypeInv, catalog
  <2>5. QED
    BY <2>3, <2>4
<1>4. CASE OccError(d)
  <2>1. CASE retries[d] < MaxRetries
    <3>1. retries' = [retries EXCEPT ![d] = retries[d] + 1] /\ UNCHANGED <<pc, todo, later, script>>
      BY <1>4, <2>1 DEF OccError
    <3>2. retries[d] + 1 \in 0..MaxRetries
      BY <2>1, Bounds DEF TypeInv
    <3>3. retries' \in [Deployments -> 0..MaxRetries]
      BY <3>1, <3>2 DEF TypeInv
    <3>4. faults' \in 0..MaxFaults
      BY <1>4, Bounds DEF OccError, TypeInv
    <3>5. QED
      BY <1>4, <3>1, <3>3, <3>4 DEF OccError, TypeInv, catalog
  <2>2. CASE ~(retries[d] < MaxRetries)
    BY <1>4, <2>2, ReturnType, Bounds DEF OccError, TypeInv, catalog
  <2>3. QED
    BY <2>1, <2>2
<1>5. CASE Crash(d)
  BY <1>5, ReturnType, Bounds DEF Crash, TypeInv, catalog
<1>6. QED
  BY <1>0, <1>1, <1>2, <1>3, <1>4, <1>5 DEF StepOf

LEMMA Types == Spec => []TypeInv
<1>1. Init => TypeInv
  <2>1. ASSUME Init
        PROVE  /\ pc \in [Deployments -> {"idle", "running"}]
               /\ todo \in [Deployments -> SUBSET Migrations]
               /\ later \in [Deployments -> SUBSET Migrations]
               /\ down \in [Deployments -> BOOLEAN]
    BY <2>1 DEF Init
  <2>2. ASSUME Init
        PROVE  script \in [Deployments -> Seq(ScriptCommands)]
    BY <2>2, EmptyScript DEF Init
  <2>3. ASSUME Init
        PROVE  /\ retries \in [Deployments -> 0..MaxRetries]
               /\ runs \in 0..MaxRuns /\ faults \in 0..MaxFaults
    BY <2>3, Bounds DEF Init
  <2>4. QED
    BY <2>1, <2>2, <2>3 DEF Init, TypeInv
<1>2. TypeInv /\ UNCHANGED vars => TypeInv'
  BY DEF TypeInv, vars, catalog
<1>3. TypeInv /\ [Next]_vars => TypeInv'
  BY <1>2, StepType, JobType DEF Next
<1>4. QED
  BY <1>1, <1>3, PTL DEF Spec

\* Every variable keeps its type; a command is retried at most MaxRetries times
\* (DsqlExecutionStrategy), and rows are of migrations that there are.
THEOREM TypeCorrect == Spec => []TypeOK
BY Types, TypeInvIsEnough, PTL

-----------------------------------------------------------------------------
(* What a recorded migration made is there.                                *)

\* What there is, counting an index whose job failed: whether it stays as an
\* invalid one or is gone.
Present == objects \cup failed

LEMMA PresentUnchanged == UNCHANGED catalog => Present' = Present
BY DEF catalog, Present

LEMMA EffectOnPresent ==
  ASSUME TypeInv, NEW c, Effect(c)
  PROVE  \A o \in AllObjects : o \in Present' <=> Makes(c, o) \/ (o \in Present /\ ~Takes(c, o))
<1> DEFINE new  == {o \in AllObjects \ objects : Makes(c, o)}
           gone == {o \in AllObjects : Takes(c, o)}
<1>1. objects' = After(c, objects) /\ failed' = failed \ (new \cup gone)
  BY DEF Effect
<1>2. ASSUME NEW o \in AllObjects
      PROVE  o \in Present' <=> Makes(c, o) \/ (o \in Present /\ ~Takes(c, o))
  BY <1>1 DEF After, Present
<1>3. QED
  BY <1>2

\* A job that ends takes nothing from what is counted, and adds nothing.
LEMMA JobOnPresent ==
  ASSUME TypeInv, NEW o \in AllObjects, JobSucceeds(o) \/ JobFails(o)
  PROVE  /\ Present' = Present
         /\ UNCHANGED <<history, pc, todo, later, down, script, astray, overlapped, reverted>>
BY DEF JobSucceeds, JobFails, Present, TypeInv

\* The migrations that a deployment has begun, whatever became of it.
Begun == history \cup astray

Dropped(o, ms) ==
  \E n \in ms : \E j \in DOMAIN Up[n] :
    Up[n][j].kind = "drop" /\ o \in {Up[n][j].object} \cup PartsOf(Up[n][j].object)

\* The i-th command of m was executed and, of what there is now, nothing but a
\* migration among ms took away what it made.
Done(m, i, os, ms) ==
  \/ Up[m][i].kind = "drop"
  \/ Up[m][i].object \in os
  \/ Dropped(Up[m][i].object, ms)

\* s is what is left of an upgrade to m, from its k-th command on.
LeftOf(s, m, k) ==
  /\ k \in 1..Len(Up[m]) + 1
  /\ Len(s) = Len(Up[m]) + 2 - k
  /\ \A i \in 1..Len(s) : s[i] = GenerateUpSql(m)[k - 1 + i]

RecordedDone  == \A m \in history : \A i \in DOMAIN Up[m] : Done(m, i, Present, Begun)
ScriptDone(d) ==
  script[d] # <<>> =>
    \E m \in Begun : \E k \in Nat :
      LeftOf(script[d], m, k) /\ \A i \in 1..(k - 1) : Done(m, i, Present, Begun)

\* RecordedIsThere, and the same of the part of a migration already executed:
\* the row comes last, so that it is there for all of it.
ThereInv ==
  ~reverted =>
    /\ \A d \in Deployments : ~down[d]
    /\ RecordedDone
    /\ \A d \in Deployments : ScriptDone(d)

LEMMA ThereInvIsEnough == ThereInv => RecordedIsThere
BY DEF ThereInv, RecordedDone, RecordedIsThere, Done, Dropped, Begun, Present

LEMMA DoneStays ==
  ASSUME NEW os, NEW osNew, NEW ms, NEW msNew, ms \subseteq msNew,
         \A o \in os \ osNew : Dropped(o, msNew),
         NEW m, NEW i, Done(m, i, os, ms)
  PROVE  Done(m, i, osNew, msNew)
<1>1. CASE Up[m][i].kind = "drop"
  BY <1>1 DEF Done
<1>2. CASE Up[m][i].object \in os
  BY <1>2 DEF Done
<1>3. CASE Dropped(Up[m][i].object, ms)
  <2>1. Dropped(Up[m][i].object, msNew)
    BY <1>3 DEF Dropped
  <2>2. QED
    BY <2>1 DEF Done
<1>4. QED
  BY <1>1, <1>2, <1>3 DEF Done

\* A step that takes nothing away without a drop of a migration begun changes
\* nothing for what was recorded and what is left of the other scripts.
LEMMA KeptByStep ==
  ASSUME Begun \subseteq Begun', \A o \in Present \ Present' : Dropped(o, Begun')
  PROVE  /\ \A m, i : Done(m, i, Present, Begun) => Done(m, i, Present', Begun')
         /\ history' = history /\ RecordedDone => RecordedDone'
         /\ \A d : (script'[d] = script[d] /\ ScriptDone(d)) => ScriptDone(d)'
<1>1. \A m, i : Done(m, i, Present, Begun) => Done(m, i, Present', Begun')
  BY DoneStays
<1>2. history' = history /\ RecordedDone => RecordedDone'
  BY <1>1 DEF RecordedDone
<1>3. ASSUME NEW d, script'[d] = script[d], ScriptDone(d), script[d] # <<>>
      PROVE  ScriptDone(d)'
  <2>1. PICK m \in Begun, k \in Nat :
          LeftOf(script[d], m, k) /\ \A i \in 1..(k - 1) : Done(m, i, Present, Begun)
    BY <1>3 DEF ScriptDone
  <2>2. LeftOf(script[d]', m, k) /\ \A i \in 1..(k - 1) : Done(m, i, Present', Begun')
    BY <1>1, <1>3, <2>1
  <2>3. QED
    BY <2>1, <2>2 DEF ScriptDone
<1>4. QED
  BY <1>1, <1>2, <1>3 DEF ScriptDone

LEMMA NoneIsEmpty ==
  ASSUME NEW S, NEW s \in Seq(S), Len(s) = 0
  PROVE  s = <<>>
<1>1. s \in [1..0 -> S] /\ <<>> \in [1..0 -> S] /\ 1..0 = {}
  OBVIOUS
<1>2. QED
  BY <1>1

\* The head of what is left is the k-th command, or the row.
LEMMA HeadOfLeft ==
  ASSUME NEW m \in Migrations, NEW k \in Nat, NEW s \in Seq(ScriptCommands), LeftOf(s, m, k)
  PROVE  /\ k \in 1..Len(Up[m]) =>
              Head(s) = Rewritten(Up[m][k]) /\ LeftOf(Tail(s), m, k + 1)
         /\ k \notin 1..Len(Up[m]) =>
              k = Len(Up[m]) + 1 /\ Head(s) = Row("insertRow", m) /\ Tail(s) = <<>>
<1> DEFINE n == Len(Up[m])
           g == GenerateUpSql(m)
<1>1. n \in Nat /\ (\A i \in 1..n : g[i] = Rewritten(Up[m][i])) /\ g[n + 1] = Row("insertRow", m)
  BY UpIsSeq, UpSql
<1>2. k \in 1..n + 1 /\ Len(s) = n + 2 - k /\ \A i \in 1..Len(s) : s[i] = g[k - 1 + i]
  BY DEF LeftOf
<1> HIDE DEF n, g
<1>3. Len(s) >= 1 /\ Head(s) = s[1] /\ s[1] = g[k]
  BY <1>1, <1>2
<1>4. Len(Tail(s)) = n + 2 - (k + 1) /\ \A i \in 1..Len(Tail(s)) : Tail(s)[i] = s[i + 1]
  BY <1>1, <1>2, <1>3
<1>5. \A i \in 1..Len(Tail(s)) : Tail(s)[i] = g[(k + 1) - 1 + i]
  BY <1>1, <1>2, <1>4
<1>6. CASE k \in 1..n
  <2>1. k + 1 \in 1..n + 1
    BY <1>1, <1>6
  <2>2. LeftOf(Tail(s), m, k + 1)
    BY <1>4, <1>5, <2>1 DEF LeftOf, n, g
  <2>3. QED
    BY <1>1, <1>3, <1>6, <2>2 DEF n
<1>7. CASE k \notin 1..n
  <2>1. k = n + 1 /\ Len(s) = 1
    BY <1>1, <1>2, <1>7
  <2>2. Tail(s) \in Seq(ScriptCommands) /\ Len(Tail(s)) = 0
    BY <2>1
  <2>3. Tail(s) = <<>>
    BY <2>2, NoneIsEmpty
  <2>4. QED
    BY <1>1, <1>3, <1>7, <2>1, <2>3 DEF n
<1>8. QED
  BY <1>6, <1>7 DEF n

\* An empty script is done, a step of another deployment keeps this one's.
LEMMA OtherScripts ==
  ASSUME TypeInv, NEW d \in Deployments, NEW s, script' = [script EXCEPT ![d] = s]
  PROVE  script'[d] = s /\ \A e \in Deployments \ {d} : script'[e] = script[e]
BY DEF TypeInv

LEMMA NothingTaken ==
  ASSUME ThereInv, ~reverted, UNCHANGED <<Present, history, down>>, astray \subseteq astray',
         NEW d \in Deployments, \A e \in Deployments \ {d} : script'[e] = script[e],
         ScriptDone(d)'
  PROVE  ThereInv'
<1>1. Begun \subseteq Begun' /\ \A o \in Present \ Present' : Dropped(o, Begun')
  BY DEF Begun
<1>2. RecordedDone'
  BY <1>1, KeptByStep DEF ThereInv
<1>3. ASSUME NEW e \in Deployments
      PROVE  ScriptDone(e)'
  <2>1. CASE e = d
    BY <2>1
  <2>2. CASE e # d
    BY <1>1, <2>2, KeptByStep DEF ThereInv
  <2>3. QED
    BY <2>1, <2>2
<1>4. QED
  BY <1>2, <1>3 DEF ThereInv

LEMMA ReturnKeeps ==
  ASSUME TypeInv, ThereInv, ~reverted, NEW d \in Deployments, Return(d),
         UNCHANGED <<Present, history, down, astray>>
  PROVE  ThereInv'
<1>1. script'[d] = <<>> /\ \A e \in Deployments \ {d} : script'[e] = script[e]
  BY OtherScripts DEF Return
<1>2. ScriptDone(d)'
  BY <1>1 DEF ScriptDone
<1>3. QED
  BY <1>1, <1>2, NothingTaken

\* A migration is begun with its first command, nothing of it being done.
LEMMA BeginKeeps ==
  ASSUME TypeInv, ThereInv, ~reverted, NEW d \in Deployments, NEW m \in Migrations,
         script' = [script EXCEPT ![d] = GenerateUpSql(m)], astray' = astray \cup {m},
         UNCHANGED <<Present, history, down>>
  PROVE  ThereInv'
<1>1. script'[d] = GenerateUpSql(m) /\ \A e \in Deployments \ {d} : script'[e] = script[e]
  BY OtherScripts
<1>2. Len(Up[m]) \in Nat /\ Len(GenerateUpSql(m)) = Len(Up[m]) + 1
  BY UpIsSeq, UpSql
<1>3. LeftOf(GenerateUpSql(m), m, 1)
  BY <1>2 DEF LeftOf
<1>4. m \in Begun' /\ \A i \in 1..(1 - 1) : Done(m, i, Present', Begun')
  BY DEF Begun
<1>5. ScriptDone(d)'
  BY <1>1, <1>3, <1>4 DEF ScriptDone
<1>6. QED
  BY <1>1, <1>5, NothingTaken

\* A command of an upgrade, executed: it makes its object, drops what it is to
\* drop, or is the row, when all the commands before it are done.
LEMMA ExecuteKeeps ==
  ASSUME TypeInv, ThereInv, ~reverted, NEW d \in Deployments, script[d] # <<>>,
         Effect(Head(script[d])), script' = [script EXCEPT ![d] = Tail(script[d])],
         UNCHANGED down
  PROVE  ThereInv'
<1>1. PICK m \in Begun, k \in Nat :
        LeftOf(script[d], m, k) /\ \A i \in 1..(k - 1) : Done(m, i, Present, Begun)
  BY DEF ThereInv, ScriptDone
<1>2. m \in Migrations /\ script[d] \in Seq(ScriptCommands)
  BY DEF TypeInv, Begun
<1> DEFINE c == Head(script[d])
<1>3. script'[d] = Tail(script[d]) /\ \A e \in Deployments \ {d} : script'[e] = script[e]
  BY OtherScripts
<1>4. CASE k \in 1..Len(Up[m])
  <2>1. c = Rewritten(Up[m][k]) /\ LeftOf(Tail(script[d]), m, k + 1)
    BY <1>1, <1>2, <1>4, HeadOfLeft
  <2>2. Up[m][k] \in PlainCommands
    BY <1>2, <1>4, UpIsPlain
  <2>3. /\ c.object = Up[m][k].object /\ c \in RewrittenCommands
        /\ Up[m][k].kind = "drop" => c.kind = "drop"
        /\ Up[m][k].kind # "drop" => c.kind \in {"add", "insert"} \cup IfNotExists
    <3>1. Up[m][k].kind # "delete"
      BY <1>2, <1>4, UpIsSeq DEF Commands, UpKinds, Creates
    <3>2. QED
      BY <2>1, <2>2, <3>1, RewrittenCommand
  <2>4. history' = history /\ astray' = astray
    BY <2>3 DEF Effect, IfNotExists
  <2>5. Begun' = Begun
    BY <2>4 DEF Begun
  <2>6. /\ \A o \in Present \ Present' : Dropped(o, Begun')
        /\ Done(m, k, Present', Begun')
    <3>1. /\ Present \subseteq AllObjects /\ c.object \in AllObjects
          /\ \A o \in AllObjects : o \in Present' <=> Makes(c, o) \/ (o \in Present /\ ~Takes(c, o))
      BY <2>3, EffectOnPresent, IndexesAreObjects DEF TypeInv, Present, RewrittenCommands
    <3>2. CASE Up[m][k].kind = "drop"
      <4>1. \A o \in Present \ Present' : o \in {Up[m][k].object} \cup PartsOf(Up[m][k].object)
        BY <2>3, <3>1, <3>2 DEF Takes
      <4>2. k \in DOMAIN Up[m]
        BY <1>2, <1>4, UpIsSeq
      <4>3. QED
        BY <1>1, <2>5, <3>2, <4>1, <4>2 DEF Dropped, Done
    <3>3. CASE Up[m][k].kind # "drop"
      <4>1. \A o : ~Takes(c, o) /\ (Makes(c, o) <=> o = c.object)
        BY <2>3, <3>3 DEF Takes, Makes, IfNotExists
      <4>2. QED
        BY <2>3, <3>1, <4>1 DEF Done
    <3>4. QED
      BY <3>2, <3>3
  <2>7. /\ \A i : Done(m, i, Present, Begun) => Done(m, i, Present', Begun')
        /\ RecordedDone'
        /\ \A e \in Deployments \ {d} : ScriptDone(e)'
    BY <1>3, <2>4, <2>5, <2>6, KeptByStep DEF ThereInv
  <2>8. \A i \in 1..((k + 1) - 1) : Done(m, i, Present', Begun')
    <3>1. \A i \in 1..((k + 1) - 1) : i = k \/ i \in 1..(k - 1)
      BY <1>1
    <3>2. QED
      BY <1>1, <2>6, <2>7, <3>1
  <2>9. ScriptDone(d)'
    BY <1>1, <1>3, <2>1, <2>5, <2>8 DEF ScriptDone
  <2>10. QED
    BY <2>7, <2>9 DEF ThereInv
<1>5. CASE k \notin 1..Len(Up[m])
  <2>1. k = Len(Up[m]) + 1 /\ c = Row("insertRow", m) /\ Tail(script[d]) = <<>>
    BY <1>1, <1>2, <1>5, HeadOfLeft
  <2>2. c.kind = "insertRow" /\ c.object = m
    BY <2>1 DEF Row
  <2>3. history' = history \cup {m} /\ astray' = astray \ {m} /\ Present' = Present
    <3>1. \A o : ~Makes(c, o) /\ ~Takes(c, o)
      BY <2>2 DEF Makes, Takes, Creates, IfNotExists
    <3>2. \A o \in AllObjects : o \in Present' <=> o \in Present
      BY <3>1, EffectOnPresent
    <3>3. Present \subseteq AllObjects /\ Present' \subseteq AllObjects
      <4>1. c \in ScriptCommands
        BY <1>2
      <4>2. objects' \subseteq AllObjects /\ failed' \subseteq AllObjects
        BY <4>1, EffectType, IndexesAreObjects
      <4>3. QED
        BY <4>2, IndexesAreObjects DEF TypeInv, Present
    <3>4. QED
      BY <2>2, <3>2, <3>3 DEF Effect
  <2>4. Begun' = Begun
    BY <1>1, <2>3 DEF Begun
  <2>5. \A i \in DOMAIN Up[m] : Done(m, i, Present, Begun)
    <3>1. DOMAIN Up[m] = 1..(k - 1)
      BY <1>2, <2>1, UpIsSeq
    <3>2. QED
      BY <1>1, <3>1
  <2>6. RecordedDone'
    BY <2>3, <2>4, <2>5 DEF ThereInv, RecordedDone
  <2>7. \A e \in Deployments \ {d} : ScriptDone(e)'
    BY <1>3, <2>3, <2>4, KeptByStep DEF ThereInv
  <2>8. ScriptDone(d)'
    BY <1>3, <2>1 DEF ScriptDone
  <2>9. QED
    BY <2>6, <2>7, <2>8 DEF ThereInv
<1>6. QED
  BY <1>4, <1>5

LEMMA StepKeepsThere ==
  ASSUME TypeInv, ThereInv, ~reverted', NEW d \in Deployments,
         StepOf(d)
  PROVE  ThereInv'
<1>1. ASSUME NEW target \in {0} \cup Migrations, Migrate(d, target)
      PROVE  ThereInv'
  <2>1. ~reverted /\ down' = [down EXCEPT ![d] = FALSE]
    BY <1>1 DEF Migrate
  <2>2. \A e \in Deployments : ~down'[e]
    BY <2>1 DEF ThereInv, TypeInv
  <2>3. UNCHANGED <<Present, history, astray, script>>
    BY <1>1, PresentUnchanged DEF Migrate
  <2>4. Begun \subseteq Begun' /\ \A o \in Present \ Present' : Dropped(o, Begun')
    BY <2>3 DEF Begun
  <2>5. RecordedDone' /\ \A e \in Deployments : ScriptDone(e)'
    BY <2>1, <2>3, <2>4, KeptByStep DEF ThereInv
  <2>6. QED
    BY <2>2, <2>5 DEF ThereInv
<1>0. CASE TurnRound(d)
  <2>1. ~reverted /\ down' = [down EXCEPT ![d] = FALSE] /\ UNCHANGED <<Present, history, astray, script>>
    BY <1>0, PresentUnchanged DEF TurnRound
  <2>2. \A e \in Deployments : ~down'[e]
    BY <2>1 DEF ThereInv, TypeInv
  <2>3. Begun \subseteq Begun' /\ \A o \in Present \ Present' : Dropped(o, Begun')
    BY <2>1 DEF Begun
  <2>4. RecordedDone' /\ \A e \in Deployments : ScriptDone(e)'
    BY <2>1, <2>3, KeptByStep DEF ThereInv
  <2>5. QED
    BY <2>2, <2>4 DEF ThereInv
<1>2. CASE NextMigration(d)
  <2>1. ~reverted /\ ~down[d] /\ UNCHANGED <<Present, history, down>>
    BY <1>2, PresentUnchanged DEF NextMigration, ThereInv
  <2>2. CASE Return(d) /\ UNCHANGED astray
    BY <2>1, <2>2, ReturnKeeps
  <2>3. CASE /\ todo[d] # {}
             /\ script' = [script EXCEPT ![d] =
                             IF down[d] THEN GenerateDownSql(NextOf(d)) ELSE GenerateUpSql(NextOf(d))]
             /\ astray' = astray \cup {NextOf(d)}
    <3>1. NextOf(d) \in Migrations
      BY <2>3, NextIsThere DEF TypeInv
    <3>2. script' = [script EXCEPT ![d] = GenerateUpSql(NextOf(d))]
      BY <2>1, <2>3
    <3>3. QED
      BY <2>1, <2>3, <3>1, <3>2, BeginKeeps
  <2>4. QED
    BY <1>2, <2>2, <2>3 DEF NextMigration
<1>3. CASE Execute(d)
  <2>1. ~reverted /\ script[d] # <<>> /\ UNCHANGED down
    BY <1>3 DEF Execute
  <2>2. CASE Executable(Head(script[d]))
    BY <1>3, <2>1, <2>2, ExecuteKeeps DEF Execute
  <2>3. CASE ~Executable(Head(script[d]))
    BY <1>3, <2>1, <2>3, ReturnKeeps, PresentUnchanged DEF Execute
  <2>4. QED
    BY <2>2, <2>3
<1>4. CASE OccError(d)
  <2>1. ~reverted /\ UNCHANGED <<Present, history, down, astray>>
    BY <1>4, PresentUnchanged DEF OccError
  <2>2. CASE UNCHANGED script
    BY <2>1, <2>2, NothingTaken, KeptByStep DEF ThereInv, Begun
  <2>3. CASE Return(d)
    BY <2>1, <2>3, ReturnKeeps
  <2>4. QED
    BY <1>4, <2>2, <2>3 DEF OccError
<1>5. CASE Crash(d)
  BY <1>5, ReturnKeeps, PresentUnchanged DEF Crash
<1>6. QED
  BY <1>0, <1>1, <1>2, <1>3, <1>4, <1>5 DEF StepOf

LEMMA UnchangedKeepsThere ==
  ASSUME ThereInv, UNCHANGED <<Present, history, astray, down, script, reverted>>
  PROVE  ThereInv'
<1>1. ASSUME ~reverted'
      PROVE  ThereInv'
  <2>1. ~reverted /\ UNCHANGED <<Present, history, astray, down, script>>
    BY <1>1
  <2>2. Begun \subseteq Begun' /\ \A o \in Present \ Present' : Dropped(o, Begun')
    BY <2>1 DEF Begun
  <2>3. RecordedDone' /\ \A e \in Deployments : ScriptDone(e)'
    BY <1>1, <2>1, <2>2, KeptByStep DEF ThereInv
  <2>4. QED
    BY <1>1, <2>1, <2>3 DEF ThereInv
<1>2. QED
  BY <1>1 DEF ThereInv

\* As long as no migration was reverted, what a recorded one made is there
\* unless one begun since drops it, or it is an index whose job failed: the
\* commands commit one by one in their order and the row after them all
\* (GenerateUpSql), a create that finds its table or index changes nothing, so
\* that two deployments may apply the same migration at once, and may crash.
THEOREM RecordedStaysThere == Spec => []RecordedIsThere
<1>1. Init => ThereInv
  BY DEF Init, ThereInv, RecordedDone, ScriptDone
<1>2. TypeInv /\ ThereInv /\ [Next]_vars => ThereInv'
  <2>1. ASSUME TypeInv, ThereInv, NEW d \in Deployments, StepOf(d), ~reverted'
        PROVE  ThereInv'
    BY <2>1, StepKeepsThere
  <2>2. reverted' => ThereInv'
    BY DEF ThereInv
  <2>3. ASSUME TypeInv, ThereInv, NEW o \in AllObjects, JobSucceeds(o) \/ JobFails(o)
        PROVE  ThereInv'
    BY <2>3, JobOnPresent, UnchangedKeepsThere
  <2>4. ASSUME ThereInv, UNCHANGED vars
        PROVE  ThereInv'
    BY <2>4, PresentUnchanged, UnchangedKeepsThere DEF vars
  <2>5. QED
    BY <2>1, <2>2, <2>3, <2>4 DEF Next
<1>3. QED
  BY <1>1, <1>2, Types, ThereInvIsEnough, PTL DEF Spec

=============================================================================
