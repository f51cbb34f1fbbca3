---------------------------- MODULE EfHistoryProofs ----------------------------
(***************************************************************************)
(* Proofs about EfMigrations, where deployments take turns: the database   *)
(* is what the history says, and a migration that only creates can be      *)
(* applied again wherever it was interrupted.                              *)
(***************************************************************************)
EXTENDS EfMigrationsProofs

-----------------------------------------------------------------------------
(* Commands in their order, and the objects they leave behind.             *)

\* Rewritten, a command makes and takes the same.
LEMMA RewrittenDoesTheSame ==
  ASSUME NEW c \in PlainCommands, NEW o
  PROVE  /\ Makes(Rewritten(c), o) <=> Makes(c, o)
         /\ Takes(Rewritten(c), o) <=> Takes(c, o)
<1>1. /\ Rewritten(c).object = c.object
      /\ c.kind \in {"drop", "delete"} => Rewritten(c).kind = c.kind
      /\ c.kind \notin {"drop", "delete"} => Rewritten(c).kind \in {"add", "insert"} \cup IfNotExists
  BY RewrittenCommand
<1>2. c.kind \in Creates \cup {"add", "insert", "drop", "delete"}
  BY DEF PlainCommands, UpKinds
<1>3. CASE c.kind \in {"drop", "delete"}
  BY <1>1, <1>3 DEF Makes, Takes, Creates, IfNotExists
<1>4. CASE c.kind \notin {"drop", "delete"}
  BY <1>1, <1>2, <1>4 DEF Makes, Takes, IfNotExists
<1>5. QED
  BY <1>3, <1>4

\* An executed command makes its object, or takes it and what is part of it.
LEMMA CommandEffect ==
  ASSUME TypeInv, NEW c \in RewrittenCommands, Effect(c)
  PROVE  /\ \A o \in AllObjects : o \in Present' <=> Makes(c, o) \/ (o \in Present /\ ~Takes(c, o))
         /\ history' = history /\ astray' = astray
<1>1. history' = history /\ astray' = astray
  BY DEF Effect, RewrittenCommands, IfNotExists
<1>2. QED
  BY <1>1, EffectOnPresent

\* One command more.
LEMMA OneMore ==
  ASSUME NEW cs, NEW k \in Nat, NEW o
  PROVE  /\ Leaves(cs, k + 1, o) <=>
              Makes(cs[k + 1], o) \/ (Leaves(cs, k, o) /\ ~Takes(cs[k + 1], o))
         /\ Touches(cs, k + 1, o) <=>
              Touches(cs, k, o) \/ Makes(cs[k + 1], o) \/ Takes(cs[k + 1], o)
<1>1. \A i : i \in 1..(k + 1) <=> i \in 1..k \/ i = k + 1
  OBVIOUS
<1>2. \A i \in 1..k : \A j : j \in (i + 1)..(k + 1) <=> j \in (i + 1)..k \/ j = k + 1
  OBVIOUS
<1>3. ((k + 1) + 1)..(k + 1) = {}
  OBVIOUS
<1>4. Touches(cs, k + 1, o) <=>
        Touches(cs, k, o) \/ Makes(cs[k + 1], o) \/ Takes(cs[k + 1], o)
  BY <1>1 DEF Touches
<1>5. ASSUME Leaves(cs, k + 1, o), ~Makes(cs[k + 1], o)
      PROVE  Leaves(cs, k, o) /\ ~Takes(cs[k + 1], o)
  <2>1. PICK i \in 1..(k + 1) :
          Makes(cs[i], o) /\ \A j \in (i + 1)..(k + 1) : ~Takes(cs[j], o)
    BY <1>5 DEF Leaves
  <2>2. i \in 1..k
    BY <1>1, <1>5, <2>1
  <2>3. QED
    BY <1>2, <2>1, <2>2 DEF Leaves
<1>6. Makes(cs[k + 1], o) => Leaves(cs, k + 1, o)
  BY <1>1, <1>3 DEF Leaves
<1>7. ASSUME Leaves(cs, k, o), ~Takes(cs[k + 1], o)
      PROVE  Leaves(cs, k + 1, o)
  BY <1>1, <1>2, <1>7 DEF Leaves
<1>8. QED
  BY <1>4, <1>5, <1>6, <1>7

\* After one migration more, there is what it leaves, and what was there before
\* that it does not touch.
LEMMA OneMigrationMore ==
  ASSUME NEW m \in Migrations, NEW o \in AllObjects
  PROVE  o \in SchemaOf(Below(m) \cup {m}) <=>
           \/ Leaves(Up[m], Len(Up[m]), o)
           \/ ~Touches(Up[m], Len(Up[m]), o) /\ o \in SchemaOf(Below(m))
<1> DEFINE n == Len(Up[m])
           ms == Below(m) \cup {m}
<1>1. n \in Nat /\ DOMAIN Up[m] = 1..n /\ Migrations \subseteq Nat
  BY UpIsSeq, EfAssumption
<1>2. \A x \in ms : ~(x > m) /\ (x # m => x \in Below(m) /\ m > x)
  BY <1>1 DEF Below
<1>3. ASSUME Leaves(Up[m], n, o)
      PROVE  o \in SchemaOf(ms)
  BY <1>2, <1>3 DEF SchemaOf
<1>4. ASSUME ~Touches(Up[m], n, o), o \in SchemaOf(Below(m))
      PROVE  o \in SchemaOf(ms)
  <2>1. \A j \in 1..n : ~Takes(Up[m][j], o)
    BY <1>4 DEF Touches
  <2>2. PICK x \in Below(m) : /\ Leaves(Up[x], Len(Up[x]), o)
                              /\ \A y \in Below(m) : y > x => \A j \in DOMAIN Up[y] : ~Takes(Up[y][j], o)
    BY <1>4 DEF SchemaOf
  <2>3. \A y \in ms : y > x => \A j \in DOMAIN Up[y] : ~Takes(Up[y][j], o)
    BY <1>1, <2>1, <2>2
  <2>4. QED
    BY <2>2, <2>3 DEF SchemaOf
<1>5. ASSUME o \in SchemaOf(ms), ~Leaves(Up[m], n, o)
      PROVE  ~Touches(Up[m], n, o) /\ o \in SchemaOf(Below(m))
  <2>1. PICK x \in ms : /\ Leaves(Up[x], Len(Up[x]), o)
                        /\ \A y \in ms : y > x => \A j \in DOMAIN Up[y] : ~Takes(Up[y][j], o)
    BY <1>5 DEF SchemaOf
  <2>2. x \in Below(m) /\ m > x
    BY <1>2, <1>5, <2>1
  <2>3. \A j \in 1..n : ~Takes(Up[m][j], o)
    BY <1>1, <2>1, <2>2
  <2>4. \A j \in 1..n : ~Makes(Up[m][j], o)
    <3>1. \A i \in 1..n : (i + 1)..n \subseteq 1..n
      BY <1>1
    <3>2. QED
      BY <1>5, <2>3, <3>1 DEF Leaves
  <2>5. o \in SchemaOf(Below(m))
    BY <2>1, <2>2 DEF SchemaOf
  <2>6. QED
    BY <2>3, <2>4, <2>5 DEF Touches
<1>6. QED
  BY <1>3, <1>4, <1>5

-----------------------------------------------------------------------------
(* Scripts.                                                                *)

\* sql is what these commands become, the row coming last.
IsScriptOf(sql, commands, row) ==
  /\ sql \in Seq(ScriptCommands) /\ Len(commands) \in Nat
  /\ Len(sql) = Len(commands) + 1
  /\ \A i \in 1..Len(commands) :
       commands[i] \in PlainCommands /\ sql[i] = Rewritten(commands[i])
  /\ sql[Len(commands) + 1] = row

LEMMA UpScript ==
  ASSUME NEW m \in Migrations
  PROVE  IsScriptOf(GenerateUpSql(m), Up[m], Row("insertRow", m))
BY UpIsSeq, UpIsPlain, UpSql DEF IsScriptOf

LEMMA DownScript ==
  ASSUME NEW m \in Migrations
  PROVE  /\ IsScriptOf(GenerateDownSql(m), Down(m), Row("deleteRow", m))
         /\ Len(Down(m)) = Len(Up[m])
BY UpIsSeq, DownIsPlain, DownSql DEF IsScriptOf

\* s is what is left of sql, from its k-th command on.
Remains(s, sql, k) ==
  /\ k \in 1..Len(sql) /\ Len(s) = Len(sql) + 1 - k
  /\ \A i \in 1..Len(s) : s[i] = sql[k - 1 + i]

LEMMA HeadOfRemains ==
  ASSUME NEW s \in Seq(ScriptCommands), NEW sql \in Seq(ScriptCommands), NEW k,
         Remains(s, sql, k)
  PROVE  /\ k \in 1..Len(sql) /\ Head(s) = sql[k]
         /\ k # Len(sql) => Remains(Tail(s), sql, k + 1)
         /\ k = Len(sql) => Tail(s) = <<>>
<1>1. /\ Len(sql) \in Nat /\ k \in 1..Len(sql) /\ Len(s) = Len(sql) + 1 - k
      /\ \A i \in 1..Len(s) : s[i] = sql[k - 1 + i]
  BY DEF Remains
<1>2. Len(s) >= 1 /\ Head(s) = s[1] /\ s[1] = sql[k]
  BY <1>1
<1>3. Len(Tail(s)) = Len(sql) + 1 - (k + 1) /\ \A i \in 1..Len(Tail(s)) : Tail(s)[i] = s[i + 1]
  BY <1>1, <1>2
<1>4. \A i \in 1..Len(Tail(s)) : Tail(s)[i] = sql[(k + 1) - 1 + i]
  BY <1>1, <1>3
<1>5. k # Len(sql) => Remains(Tail(s), sql, k + 1)
  BY <1>1, <1>3, <1>4 DEF Remains
<1>6. k = Len(sql) => Tail(s) = <<>>
  <2>1. Tail(s) \in Seq(ScriptCommands)
    BY <1>1, <1>2
  <2>2. QED
    BY <1>1, <1>3, <2>1, NoneIsEmpty
<1>7. QED
  BY <1>1, <1>2, <1>5, <1>6

-----------------------------------------------------------------------------
(* The invariant.                                                          *)

Plan(d, m) == IF down[d] THEN Down(m) ELSE Up[m]
Sql(d, m)  == IF down[d] THEN GenerateDownSql(m) ELSE GenerateUpSql(m)

\* What deployment d has left to do: with what it has in hand, it is all that
\* is below and not applied, or all that is applied and above.
TodoInOrder(d, hand) ==
  IF down[d]
  THEN \A x \in todo[d] :
         /\ x \in history \ hand
         /\ \A n \in history : n > x => n \in todo[d] \cup hand
  ELSE \A x \in todo[d] :
         /\ x \notin history \cup hand
         /\ \A n \in Below(x) : n \in history \cup todo[d] \cup hand

\* The first k of these commands were executed: what they touch is there if they
\* leave it behind.
Executed(commands, k) ==
  \A o \in AllObjects : Touches(commands, k, o) => (o \in Present <=> Leaves(commands, k, o))

\* Deployment d executes migration m, the next above the history or its newest.
InHand(d, m) ==
  /\ m \in astray
  /\ IF down[d] THEN m \in history /\ \A n \in history : n <= m ELSE history = Below(m)
  /\ TodoInOrder(d, {m})
  /\ \E k \in Nat : Remains(script[d], Sql(d, m), k) /\ Executed(Plan(d, m), k - 1)

\* One deployment runs at a time, and the history has no gaps.
OrderInv ==
  /\ \A d, e \in Deployments : pc[d] = "running" /\ pc[e] = "running" => d = e
  /\ \A m \in history : Below(m) \subseteq history
  /\ \A d \in Deployments :
       /\ later[d] = {}
       /\ pc[d] = "idle" => script[d] = <<>>
       /\ pc[d] = "running" /\ down[d] => reverted
       /\ pc[d] = "running" /\ script[d] = <<>> => TodoInOrder(d, {})
       /\ script[d] # <<>> => \E m \in Migrations : InHand(d, m)

\* An interrupted migration a may have left o as it should not be: if a is
\* recorded it was being reverted, else applied.
Dirty(a, o) ==
  IF a \in history THEN Touches(Down(a), Len(Up[a]), o) ELSE Touches(Up[a], Len(Up[a]), o)

Agrees(o) ==
  /\ o \in Present => o \in SchemaOf(history)
  /\ o \in SchemaOf(history) /\ o \notin Present => reverted /\ o \in Rows

\* What no interrupted migration touched is as the history says.
SchemaInv ==
  (reverted => DownUndoesUp) =>
    \A o \in AllObjects : (\A a \in astray : ~Dirty(a, o)) => Agrees(o)

TurnsInv == ~overlapped => OrderInv /\ SchemaInv

LEMMA AtTheBeginning == Init => TurnsInv
<1>1. ASSUME Init
      PROVE  OrderInv
  BY <1>1 DEF Init, OrderInv
<1>2. ASSUME Init
      PROVE  SchemaInv
  BY <1>2 DEF Init, SchemaInv, Agrees, SchemaOf, Present
<1>3. QED
  BY <1>1, <1>2 DEF TurnsInv

LEMMA Agreement ==
  ASSUME TurnsInv, ~overlapped, astray = {}, DownUndoesUp \/ ~reverted, TypeInv
  PROVE  HistoryIsSchema
BY IndexesAreObjects DEF TurnsInv, SchemaInv, Agrees, HistoryIsSchema, SchemaOf, TypeInv, Present

\* The others do nothing while d runs, and still do nothing.
LEMMA OthersIdle ==
  ASSUME TypeInv, OrderInv, NEW d \in Deployments, pc[d] = "running"
  PROVE  \A e \in Deployments \ {d} : pc[e] = "idle" /\ script[e] = <<>>
BY DEF TypeInv, OrderInv

\* A step of d that does not concern the others.
LEMMA StepOfOne ==
  ASSUME TypeInv, OrderInv, NEW d \in Deployments, pc[d] = "running",
         \A e \in Deployments \ {d} : pc'[e] = pc[e] /\ script'[e] = script[e],
         \A m \in history' : Below(m) \subseteq history', later' = later \/ Return(d),
         pc'[d] = "idle" => script'[d] = <<>>,
         pc'[d] = "running" /\ down'[d] => reverted',
         pc'[d] = "running" /\ script'[d] = <<>> => TodoInOrder(d, {})',
         script'[d] # <<>> => \E m \in Migrations : InHand(d, m)'
  PROVE  OrderInv'
<1>1. \A e \in Deployments \ {d} : pc'[e] = "idle" /\ script'[e] = <<>>
  BY OthersIdle
<1>0. \A e \in Deployments : later'[e] = {}
  BY DEF TypeInv, OrderInv, Return
<1>2. \A e, f \in Deployments : pc'[e] = "running" /\ pc'[f] = "running" => e = f
  <2>1. \A e \in Deployments : pc'[e] = "running" => e = d
    BY <1>1
  <2>2. QED
    BY <2>1
<1>3. ASSUME NEW e \in Deployments
      PROVE  /\ pc'[e] = "idle" => script'[e] = <<>>
             /\ pc'[e] = "running" /\ down'[e] => reverted'
             /\ pc'[e] = "running" /\ script'[e] = <<>> => TodoInOrder(e, {})'
             /\ script'[e] # <<>> => \E m \in Migrations : InHand(e, m)'
  <2>1. CASE e = d
    BY <2>1
  <2>2. CASE e # d
    <3>1. pc'[e] = "idle" /\ script'[e] = <<>>
      BY <1>1, <2>2
    <3>2. QED
      BY <3>1
  <2>3. QED
    BY <2>1, <2>2
<1>4. QED
  BY <1>0, <1>2, <1>3 DEF OrderInv

LEMMA SameSchema ==
  ASSUME SchemaInv, UNCHANGED <<Present, history>>, astray \subseteq astray',
         reverted => reverted'
  PROVE  SchemaInv'
BY DEF SchemaInv, Agrees, Dirty, SchemaOf

LEMMA ReturnKeepsTurns ==
  ASSUME TypeInv, OrderInv, SchemaInv, NEW d \in Deployments, pc[d] = "running", Return(d),
         UNCHANGED <<Present, history, astray, reverted>>
  PROVE  OrderInv' /\ SchemaInv'
<1>1. /\ pc'[d] = "idle" /\ script'[d] = <<>>
      /\ \A e \in Deployments \ {d} : pc'[e] = pc[e] /\ script'[e] = script[e]
  BY DEF Return, TypeInv
<1>2. \A m \in history' : Below(m) \subseteq history'
  BY DEF OrderInv
<1>3. OrderInv'
  BY <1>1, <1>2, StepOfOne, Zenon
<1>4. QED
  BY <1>3, SameSchema

LEMMA MigrateKeepsTurns ==
  ASSUME TypeInv, TurnsInv, ~overlapped', NEW d \in Deployments,
         NEW target \in {0} \cup Migrations, Migrate(d, target)
  PROVE  OrderInv' /\ SchemaInv'
<1> DEFINE above == {m \in history : m > target}
           below == {m \in Migrations \ history : m <= target}
<1>1. /\ down' = [down EXCEPT ![d] = above # {}]
      /\ todo' = [todo EXCEPT ![d] = IF above # {} THEN above ELSE below]
      /\ reverted' = (reverted \/ above # {})
      /\ pc' = [pc EXCEPT ![d] = "running"]
      /\ later' = [later EXCEPT ![d] = IF above # {} THEN below ELSE {}]
      /\ UNCHANGED <<Present, history, script, astray>>
      /\ ~overlapped /\ \A e \in Deployments : pc[e] # "running"
  BY PresentUnchanged DEF Migrate
<1>2. OrderInv /\ SchemaInv
  BY <1>1 DEF TurnsInv
<1>3. /\ \A e \in Deployments : script'[e] = <<>>
      /\ \A e \in Deployments : pc'[e] = "running" => e = d
  BY <1>1, <1>2 DEF OrderInv, TypeInv
<1>4. /\ down'[d] = (above # {})
      /\ todo'[d] = IF above # {} THEN above ELSE below
  BY <1>1 DEF TypeInv
<1>5. Migrations \subseteq Nat /\ history \subseteq Migrations /\ target \in Nat
  BY EfAssumption DEF TypeInv
<1>6. TodoInOrder(d, {})'
  <2>1. CASE above # {}
    <3>1. \A x \in above : x \in history /\ \A n \in history : n > x => n \in above
      BY <1>5
    <3>2. down'[d] /\ todo'[d] = above /\ history' = history
      BY <1>1, <1>4, <2>1
    <3> HIDE DEF above, below
    <3>3. QED
      BY <3>1, <3>2 DEF TodoInOrder
  <2>2. CASE above = {}
    <3>1. \A x \in below : x \notin history /\ \A n \in Below(x) : n \in history \cup below
      BY <1>5 DEF Below
    <3>2. ~down'[d] /\ todo'[d] = below /\ history' = history
      BY <1>1, <1>4, <2>2
    <3> HIDE DEF above, below
    <3>3. QED
      BY <3>1, <3>2 DEF TodoInOrder
  <2>3. QED
    BY <2>1, <2>2
<1>7. down'[d] => reverted'
  BY <1>1, <1>4
<1>8. \A m \in history' : Below(m) \subseteq history'
  BY <1>1, <1>2 DEF OrderInv
\* The history having no gaps, there is nothing to apply below what is reverted.
<1>0. \A e \in Deployments : later'[e] = {}
  <2>1. ASSUME above # {}
        PROVE  below = {}
    <3>1. PICK m \in history : m > target
      BY <2>1
    <3>2. \A x \in below : x \in Below(m)
      BY <1>5, <3>1 DEF Below
    <3>3. QED
      BY <1>2, <3>2 DEF OrderInv
  <2>2. (IF above # {} THEN below ELSE {}) = {}
    BY <2>1
  <2> HIDE DEF above, below
  <2>3. QED
    BY <1>1, <1>2, <2>2 DEF OrderInv, TypeInv
<1> HIDE DEF above, below
<1>9. OrderInv'
  BY <1>0, <1>3, <1>6, <1>7, <1>8 DEF OrderInv
<1>10. QED
  BY <1>1, <1>2, <1>9, SameSchema

\* NextOf is the smallest to be applied, or the newest to be reverted.
LEMMA NextInOrder ==
  ASSUME NEW d, todo[d] \subseteq Migrations, todo[d] # {}, down[d] \in BOOLEAN
  PROVE  /\ NextOf(d) \in todo[d]
         /\ \A n \in todo[d] : IF down[d] THEN n <= NextOf(d) ELSE NextOf(d) <= n
<1>1. \E m \in todo[d] : \A n \in todo[d] : IF down[d] THEN n <= m ELSE m <= n
  <2>1. CASE down[d]
    BY <2>1, OrderAssumption
  <2>2. CASE ~down[d]
    BY <2>2, OrderAssumption
  <2>3. QED
    BY <2>1, <2>2
<1>2. QED
  BY <1>1 DEF NextOf

LEMMA ScriptsOfMigration ==
  ASSUME NEW m \in Migrations, NEW b \in BOOLEAN
  PROVE  IsScriptOf(IF b THEN GenerateDownSql(m) ELSE GenerateUpSql(m),
                    IF b THEN Down(m) ELSE Up[m],
                    Row(IF b THEN "deleteRow" ELSE "insertRow", m))
BY UpScript, DownScript, Zenon

\* A migration is taken in hand: the next after the history, or its newest.
LEMMA BeginKeepsTurns ==
  ASSUME TypeInv, OrderInv, SchemaInv, NEW d \in Deployments, pc[d] = "running",
         script[d] = <<>>, todo[d] # {},
         script' = [script EXCEPT ![d] =
                      IF down[d] THEN GenerateDownSql(NextOf(d)) ELSE GenerateUpSql(NextOf(d))],
         todo' = [todo EXCEPT ![d] = todo[d] \ {NextOf(d)}],
         astray' = astray \cup {NextOf(d)},
         UNCHANGED <<Present, history, pc, later, down, reverted>>
  PROVE  OrderInv' /\ SchemaInv'
<1>1. /\ todo[d] \subseteq Migrations /\ down[d] \in BOOLEAN /\ Migrations \subseteq Nat
      /\ history \subseteq Migrations
  BY EfAssumption DEF TypeInv
<1>2. /\ NextOf(d) \in todo[d]
      /\ \A n \in todo[d] : IF down[d] THEN n <= NextOf(d) ELSE NextOf(d) <= n
  BY <1>1, NextInOrder
<1>3. PICK m \in Migrations : m = NextOf(d)
  BY <1>1, <1>2
<1>4. /\ script'[d] = IF down[d] THEN GenerateDownSql(m) ELSE GenerateUpSql(m)
      /\ todo'[d] = todo[d] \ {m} /\ down'[d] = down[d] /\ m \in astray'
      /\ \A e \in Deployments \ {d} : pc'[e] = pc[e] /\ script'[e] = script[e]
  BY <1>3 DEF TypeInv
<1>5. TodoInOrder(d, {}) /\ (\A n \in history : Below(n) \subseteq history)
  BY DEF OrderInv
<1>6. TodoInOrder(d, {m})' /\ (IF down[d] THEN m \in history /\ \A n \in history : n <= m
                                ELSE history = Below(m))
  <2>1. CASE down[d]
    <3>1. \A x \in todo[d] : x \in history /\ \A n \in history : n > x => n \in todo[d]
      BY <1>5, <2>1 DEF TodoInOrder
    <3>2. m \in history /\ \A n \in history : n <= m
      BY <1>1, <1>2, <1>3, <2>1, <3>1
    <3>3. \A x \in todo'[d] : /\ x \in history' \ {m}
                              /\ \A n \in history' : n > x => n \in todo'[d] \cup {m}
      BY <1>4, <3>1
    <3>4. QED
      BY <1>4, <2>1, <3>2, <3>3 DEF TodoInOrder
  <2>2. CASE ~down[d]
    <3>1. \A x \in todo[d] : x \notin history /\ \A n \in Below(x) : n \in history \cup todo[d]
      BY <1>5, <2>2 DEF TodoInOrder
    <3>2. history = Below(m)
      <4>1. Below(m) \subseteq history
        <5>1. SUFFICES ASSUME NEW n \in Below(m)
                       PROVE  n \in history
          OBVIOUS
        <5>2. n \in history \cup todo[d]
          BY <1>2, <1>3, <3>1
        <5>3. n \in Nat /\ m \in Nat /\ n < m
          BY <1>1 DEF Below
        <5>4. n \notin todo[d]
          BY <1>2, <1>3, <2>2, <5>3
        <5>5. QED
          BY <5>2, <5>4
      <4>2. \A n \in history : n \in Below(m)
        BY <1>1, <1>2, <1>3, <1>5, <3>1 DEF Below
      <4>3. QED
        BY <4>1, <4>2
    <3>3. \A x \in todo'[d] : /\ x \notin history' \cup {m}
                              /\ \A n \in Below(x) : n \in history' \cup todo'[d] \cup {m}
      BY <1>4, <3>1
    <3>4. QED
      BY <1>4, <2>2, <3>2, <3>3 DEF TodoInOrder
  <2>3. QED
    BY <1>1, <2>1, <2>2
<1> DEFINE sql == IF down[d] THEN GenerateDownSql(m) ELSE GenerateUpSql(m)
<1>7. IsScriptOf(sql, IF down[d] THEN Down(m) ELSE Up[m],
                 Row(IF down[d] THEN "deleteRow" ELSE "insertRow", m))
  BY <1>1, ScriptsOfMigration
<1>8. sql \in Seq(ScriptCommands) /\ Len(sql) \in Nat /\ Len(sql) >= 1
  BY <1>7 DEF IsScriptOf
<1>9. script'[d] = sql /\ Sql(d, m)' = sql
  BY <1>4 DEF Sql
<1> HIDE DEF sql
<1>10. Remains(sql, sql, 1) /\ sql # <<>>
  BY <1>8 DEF Remains
<1>11. Remains(script'[d], Sql(d, m)', 1)
  BY <1>9, <1>10
<1>12. Executed(Plan(d, m), 1 - 1)'
  BY DEF Executed, Touches
<1>13. InHand(d, m)'
  <2>1. IF down'[d] THEN m \in history' /\ \A n \in history' : n <= m ELSE history' = Below(m)
    BY <1>4, <1>6
  <2>2. QED
    BY <1>4, <1>6, <1>11, <1>12, <2>1 DEF InHand
<1>14. \A n \in history' : Below(n) \subseteq history'
  BY <1>5
<1>15. pc'[d] = "running" /\ script'[d] # <<>> /\ (pc'[d] = "running" /\ down'[d] => reverted')
  BY <1>9, <1>10 DEF OrderInv
<1>16. OrderInv'
  BY <1>3, <1>4, <1>13, <1>14, <1>15, StepOfOne
<1>17. QED
  BY <1>16, SameSchema

\* A command of the migration in hand commits, the row not yet being next.
LEMMA CommandKeepsTurns ==
  ASSUME TypeInv, OrderInv, SchemaInv, NEW d \in Deployments, pc[d] = "running",
         NEW m \in Migrations, m \in astray,
         IF down[d] THEN m \in history /\ \A n \in history : n <= m ELSE history = Below(m),
         TodoInOrder(d, {m}),
         NEW cs, NEW sql, NEW row, IsScriptOf(sql, cs, row),
         cs = Plan(d, m), sql = Sql(d, m),
         NEW k \in Nat, Remains(script[d], sql, k), Executed(cs, k - 1), k # Len(sql),
         Effect(Head(script[d])), script' = [script EXCEPT ![d] = Tail(script[d])],
         UNCHANGED <<pc, todo, later, down, reverted>>
  PROVE  OrderInv' /\ SchemaInv'
<1>1. /\ sql \in Seq(ScriptCommands) /\ Len(cs) \in Nat /\ Len(sql) = Len(cs) + 1
      /\ script[d] \in Seq(ScriptCommands)
  BY DEF IsScriptOf, TypeInv
<1>2. k \in 1..Len(sql) /\ Head(script[d]) = sql[k] /\ Remains(Tail(script[d]), sql, k + 1)
  BY <1>1, HeadOfRemains
<1>3. k \in 1..Len(cs)
  BY <1>1, <1>2
<1>4. cs[k] \in PlainCommands /\ sql[k] = Rewritten(cs[k])
  BY <1>3 DEF IsScriptOf
<1>5. /\ \A o \in AllObjects :
           o \in Present' <=> Makes(cs[k], o) \/ (o \in Present /\ ~Takes(cs[k], o))
      /\ history' = history /\ astray' = astray
  <2>1. /\ Rewritten(cs[k]) \in RewrittenCommands
        /\ \A o : /\ Makes(Rewritten(cs[k]), o) <=> Makes(cs[k], o)
                  /\ Takes(Rewritten(cs[k]), o) <=> Takes(cs[k], o)
    BY <1>4, RewrittenDoesTheSame, RewrittenCommand
  <2>2. Effect(Rewritten(cs[k]))
    BY <1>2, <1>4
  <2>3. QED
    BY <2>1, <2>2, CommandEffect
<1>6. \A o : ~(Makes(cs[k], o) /\ Takes(cs[k], o))
  BY DEF Makes, Takes, Creates, IfNotExists
<1>7. Executed(cs, (k + 1) - 1)'
  <2>1. SUFFICES ASSUME NEW o \in AllObjects, Touches(cs, k, o)
                 PROVE  o \in Present' <=> Leaves(cs, k, o)
    BY DEF Executed
  <2>2. /\ Leaves(cs, k, o) <=> Makes(cs[k], o) \/ (Leaves(cs, k - 1, o) /\ ~Takes(cs[k], o))
        /\ Touches(cs, k, o) <=> Touches(cs, k - 1, o) \/ Makes(cs[k], o) \/ Takes(cs[k], o)
    <3>1. k - 1 \in Nat /\ (k - 1) + 1 = k
      BY <1>3
    <3>2. QED
      BY <3>1, OneMore
  <2>3. Touches(cs, k - 1, o) => (o \in Present <=> Leaves(cs, k - 1, o))
    BY DEF Executed
  <2>4. QED
    BY <1>5, <1>6, <2>1, <2>2, <2>3
<1>8. /\ script'[d] = Tail(script[d])
      /\ \A e \in Deployments \ {d} : pc'[e] = pc[e] /\ script'[e] = script[e]
  BY DEF TypeInv
<1>9. Plan(d, m)' = cs /\ Sql(d, m)' = sql /\ TodoInOrder(d, {m})'
  BY <1>5 DEF Plan, Sql, TodoInOrder
<1>10. InHand(d, m)'
  <2>1. IF down'[d] THEN m \in history' /\ \A n \in history' : n <= m ELSE history' = Below(m)
    BY <1>5
  <2>2. Remains(script'[d], Sql(d, m)', k + 1) /\ Executed(Plan(d, m), (k + 1) - 1)'
    BY <1>2, <1>7, <1>8, <1>9
  <2>3. QED
    BY <1>5, <1>9, <2>1, <2>2 DEF InHand
<1>11. script'[d] # <<>>
  <2>1. Tail(script[d]) # <<>>
    <3>1. PICK t, n : t = Tail(script[d]) /\ n = Len(sql)
      OBVIOUS
    <3>2. k + 1 \in 1..n /\ Len(t) = n + 1 - (k + 1) /\ n \in Nat
      BY <1>1, <1>2, <3>1 DEF Remains
    <3>3. Len(t) # 0
      BY <3>2
    <3>4. Len(<<>>) = 0
      OBVIOUS
    <3>5. QED
      BY <3>1, <3>3, <3>4
  <2>2. QED
    BY <1>8, <2>1
<1>12. OrderInv'
  <2>1. pc'[d] = "running" /\ (pc'[d] = "running" /\ down'[d] => reverted')
    BY DEF OrderInv
  <2>2. \A n \in history' : Below(n) \subseteq history'
    BY <1>5 DEF OrderInv
  <2>3. QED
    BY <1>8, <1>10, <1>11, <2>1, <2>2, StepOfOne
<1>13. SchemaInv'
  <2>1. SUFFICES ASSUME reverted => DownUndoesUp, NEW o \in AllObjects,
                        \A a \in astray : ~Dirty(a, o)
                 PROVE  Agrees(o)'
    BY <1>5 DEF SchemaInv, Dirty
  <2>2. Agrees(o)
    BY <2>1 DEF SchemaInv
  <2>3. ~Touches(cs, Len(cs), o)
    <3>1. m \in history <=> down[d]
      BY EfAssumption DEF Below, TypeInv
    <3>2. Len(Up[m]) = Len(cs)
      BY DownScript DEF Plan
    <3>3. QED
      BY <2>1, <3>1, <3>2 DEF Dirty, Plan
  <2>4. ~Makes(cs[k], o) /\ ~Takes(cs[k], o)
    BY <1>3, <2>3 DEF Touches
  <2>5. o \in Present' <=> o \in Present
    BY <1>5, <2>4
  <2>6. QED
    BY <1>5, <2>2, <2>5 DEF Agrees
<1>14. QED
  BY <1>12, <1>13

\* The last command is the row of the migration in hand.
LEMMA RowKeepsTurns ==
  ASSUME TypeInv, OrderInv, SchemaInv, NEW d \in Deployments, pc[d] = "running",
         NEW m \in Migrations, m \in astray,
         IF down[d] THEN m \in history /\ \A n \in history : n <= m ELSE history = Below(m),
         TodoInOrder(d, {m}),
         NEW cs, NEW sql, IsScriptOf(sql, cs, Row(IF down[d] THEN "deleteRow" ELSE "insertRow", m)),
         cs = Plan(d, m), sql = Sql(d, m),
         Remains(script[d], sql, Len(sql)), Executed(cs, Len(cs)),
         Effect(Head(script[d])), script' = [script EXCEPT ![d] = Tail(script[d])],
         UNCHANGED <<pc, todo, later, down, reverted>>
  PROVE  OrderInv' /\ SchemaInv'
<1> DEFINE row == Row(IF down[d] THEN "deleteRow" ELSE "insertRow", m)
<1>1. /\ sql \in Seq(ScriptCommands) /\ Len(cs) \in Nat /\ Len(sql) = Len(cs) + 1
      /\ script[d] \in Seq(ScriptCommands) /\ sql[Len(cs) + 1] = row
  BY DEF IsScriptOf, TypeInv
<1>2. Head(script[d]) = row /\ Tail(script[d]) = <<>>
  BY <1>1, HeadOfRemains
<1>3. /\ script'[d] = <<>>
      /\ \A e \in Deployments \ {d} : pc'[e] = pc[e] /\ script'[e] = script[e]
  BY <1>2 DEF TypeInv
<1>4. /\ Present' = Present /\ astray' = astray \ {m}
      /\ history' = IF down[d] THEN history \ {m} ELSE history \cup {m}
  <2>1. Effect(row)
    BY <1>2
  <2>2. row.object = m /\ row.kind = IF down[d] THEN "deleteRow" ELSE "insertRow"
    BY DEF Row
  <2> HIDE DEF row
  <2>3. \A o : ~Makes(row, o) /\ ~Takes(row, o)
    BY <2>2 DEF Makes, Takes, Creates, IfNotExists
  <2>4. \A o \in AllObjects : o \in Present' <=> o \in Present
    BY <2>1, <2>3, EffectOnPresent
  <2>5. Present \subseteq AllObjects /\ Present' \subseteq AllObjects
    <3>1. row \in ScriptCommands
      BY RowCommand DEF row
    <3>2. objects' \subseteq AllObjects /\ failed' \subseteq AllObjects
      BY <2>1, <3>1, EffectType, IndexesAreObjects
    <3>3. QED
      BY <3>2, IndexesAreObjects DEF TypeInv, Present
  <2>6. QED
    BY <2>1, <2>2, <2>4, <2>5 DEF Effect
<1>5. Migrations \subseteq Nat /\ history \subseteq Migrations /\ m \in Nat
  BY EfAssumption DEF TypeInv
<1>6. m \in history <=> down[d]
  BY <1>5 DEF Below
<1>7. IF down[d] THEN history = Below(m) \cup {m} /\ history' = Below(m)
      ELSE history = Below(m) /\ history' = Below(m) \cup {m}
  <2>1. CASE down[d]
    <3>1. ASSUME NEW n \in history
          PROVE  n \in Below(m) \cup {m}
      <4>1. n <= m /\ n \in Nat /\ m \in Nat /\ n \in Migrations
        BY <1>5, <2>1
      <4>2. n = m \/ n < m
        BY <4>1
      <4>3. QED
        BY <4>1, <4>2 DEF Below
    <3>2. Below(m) \subseteq history /\ m \notin Below(m)
      BY <1>5, <2>1 DEF OrderInv, Below
    <3>3. history = Below(m) \cup {m}
      BY <2>1, <3>1, <3>2
    <3>4. QED
      BY <1>4, <2>1, <3>2, <3>3
  <2>2. CASE ~down[d]
    BY <1>4, <2>2
  <2>3. QED
    BY <2>1, <2>2
<1>8. \A n \in history' : Below(n) \subseteq history'
  <2>1. ASSUME NEW n \in Below(m), NEW x \in Below(n)
        PROVE  x \in Below(m)
    <3>1. n \in Nat /\ x \in Nat /\ m \in Nat /\ x < n /\ n < m /\ x \in Migrations
      BY <1>5 DEF Below
    <3>2. x < m
      BY <3>1
    <3>3. QED
      BY <3>1, <3>2 DEF Below
  <2>2. history' = Below(m) \/ history' = Below(m) \cup {m}
    BY <1>7
  <2>3. QED
    BY <2>1, <2>2
<1>9. TodoInOrder(d, {})'
  <2>1. CASE down[d]
    BY <1>4, <2>1 DEF TodoInOrder
  <2>2. CASE ~down[d]
    BY <1>4, <2>2 DEF TodoInOrder
  <2>3. QED
    BY <2>1, <2>2
<1>10. OrderInv'
  <2>1. pc'[d] = "running" /\ (pc'[d] = "running" /\ down'[d] => reverted')
    BY DEF OrderInv
  <2>2. QED
    BY <1>3, <1>8, <1>9, <2>1, StepOfOne
<1>11. SchemaInv'
  <2>1. SUFFICES ASSUME reverted => DownUndoesUp, NEW o \in AllObjects,
                        \A a \in astray \ {m} : ~Dirty(a, o)
                 PROVE  Agrees(o)'
    <3>1. \A a \in astray \ {m} : \A o \in AllObjects : Dirty(a, o)' <=> Dirty(a, o)
      BY <1>4 DEF Dirty
    <3>2. QED
      BY <1>4, <3>1 DEF SchemaInv
  <2>2. ~Touches(cs, Len(cs), o) => Agrees(o)
    <3>1. Len(Up[m]) = Len(cs)
      BY DownScript DEF Plan
    <3>2. ~Touches(cs, Len(cs), o) => ~Dirty(m, o)
      BY <1>6, <3>1 DEF Dirty, Plan
    <3>3. QED
      BY <2>1, <3>2 DEF SchemaInv
  <2>3. Touches(cs, Len(cs), o) => (o \in Present <=> Leaves(cs, Len(cs), o))
    BY DEF Executed
  <2>4. /\ ~Touches(cs, Len(cs), o) => ~Leaves(cs, Len(cs), o)
    BY DEF Touches, Leaves
  <2>5. CASE down[d]
    <3>1. cs = Down(m) /\ reverted /\ DownUndoesUp
      BY <2>1, <2>5 DEF Plan, OrderInv
    <3> DEFINE after == AfterAll(Down(m), SchemaOf(Below(m) \cup {m}))
    <3>2. after \subseteq SchemaOf(Below(m)) /\ SchemaOf(Below(m)) \ after \subseteq Rows
      BY <3>1 DEF DownUndoesUp
    <3>3. o \in after <=> \/ Leaves(cs, Len(cs), o)
                          \/ o \in SchemaOf(Below(m) \cup {m}) /\ ~Touches(cs, Len(cs), o)
      BY <3>1 DEF AfterAll
    <3> HIDE DEF after
    <3>4. /\ o \in Present => o \in SchemaOf(Below(m))
          /\ o \in SchemaOf(Below(m)) /\ o \notin Present => o \in Rows
      <4>1. CASE Touches(cs, Len(cs), o)
        BY <2>3, <3>2, <3>3, <4>1
      <4>2. CASE ~Touches(cs, Len(cs), o)
        <5>1. /\ o \in Present => o \in SchemaOf(Below(m) \cup {m})
              /\ o \in SchemaOf(Below(m) \cup {m}) /\ o \notin Present => o \in Rows
          BY <1>7, <2>2, <2>5, <4>2 DEF Agrees
        <5>2. QED
          BY <2>4, <3>2, <3>3, <4>2, <5>1
      <4>3. QED
        BY <4>1, <4>2
    <3>5. QED
      BY <1>4, <1>7, <2>5, <3>1, <3>4 DEF Agrees
  <2>6. CASE ~down[d]
    <3>1. cs = Up[m]
      BY <2>6 DEF Plan
    <3>2. o \in SchemaOf(Below(m) \cup {m}) <=>
            \/ Leaves(cs, Len(cs), o)
            \/ ~Touches(cs, Len(cs), o) /\ o \in SchemaOf(Below(m))
      BY <3>1, OneMigrationMore
    <3>3. /\ o \in Present => o \in SchemaOf(Below(m) \cup {m})
          /\ o \in SchemaOf(Below(m) \cup {m}) /\ o \notin Present => reverted /\ o \in Rows
      <4>1. CASE Touches(cs, Len(cs), o)
        BY <2>3, <3>2, <4>1
      <4>2. CASE ~Touches(cs, Len(cs), o)
        <5>1. /\ o \in Present => o \in SchemaOf(Below(m))
              /\ o \in SchemaOf(Below(m)) /\ o \notin Present => reverted /\ o \in Rows
          BY <1>7, <2>2, <2>6, <4>2 DEF Agrees
        <5>2. QED
          BY <2>4, <3>2, <4>2, <5>1
      <4>3. QED
        BY <4>1, <4>2
    <3>4. QED
      BY <1>4, <1>7, <2>6, <3>3 DEF Agrees
  <2>7. QED
    BY <2>5, <2>6
<1>12. QED
  BY <1>10, <1>11

LEMMA StepKeepsTurns ==
  ASSUME TypeInv, TurnsInv, NEW d \in Deployments,
         StepOf(d)
  PROVE  TurnsInv'
<1>1. SUFFICES ASSUME ~overlapped'
               PROVE  OrderInv' /\ SchemaInv'
  BY DEF TurnsInv
<1>2. ASSUME NEW target \in {0} \cup Migrations, Migrate(d, target)
      PROVE  OrderInv' /\ SchemaInv'
  BY <1>1, <1>2, MigrateKeepsTurns
<1>3. ASSUME NextMigration(d) \/ Execute(d) \/ OccError(d) \/ Crash(d)
      PROVE  /\ pc[d] = "running" /\ OrderInv /\ SchemaInv /\ UNCHANGED <<down, reverted>>
  BY <1>1, <1>3 DEF NextMigration, Execute, OccError, Crash, TurnsInv
\* There is nothing to turn round for.
<1>0. ASSUME TurnRound(d)
      PROVE  FALSE
  BY <1>0, <1>1 DEF TurnRound, TurnsInv, OrderInv
<1>4. CASE NextMigration(d)
  <2>1. /\ pc[d] = "running" /\ OrderInv /\ SchemaInv /\ script[d] = <<>>
        /\ UNCHANGED <<Present, history, down, reverted>>
    BY <1>3, <1>4, PresentUnchanged DEF NextMigration
  <2>2. CASE Return(d) /\ UNCHANGED astray
    BY <2>1, <2>2, ReturnKeepsTurns
  <2>3. CASE /\ todo[d] # {}
             /\ script' = [script EXCEPT ![d] =
                             IF down[d] THEN GenerateDownSql(NextOf(d)) ELSE GenerateUpSql(NextOf(d))]
             /\ todo' = [todo EXCEPT ![d] = @ \ {NextOf(d)}]
             /\ astray' = astray \cup {NextOf(d)}
             /\ UNCHANGED <<pc, later>>
    BY <2>1, <2>3, BeginKeepsTurns
  <2>4. QED
    BY <1>4, <2>2, <2>3 DEF NextMigration
<1>5. CASE Execute(d)
  <2>1. /\ pc[d] = "running" /\ OrderInv /\ SchemaInv /\ script[d] # <<>>
        /\ UNCHANGED <<down, reverted>> /\ down[d] \in BOOLEAN
    BY <1>3, <1>5 DEF Execute, TypeInv
  <2>2. CASE ~Executable(Head(script[d]))
    BY <1>5, <2>1, <2>2, ReturnKeepsTurns, PresentUnchanged DEF Execute
  <2>3. CASE Executable(Head(script[d]))
    <3>1. /\ Effect(Head(script[d])) /\ script' = [script EXCEPT ![d] = Tail(script[d])]
          /\ UNCHANGED <<pc, todo, later>>
      BY <1>5, <2>3 DEF Execute
    <3>2. PICK m \in Migrations : InHand(d, m)
      BY <2>1 DEF OrderInv
    <3>3. PICK cs, sql : cs = Plan(d, m) /\ sql = Sql(d, m)
      OBVIOUS
    <3>4. IsScriptOf(sql, cs, Row(IF down[d] THEN "deleteRow" ELSE "insertRow", m))
      BY <2>1, <3>3, ScriptsOfMigration DEF Plan, Sql
    <3>5. PICK k \in Nat : Remains(script[d], sql, k) /\ Executed(cs, k - 1)
      BY <3>2, <3>3 DEF InHand
    <3>6. /\ m \in astray /\ TodoInOrder(d, {m})
          /\ IF down[d] THEN m \in history /\ \A n \in history : n <= m ELSE history = Below(m)
      BY <3>2 DEF InHand
    <3>7. CASE k # Len(sql)
      BY <2>1, <3>1, <3>3, <3>4, <3>5, <3>6, <3>7, CommandKeepsTurns
    <3>8. CASE k = Len(sql)
      <4>1. k - 1 = Len(cs)
        BY <3>4, <3>8 DEF IsScriptOf
      <4>2. QED
        BY <2>1, <3>1, <3>3, <3>4, <3>5, <3>6, <3>8, <4>1, RowKeepsTurns
    <3>9. QED
      BY <3>7, <3>8
  <2>4. QED
    BY <2>2, <2>3
<1>6. CASE OccError(d)
  <2>1. /\ pc[d] = "running" /\ OrderInv /\ SchemaInv
        /\ UNCHANGED <<Present, history, astray, down, reverted>>
    BY <1>3, <1>6, PresentUnchanged DEF OccError
  <2>2. CASE UNCHANGED <<pc, todo, later, script>>
    <3>1. SchemaInv'
      BY <2>1, SameSchema
    <3>2. OrderInv'
      BY <2>1, <2>2 DEF OrderInv, TodoInOrder, InHand, Executed, Plan, Sql
    <3>3. QED
      BY <3>1, <3>2
  <2>3. CASE Return(d)
    BY <2>1, <2>3, ReturnKeepsTurns
  <2>4. QED
    BY <1>6, <2>2, <2>3 DEF OccError
<1>7. CASE Crash(d)
  BY <1>3, <1>7, ReturnKeepsTurns, PresentUnchanged DEF Crash
<1>8. QED
  BY <1>0, <1>2, <1>4, <1>5, <1>6, <1>7 DEF StepOf

LEMMA UnchangedKeepsTurns ==
  ASSUME TurnsInv,
         UNCHANGED <<Present, history, pc, todo, later, down, script, astray, overlapped, reverted>>
  PROVE  TurnsInv'
<1>1. ASSUME ~overlapped'
      PROVE  OrderInv' /\ SchemaInv'
  <2>1. /\ OrderInv /\ SchemaInv
        /\ UNCHANGED <<Present, history, pc, todo, later, down, script, astray, reverted>>
    BY <1>1 DEF TurnsInv
  <2>2. SchemaInv'
    BY <2>1, SameSchema
  <2>3. OrderInv'
    BY <2>1 DEF OrderInv, TodoInOrder, InHand, Executed, Plan, Sql
  <2>4. QED
    BY <2>2, <2>3
<1>2. QED
  BY <1>1 DEF TurnsInv

LEMMA TurnsKept == Spec => []TurnsInv
<1>1. TypeInv /\ TurnsInv /\ [Next]_vars => TurnsInv'
  <2>1. ASSUME TypeInv, TurnsInv, NEW o \in AllObjects, JobSucceeds(o) \/ JobFails(o)
        PROVE  TurnsInv'
    BY <2>1, JobOnPresent, UnchangedKeepsTurns
  <2>2. ASSUME TurnsInv, UNCHANGED vars
        PROVE  TurnsInv'
    BY <2>2, PresentUnchanged, UnchangedKeepsTurns DEF vars
  <2>3. QED
    BY <2>1, <2>2, StepKeepsTurns DEF Next
<1>2. QED
  BY <1>1, Types, AtTheBeginning, PTL DEF Spec

\* Where reverting undoes, the database is what the history says as long as
\* deployments take turns and none was interrupted within a migration, but for
\* indexes: their jobs end, and may fail, after the row is there. An
\* interruption harms no longer than until its migration is applied or reverted
\* to the end: EF executes all its commands again, the row last (DsqlMigrator).
THEOREM DatabaseIsAsRecorded ==
  ASSUME DownUndoesUp
  PROVE  Spec => []HistoryIsSchema
<1>1. TypeInv /\ TurnsInv => HistoryIsSchema
  BY Agreement DEF HistoryIsSchema
<1>2. QED
  BY <1>1, Types, TurnsKept, PTL

\* Without any migration reverted nothing need be assumed of how they revert.
THEOREM AppliedDatabaseIsAsRecorded ==
  Spec => [](~reverted => HistoryIsSchema)
<1>1. TypeInv /\ TurnsInv => (~reverted => HistoryIsSchema)
  BY Agreement DEF HistoryIsSchema
<1>2. QED
  BY <1>1, Types, TurnsKept, PTL

-----------------------------------------------------------------------------
(* Applying a migration again.                                             *)

LEMMA RerunMeetsNoError ==
  ASSUME DownUndoesUp, ContainersFirst, TypeInv, TurnsInv
  PROVE  CanBeRerun
<1>1. SUFFICES ASSUME ~overlapped, NEW d \in Deployments, script[d] # <<>>,
                      Head(script[d]).kind # "insertRow", ~down[d],
                      NEW m \in astray, astray = {m},
                      \A i \in DOMAIN Up[m] : Up[m][i].kind \in Creates
               PROVE  Executable(Head(script[d]))
  BY DEF CanBeRerun
<1>2. OrderInv /\ SchemaInv /\ m \in Migrations /\ Migrations \subseteq Nat
  BY <1>1, EfAssumption DEF TurnsInv, TypeInv
<1>3. InHand(d, m)
  BY <1>1, <1>2 DEF OrderInv, InHand
<1>4. history = Below(m) /\ m \notin history
  BY <1>1, <1>2, <1>3 DEF InHand, Below
<1>5. PICK k \in Nat : Remains(script[d], GenerateUpSql(m), k) /\ Executed(Up[m], k - 1)
  BY <1>1, <1>3 DEF InHand, Plan, Sql
<1>6. IsScriptOf(GenerateUpSql(m), Up[m], Row("insertRow", m))
  BY <1>2, UpScript
<1>7. /\ k \in 1..(Len(Up[m]) + 1) /\ Head(script[d]) = GenerateUpSql(m)[k]
      /\ Len(Up[m]) \in Nat
  BY <1>5, <1>6, HeadOfRemains DEF IsScriptOf, TypeInv
<1>8. k \in 1..Len(Up[m])
  <2>1. k # Len(Up[m]) + 1
    BY <1>1, <1>6, <1>7 DEF IsScriptOf, Row
  <2>2. QED
    BY <1>7, <2>1
<1> DEFINE c == Up[m][k]
<1>9. c \in PlainCommands /\ c.kind \in Creates /\ Head(script[d]) = Rewritten(c)
  BY <1>1, <1>2, <1>6, <1>7, <1>8, UpIsSeq DEF IsScriptOf
<1>10. Head(script[d]).kind \in IfNotExists /\ Head(script[d]).within = c.within
  BY <1>9, RewrittenCommand
<1>11. \A i \in 1..Len(Up[m]) : \A o :
         ~Takes(Up[m][i], o) /\ (Makes(Up[m][i], o) <=> o = Up[m][i].object)
  BY <1>1, <1>2, UpIsSeq DEF Takes, Makes, Creates
<1>12. ASSUME NEW o \in c.within
       PROVE  o \in Present /\ o \notin Indexes
  <2>1. o \in AllObjects /\ o \notin Indexes
    BY <1>9 DEF PlainCommands
  <2>2. CASE \E j \in 1..(k - 1) : Up[m][j].object = o
    <3>1. PICK j \in 1..(k - 1) : Up[m][j].object = o
      BY <2>2
    <3>2. j \in 1..Len(Up[m]) /\ \A i \in (j + 1)..(k - 1) : i \in 1..Len(Up[m])
      BY <1>7, <1>8
    <3>3. Makes(Up[m][j], o) /\ \A i \in (j + 1)..(k - 1) : ~Takes(Up[m][i], o)
      BY <1>11, <3>1, <3>2
    <3>4. Touches(Up[m], k - 1, o) /\ Leaves(Up[m], k - 1, o)
      BY <3>3 DEF Touches, Leaves
    <3>5. QED
      BY <1>5, <2>1, <3>4 DEF Executed
  <2>3. CASE o \in SchemaOf(Below(m)) \ Rows /\ \A j \in DOMAIN Up[m] : Up[m][j].object # o
    <3>1. ~Touches(Up[m], Len(Up[m]), o)
      BY <1>2, <1>11, <2>3, UpIsSeq DEF Touches
    <3>2. \A a \in astray : ~Dirty(a, o)
      BY <1>1, <1>4, <3>1 DEF Dirty
    <3>3. Agrees(o)
      BY <1>2, <2>1, <3>2 DEF SchemaInv
    <3>4. QED
      BY <1>4, <2>1, <2>3, <3>3 DEF Agrees
  <2>4. QED
    <3>1. k \in DOMAIN Up[m]
      BY <1>2, <1>8, UpIsSeq
    <3>2. QED
      BY <1>1, <1>2, <2>2, <2>3, <3>1 DEF ContainersFirst
<1>13. QED
  <2>1. c.within \subseteq objects
    BY <1>12 DEF Present, TypeInv
  <2>2. QED
    BY <1>10, <2>1 DEF Executable, Creates, IfNotExists

\* "a migration can be safely re-run after fixing a failure": wherever a
\* migration that only creates was interrupted, no command of it fails when it is
\* applied again. What it adds to was created before; its tables and indexes may
\* be there already (IF NOT EXISTS, DsqlSqlTransform).
THEOREM InterruptedMigrationCanBeRerun ==
  ASSUME DownUndoesUp, ContainersFirst
  PROVE  Spec => []CanBeRerun
BY Types, TurnsKept, RerunMeetsNoError, PTL
=============================================================================
