-------------------------- MODULE MCAerichMigrations --------------------------
(***************************************************************************)
(* Migrations for TLC: each adds a table, a column to the table before and *)
(* a foreign key to that table. Those of odd versions can be executed      *)
(* twice; the columns and constraints of the others cannot.                *)
(***************************************************************************)
EXTENDS AerichMigrations

Table(v)  == <<v, "table">>
Column(v) == <<v, "column">>
Key(v)    == <<v, "key">>

Before(v) == {w \in Versions : w < v /\ \A u \in Versions : u < v => u <= w}

Statement(kind, object, within) == [kind |-> kind, object |-> object, within |-> within]

Incremental ==
  [v \in Versions |->
     LET again  == IF v % 2 = 1 THEN "addIfMissing" ELSE "add"
         parent == {Table(w) : w \in Before(v)}
     IN IF parent = {} THEN <<Statement("addIfMissing", Table(v), {})>>
        ELSE << Statement("addIfMissing", Table(v), {}),
                Statement(again, Column(v), parent),
                Statement(again, Key(v), parent \cup {Table(v)}),
                Statement("validate", Key(v), parent \cup {Table(v)}) >>]

\* What Aerich writes to undo them: last first; a validation has nothing to undo.
Undo(statements) ==
  LET added == SelectSeq(statements, LAMBDA s : s.kind # "validate")
  IN [i \in DOMAIN added |->
        LET s == added[Len(added) + 1 - i]
        IN [s EXCEPT !.kind = IF s.kind = "add" THEN "drop" ELSE "dropIfExists"]]

Undone == [v \in Versions |-> Undo(Incremental[v])]

\* These migrations are as theorems assume.
ASSUME IncrementalApart == MigrationsApart
=============================================================================
