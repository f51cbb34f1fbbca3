---------------------------- MODULE MCEfMigrations ----------------------------
(***************************************************************************)
(* Migrations for TLC: a table with a row in it, a table with an index,    *)
(* and a column that is added to the one while the other is dropped.       *)
(***************************************************************************)
EXTENDS EfMigrations
LOCAL INSTANCE SequencesExt

Command(kind, object, within) == [kind |-> kind, object |-> object, within |-> within]

Three ==
  << << Command("createTable", "products", {}),
        Command("insert", "first product", {"products"}) >>,
     << Command("createTable", "orders", {}),
        Command("createIndex", "orders by day", {"orders"}) >>,
     << Command("add", "price of orders", {"orders"}),
        Command("drop", "products", {}) >> >>

\* These migrations are as theorems assume.
ASSUME ThreeAreAsAssumed == DownUndoesUp /\ ContainersFirst

\* SchemaOf is what is left when all the commands are executed.
ASSUME SchemaIsExecuted ==
  \A ms \in SUBSET Migrations :
    SchemaOf(ms) =
      FoldLeft(LAMBDA before, c : After(c, before), {},
               FlattenSeq([i \in DOMAIN SetToSortSeq(ms, <) |-> Up[SetToSortSeq(ms, <)[i]]]))
=============================================================================
