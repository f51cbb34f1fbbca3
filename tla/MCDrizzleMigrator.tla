------------------------- MODULE MCDrizzleMigrator -------------------------
(***************************************************************************)
(* Scripts of a few statements for TLC. Each puts statements of different  *)
(* kinds next to each other, over two migration files.                     *)
(***************************************************************************)
EXTENDS DrizzleMigrator, TLC

Symmetry == Permutations(Runs)

Part(k) == [kind |-> k, last |-> FALSE]
End(k)  == [kind |-> k, last |-> TRUE]

\* What drizzle-kit and the transform emit: a table, an index, a trailing
\* empty chunk; then data and a constraint to validate.
MixedScript == <<Part("create"), Part("index"), End("empty"), Part("write"), End("validate")>>

\* Statements that can all be repeated after a failure.
RepeatableScript == <<Part("createIfNotExists"), End("validate"), End("write")>>

\* A file generated with breakpoints: false after two that are fine and can be
\* repeated.
RefusedScript ==
  <<Part("createIfNotExists"), End("validate"), Part("empty"), End("write"),
    Part("multi"), End("write")>>

\* One index with IF NOT EXISTS, and one statement that is not idempotent.
IndexIfNotExistsScript == <<End("indexIfNotExists"), End("write")>>
=============================================================================
