------------------------------ MODULE PrismaCli ------------------------------
(***************************************************************************)
(* The command line of @aws/aurora-dsql-prisma-tools: migrate (validate    *)
(* the schema's existence, diff, transform), validate, transform and lint, *)
(* of node/prisma/src/cli. A script is one chunk. Prisma may send it to    *)
(* the database as ONE query, which is one implicit transaction, so        *)
(* transformMigration lints it inside BEGIN; ... COMMIT; to have it split, *)
(* and once more as written when no split came of that.                    *)
(***************************************************************************)
EXTENDS CliProcess

VARIABLES
  wrappedDiags,  \* diagnostics of the run on the wrapped script
  validated      \* history: the schemas that passed validate, by their script

prismaVars  == <<wrappedDiags, validated>>
commandVars == <<command, source, target, text>>

PrismaInit == wrappedDiags = {} /\ validated = {}

-----------------------------------------------------------------------------
(* wrapInTransaction.                                                      *)

\* Mutant: settings are not looked for.
SplitSkipReasonEndsOnly(k) == k = "commit"

\* A statement that ends a transaction, or a setting that ends with it.
SplitSkipReason(k) == k \in {"commit", "setLocal"}

SkipsSplitting(s) == \E i \in DOMAIN s : SplitSkipReason(s[i])

\* Mutant: statements before the first transaction only are looked for.
HasStatementsBeforeTransaction(s) ==
  \E i \in DOMAIN s : s[i] \notin Control \cup {"note"} /\ \A j \in 1..(i - 1) : s[j] # "begin"

HasStatementsOutsideTransaction(s) ==
  \E i \in DOMAIN s :
    /\ s[i] \notin Control \cup {"note"}
    /\ \A j \in 1..(i - 1) : s[j] = "begin" => \E k \in j..(i - 1) : s[k] = "commit"

WrapInTransaction(s) == IF SkipsSplitting(s) THEN s ELSE <<"begin">> \o s \o <<"commit">>

\* The advisory that the script was not wrapped and would have needed it.
Advised(s) == SkipsSplitting(s) /\ HasStatementsOutsideTransaction(s)

-----------------------------------------------------------------------------
(* transformMigration.                                                     *)

\* Mutant: a split the linter reports but cannot do counts as done.
SplitsTransactionAnyStatus(diags) == \E d \in diags : d.rule = "multi_ddl_transaction"

SplitsTransaction(diags) ==
  \E d \in diags : d.rule = "multi_ddl_transaction" /\ d.status # "unfixable"

\* A fix of the wrapped script that the script as written does not get.
UnexpectedFix(wrapped, plain) ==
  \E d \in wrapped : d.status # "unfixable" /\ d \notin plain

Script == Input[1]

\* The script that is linted; validate switches splitting off.
Wrapped == IF command = "validate" THEN Script ELSE WrapInTransaction(Script)

Advisory == command # "validate" /\ Advised(Script)

\* checkSqlCompatibility: is there an issue?
HasIssues(r) == r.exit \notin {0, 3} \/ "unfixable" \in Statuses(r.diags)

\* What a command does with the result it got: validate judges it, migrate and
\* transform report it and write only after 0 and 3.
UseResult(r) ==
  LET exit     == IF r.exit = 0 /\ Advisory THEN 3 ELSE r.exit
      skipped  == IF Advisory THEN {"SKIPPED"} ELSE {}
  IN /\ code' = exit
     /\ parts' = <<r.sql>>
     /\ reported' = Report(r.diags) \cup skipped
     /\ validated' = IF command = "validate" /\ ~HasIssues(r)
                       THEN validated \cup {text} ELSE validated
     /\ CASE command = "validate" -> Exit(IF HasIssues(r) THEN 1 ELSE 0)
          [] command # "validate" /\ exit \in {0, 3} -> pc' = "write" /\ UNCHANGED exitCode
          [] OTHER -> Exit(exit)

Lint ==
  /\ pc = "lint" /\ command \in {"migrate", "validate", "transform"}
  /\ \E r \in Answers(Wrapped, TRUE) :
       /\ Answered(r)
       /\ CASE r.threw ->
                 Throw /\ UNCHANGED <<code, parts, reported, prismaVars>>
            [] ~r.threw /\ Wrapped # Script /\ ~SplitsTransaction(r.diags) ->
                 /\ pc' = "relint" /\ wrappedDiags' = r.diags
                 /\ UNCHANGED <<exitCode, code, parts, reported, validated>>
            [] OTHER ->
                 /\ IF BreaksContract(r)
                      THEN Throw /\ UNCHANGED <<code, parts, reported, validated>>
                      ELSE UseResult(r)
                 /\ UNCHANGED wrappedDiags
  /\ UNCHANGED <<world, files, invocations, commandVars>>

Relint ==
  /\ pc = "relint"
  /\ \E r \in Answers(Script, TRUE) :
       /\ Answered(r)
       /\ IF r.threw \/ UnexpectedFix(wrappedDiags, r.diags) \/ BreaksContract(r)
            THEN Throw /\ UNCHANGED <<code, parts, reported, validated>>
            ELSE UseResult(r)
  /\ wrappedDiags' = {}
  /\ UNCHANGED <<world, files, invocations, commandVars>>

-----------------------------------------------------------------------------
(* The commands.                                                           *)

\* migrate and validate: the schema file is missing; prisma migrate diff
\* fails, says there is no change, or prints a script.
Diff(c) ==
  /\ Begin(c)
  /\ source' = Stdin /\ target' = Out
  /\ \/ Exit(1) /\ text' = <<>>
     \/ Exit(0) /\ text' = <<>>
     \/ \E s \in Scripts : s # <<>> /\ text' = <<s>> /\ pc' = "lint" /\ UNCHANGED exitCode
  /\ wrappedDiags' = {} /\ UNCHANGED validated

HandleMigrate  == Diff("migrate")
HandleValidate == Diff("validate")

HandlePrismaTransform ==
  /\ Begin("transform")
  /\ ReadFileArgument("lint") \/ ReadStdin("lint") \/ InputMissing
  /\ wrappedDiags' = {} /\ UNCHANGED validated

HandlePrismaLint ==
  /\ Begin("lint")
  /\ ReadFileArgument("lint") \/ InputMissing
  /\ wrappedDiags' = {} /\ UNCHANGED validated

PrismaLint ==
  /\ pc = "lint" /\ command = "lint"
  /\ \E r \in Answers(Script, FALSE) :
       /\ Answered(r)
       /\ IF r.threw THEN Throw /\ UNCHANGED reported
          ELSE Exit(r.exit) /\ reported' = Report(r.diags)
  /\ UNCHANGED <<world, files, invocations, commandVars, code, parts, prismaVars>>

\* The write. migrate ends with 0, also after warnings; transform with 3.
WriteMigration ==
  /\ pc = "write"
  /\ Write(parts)
  /\ Exit(IF command = "migrate" THEN 0 ELSE code)
  /\ UNCHANGED <<world, invocations, faults, commandVars, code, parts, reported, failed, prismaVars>>

PrismaDied ==
  /\ CrashInWrite(parts) \/ WriteFails \/ Crash
  /\ failed' = TRUE
  /\ UNCHANGED <<world, invocations, commandVars, code, parts, reported, prismaVars>>

-----------------------------------------------------------------------------
PrismaStart ==
  \/ HandleMigrate \/ HandleValidate \/ HandlePrismaTransform \/ HandlePrismaLint
  \/ (Help \/ Usage) /\ UNCHANGED prismaVars

PrismaProcess == Lint \/ Relint \/ PrismaLint \/ WriteMigration

PrismaDeveloper ==
  /\ \/ Again
     \/ \E f \in Files \cup {Out} : Edit(f)
  /\ UNCHANGED prismaVars

-----------------------------------------------------------------------------
(* Properties.                                                             *)

Migrated ==
  pc = "exited" /\ exitCode \in {0, 3} /\ command \in {"migrate", "transform"} /\ text # <<>>

\* A written script can be sent as one query: no transaction of it, the
\* implicit one included, holds two DDL statements or DDL and data. Else the
\* developer was told that splitting was skipped. Whatever the linter's split
\* rule is called; but it must be able to split, and to answer: what becomes of
\* the wrapped run counts for nothing once the plain run is taken. A CREATE ROLE,
\* CREATE DOMAIN, GRANT or COMMENT ON counts only when the author put each of
\* them in a transaction of its own, as README.md asks: they are not split off,
\* and nobody is told.
OneDdlPerTransaction ==
  tool = "prisma" /\ Migrated /\ "SKIPPED" \notin reported /\ ~failed /\ release # "cannot" =>
    LET s == disk[target][1]
        Counts(k) == k \notin Unsplit \/ GrantsAlone(text[1])
    IN \A i \in DOMAIN s : ~TooMuch(s, {j \in DOMAIN s : SameTx(s, i, j) /\ Counts(s[j])})

\* SET LOCAL keeps holding for the statements it held for, when the author left
\* the transaction to Prisma: the tool's own wrapping never ends it early.
SettingsKeepTheirStatements ==
  tool = "prisma" /\ Migrated /\ target \notin torn =>
    LET s == text[1]
        w == disk[target][1]
    IN \A i \in DOMAIN s : s[i] = "setLocal" /\ IsImplicit(s, i) =>
         \E j \in DOMAIN w : w[j] = "setLocal" /\ Governed(w, j) = Governed(s, i)

\* A schema that validate accepts is not refused by migrate: validate lints the
\* plain script, migrate the wrapped one, which can have findings of its own.
\* (A linter release with a renamed split rule is refused on purpose.)
ValidSchemaMigrates ==
  pc \in {"exited", "threw"} /\ command = "migrate" /\ text \in validated
    /\ ~failed /\ release # "renamed" => exitCode = 0
=============================================================================
