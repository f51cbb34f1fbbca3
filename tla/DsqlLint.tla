------------------------------ MODULE DsqlLint ------------------------------
(***************************************************************************)
(* dsql-lint as the command lines of @aws/aurora-dsql-drizzle and          *)
(* @aws/aurora-dsql-prisma-tools see it, and the driver that runs it.      *)
(*                                                                         *)
(* A script is a sequence of statements, and all that is kept of a         *)
(* statement is its kind: what the tools and the linter tell apart. The    *)
(* linter is external: what it does is what the repository's tests show.   *)
(***************************************************************************)
EXTENDS Integers, Sequences, FiniteSets, SequencesExt

-----------------------------------------------------------------------------
(* Statements.                                                             *)

\* A rewrite without and one with a warning, and what they become.
Fixes == [typed |-> "typedFixed", index |-> "indexAsync"]

Ddl      == {"table", "typed", "typedFixed", "index", "indexAsync", "array", "grant"}
Control  == {"begin", "commit"}
Kinds    == Ddl \cup Control \cup {"insert", "setLocal", "note"}
Rewrites == {"typedFixed", "indexAsync"}

\* DDL the linter does not split off: CREATE ROLE, CREATE DOMAIN, GRANT and
\* COMMENT ON.
Unsplit == {"grant"}

\* Left to do: what a finished migration must not hold.
Unready == {"typed", "index", "array"}

Fix(k) == IF k \in DOMAIN Fixes THEN Fixes[k] ELSE k
Raw(k) == IF k = "typedFixed" THEN "typed" ELSE IF k = "indexAsync" THEN "index" ELSE k

\* What a script says, apart from rewrites, comments and transaction brackets.
Said(k) == IF k \in Control \cup {"note"} THEN <<>> ELSE <<Raw(k)>>
Says(s) == FlattenSeq([i \in DOMAIN s |-> Said(s[i])])

Status(k) == CASE k = "typed" -> "fixed"
               [] k = "index" -> "fixed_with_warning"
               [] k = "array" -> "unfixable"

-----------------------------------------------------------------------------
(* Transactions of a script.                                               *)

Ends(s, i)    == {j \in 1..(i - 1) : s[j] = "commit"}
SameTx(s, i, j) == Ends(s, i) = Ends(s, j)

\* Position i is in a BEGIN ... COMMIT of the script.
InBlock(s, i) == \E j \in 1..i : s[j] = "begin" /\ SameTx(s, i, j)

\* What Aurora DSQL refuses in one transaction: two DDL, or DDL and data.
TooMuch(s, P) == \E i, j \in P : i # j /\ s[i] \in Ddl /\ s[j] \in Ddl \cup {"insert"}

\* What of it the linter sees.
ToSplit(s, P) == TooMuch(s, {i \in P : s[i] \notin Unsplit})

\* The block at i is one the linter splits.
NeedsSplit(s, i) ==
  InBlock(s, i) /\ ToSplit(s, {j \in DOMAIN s : InBlock(s, j) /\ SameTx(s, i, j)})

\* prisma's README.md: each statement the linter does not split off is in a BEGIN ...
\* COMMIT block of its own; at least, with nothing it could not share one with.
GrantsAlone(s) ==
  \A i, j \in DOMAIN s : s[i] \in Unsplit /\ i # j /\ SameTx(s, i, j) => s[j] \notin Ddl \cup {"insert"}

\* The statements a setting at i holds for: the rest of its transaction.
Governed(s, i) ==
  FlattenSeq([j \in DOMAIN s |-> IF j > i /\ SameTx(s, i, j) THEN Said(s[j]) ELSE <<>>])

\* Its author left this transaction to Prisma.
IsImplicit(s, i) == \A j \in DOMAIN s : SameTx(s, i, j) => s[j] # "begin"

-----------------------------------------------------------------------------
(* dsql-lint --format json [--fix] -                                       *)

\* splits: the release in use. renamed: one whose split rule has another name.
\* cannot: one that reports the block and leaves it.
Releases   == {"splits", "renamed", "cannot"}
SplitRule(release) == IF release = "renamed" THEN "renamed_split" ELSE "multi_ddl_transaction"

\* A BEGIN put on the first line moves no line.
Line(s, i) == Cardinality({j \in 1..i : s[j] # "begin"})

Diagnostics(release, s) ==
  {[rule |-> s[i], line |-> Line(s, i), status |-> Status(s[i])] :
      i \in {j \in DOMAIN s : s[j] \in Unready}}
  \cup
  {[rule |-> SplitRule(release), line |-> Line(s, i),
    status |-> IF release = "cannot" THEN "unfixable" ELSE "fixed_with_warning"] :
      i \in {j \in DOMAIN s : s[j] = "begin" /\ NeedsSplit(s, j)}}

\* What becomes of statement i: comments go, a block that holds too much
\* becomes one block for each statement that is split off. (Data changes next
\* to each other share one; no property tells.) The others stay where they
\* are, with no brackets of their own.
Rewritten(s, i, split) ==
  CASE s[i] = "note" -> <<>>
    [] s[i] # "note" /\ i \in split -> IF s[i] \in Control THEN <<>> ELSE <<"begin", Fix(s[i]), "commit">>
    [] OTHER -> <<Fix(s[i])>>

FixedSql(release, s) ==
  LET split == {i \in DOMAIN s : release # "cannot" /\ s[i] \notin Unsplit /\ NeedsSplit(s, i)}
  IN FlattenSeq([i \in DOMAIN s |-> Rewritten(s, i, split)])

Statuses(diags) == {d.status : d \in diags}

FixExit(diags) ==
  CASE "unfixable" \in Statuses(diags) -> 1
    [] "unfixable" \notin Statuses(diags) /\ "fixed_with_warning" \in Statuses(diags) -> 3
    [] OTHER -> 0

\* An exit code the tools do not know (a crash, a release to come).
Odd   == 101
Codes == {0, 1, 2, 3, Odd}

\* odd: not what a run that goes as it should returns.
Result(exit, fixed, sql, diags) ==
  [threw |-> FALSE, odd |-> FALSE, exit |-> exit, fixed |-> fixed, sql |-> sql, diags |-> diags]

FixRun(release, s) ==
  LET diags == Diagnostics(release, s)
  IN Result(FixExit(diags), TRUE, FixedSql(release, s), diags)

\* Without --fix every diagnostic is an error.
LintRun(release, s) ==
  LET diags == Diagnostics(release, s)
  IN Result(IF diags = {} THEN 0 ELSE 1, FALSE, <<>>, diags)

\* An input it could not read (files[0].error); codes it documents or not,
\* with the script as it was or without one.
OddRuns(s) ==
  {[r EXCEPT !.odd = TRUE] :
      r \in {Result(c, FALSE, <<>>, {}) : c \in {1, 2}} \cup {Result(c, TRUE, s, {}) : c \in {2, Odd}}}

-----------------------------------------------------------------------------
(* The driver.                                                             *)

\* How the binary can be installed: DSQL_LINT_PATH, the platform package of
\* this host, PATH.
Installs == [env : {"unset", "exists", "missing"}, platform : BOOLEAN, path : BOOLEAN]

\* findDsqlLint: an override that does not exist is an error, not a fallback.
FindDsqlLint(install) ==
  IF install.env # "unset" THEN install.env = "exists"
  ELSE install.platform \/ install.path

\* No binary, a spawn error, output over the driver's maxBuffer, output that is
\* not JSON or of another schema_version: an exception.
Threw == [threw |-> TRUE, odd |-> TRUE, exit |-> 1, fixed |-> FALSE, sql |-> <<>>, diags |-> {}]

\* What runDsqlLintWithStdin may return for script s.
RunDsqlLintWithStdin(install, release, s, fix, mayFail) ==
  IF ~FindDsqlLint(install) THEN {Threw}
  ELSE {IF fix THEN FixRun(release, s) ELSE LintRun(release, s)}
       \cup (IF mayFail THEN OddRuns(s) \cup {Threw} ELSE {})

\* reportDsqlLintDiagnostics, severityFor: the labels a result is printed with.
Severity(status) ==
  CASE status = "unfixable" -> "ERROR"
    [] status = "fixed_with_warning" -> "WARNING"
    [] status = "fixed" -> "FIXED"
    [] OTHER -> "INFO"

Report(diags) == {Severity(status) : status \in Statuses(diags)}

\* transformMigration's check: only exit 1 may come without the fixed script.
BreaksContract(r) == ~r.fixed /\ r.exit # 1
=============================================================================
