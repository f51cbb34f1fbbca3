------------------------- MODULE MigrationToolsProofs -------------------------
(***************************************************************************)
(* Proofs about MigrationTools, the command lines of                       *)
(* @aws/aurora-dsql-drizzle and @aws/aurora-dsql-prisma-tools: all its     *)
(* invariants and action properties, each by an invariant of its own.      *)
(***************************************************************************)
EXTENDS MigrationTools, DsqlLintProofs

-----------------------------------------------------------------------------
(* Codes.                                                                  *)

\* e is 0 of no codes at all, else the worst of these.
WorstOf(e, codes) ==
  \/ codes = {} /\ e = 0
  \/ e \in codes /\ \A c \in codes : NoWorse(c, e)

\* Another code: worseExitCode keeps what it was if that is the worse.
LEMMA WorseExitCodeOfOneMore ==
  ASSUME NEW e \in Codes, NEW c \in Codes, NEW codes \in SUBSET Codes, WorstOf(e, codes)
  PROVE  WorseExitCode(e, c) \in Codes /\ WorstOf(WorseExitCode(e, c), codes \cup {c})
BY DEF WorstOf, NoWorse, WorseExitCode, ExitRank, Codes, Odd

\* Codes may be merged file by file or chunk by chunk.
LEMMA WorseExitCodeAssociates ==
  \A a, b, c \in Codes :
    WorseExitCode(a, WorseExitCode(b, c)) = WorseExitCode(WorseExitCode(a, b), c)
BY DEF WorseExitCode, ExitRank, Codes, Odd

\* Zeros do not count.
LEMMA WorseExitCodeType ==
  \A a, b \in Codes : WorseExitCode(a, b) \in Codes /\ WorseExitCode(a, 0) = a
BY DEF WorseExitCode, ExitRank, Codes, Odd

\* Whatever runDsqlLintWithStdin returns has one of these codes.
LEMMA ExitOfAnswer ==
  ASSUME NEW s, NEW fix, NEW r \in Answers(s, fix)
  PROVE  r.exit \in Codes
<1>1. \A t : FixRun(release, t).exit \in Codes
  BY DEF FixRun, Result, FixExit, Codes
<1>2. \A t : LintRun(release, t).exit \in Codes
  BY DEF LintRun, Result, Codes
<1>3. \A t : \A x \in OddRuns(t) : x.exit \in Codes
  BY DEF OddRuns, Result, Codes
<1>4. Threw.exit \in Codes
  BY DEF Threw, Codes
<1>5. \A t : \A x \in RunDsqlLintWithStdin(install, release, t, fix, faults < MaxFaults) :
        x.exit \in Codes
  BY <1>1, <1>2, <1>3, <1>4 DEF RunDsqlLintWithStdin
<1>6. QED
  BY <1>5 DEF Answers

-----------------------------------------------------------------------------
(* Every step keeps the worst code.                                        *)

\* Inductive: where generate and transform are, and the worst code so far.
\* aurora-dsql-prisma-tools keeps no list of codes.
ExitInv ==
  /\ worst \in Codes /\ seen \subseteq Codes
  /\ tool \in {"drizzle", "prisma"}
  /\ tool = "prisma" => seen = {}
  /\ tool = "drizzle" =>
       /\ code \in Codes
       /\ pc \in {"kit", "readdir", "file"} => command = "generate"
       /\ pc \in {"kit", "readdir"} => seen = {} /\ worst = 0
       /\ pc = "read" => seen = {}
       /\ pc \in {"file", "write"} /\ command = "generate" => WorstOf(worst, seen)
       /\ pc = "chunk" /\ command = "generate" => WorstOf(WorseExitCode(worst, code), seen)
       /\ pc \in {"chunk", "write"} /\ command = "transform" => WorstOf(code, seen)
       /\ pc = "exited" /\ command \in {"generate", "transform"} /\ seen # {} =>
            WorstOf(exitCode, seen)

\* Entering transformMigrationFile, or being refused by it.
LEMMA EnterFile ==
  ASSUME NEW content, TransformMigrationFile(content)
  PROVE  code' = 0 /\ pc' \in {"threw", "chunk"}
BY DEF TransformMigrationFile, Throw

\* A command of drizzle begins.
LEMMA DrizzleStartKeeps ==
  ASSUME ExitInv, tool = "drizzle", DrizzleStart
  PROVE  ExitInv'
<1> USE DEF ExitInv, Begin, NoInput, Exit, world, drizzleVars, Codes
<1>1. CASE HandleGenerate
  BY <1>1 DEF HandleGenerate
<1>2. CASE HandleTransform
  BY <1>2 DEF HandleTransform, ReadFileArgument, ReadStdin, InputMissing, WorstOf
<1>3. CASE HandleLint
  BY <1>3 DEF HandleLint, ReadFileArgument, InputMissing
<1>4. CASE (Help \/ Usage) /\ UNCHANGED drizzleVars
  BY <1>4 DEF Help, Usage
<1>5. QED
  BY <1>1, <1>2, <1>3, <1>4 DEF DrizzleStart

\* A chunk is transformed: its code is one of the codes seen.
LEMMA TransformChunkKeeps ==
  ASSUME ExitInv, tool = "drizzle", TransformChunk
  PROVE  ExitInv'
<1> USE DEF ExitInv, world, processVars
<1>1. PICK r \in Answers(Head(todo), TRUE) :
        IF r.threw \/ BreaksContract(r)
          THEN Throw /\ UNCHANGED <<code, parts, shown, todo, seen>>
          ELSE /\ seen' = seen \cup {r.exit}
               /\ code' = WorseExitCode(code, r.exit)
               /\ UNCHANGED <<pc, exitCode>>
  BY DEF TransformChunk
<1>2. /\ pc = "chunk" /\ UNCHANGED <<tool, command, worst>>
  BY DEF TransformChunk
<1>3. CASE r.threw \/ BreaksContract(r)
  BY <1>1, <1>2, <1>3 DEF Throw
<1>4. CASE ~(r.threw \/ BreaksContract(r))
  <2>1. /\ seen' = seen \cup {r.exit} /\ code' = WorseExitCode(code, r.exit)
        /\ UNCHANGED <<pc, exitCode>>
    BY <1>1, <1>4
  <2>2. r.exit \in Codes /\ code \in Codes /\ worst \in Codes /\ seen \in SUBSET Codes
    BY ExitOfAnswer
  <2>3. code' \in Codes
    BY <2>1, <2>2, WorseExitCodeType
  <2>4. ASSUME command = "generate"
        PROVE  WorstOf(WorseExitCode(worst, code'), seen')
    <3>1. WorseExitCode(worst, code) \in Codes /\ WorstOf(WorseExitCode(worst, code), seen)
      BY <1>2, <2>2, <2>4, WorseExitCodeType
    <3>2. WorstOf(WorseExitCode(WorseExitCode(worst, code), r.exit), seen \cup {r.exit})
      BY <2>2, <3>1, WorseExitCodeOfOneMore
    <3>3. WorseExitCode(worst, WorseExitCode(code, r.exit))
            = WorseExitCode(WorseExitCode(worst, code), r.exit)
      BY <2>2, WorseExitCodeAssociates, Zenon
    <3>4. QED
      BY <2>1, <3>2, <3>3
  <2>5. ASSUME command = "transform"
        PROVE  WorstOf(code', seen')
    BY <1>2, <2>1, <2>2, <2>5, WorseExitCodeOfOneMore
  <2>6. QED
    BY <1>2, <2>1, <2>2, <2>3, <2>4, <2>5
<1>5. QED
  BY <1>3, <1>4

\* The other steps of drizzle.
LEMMA DrizzleProcessKeeps ==
  ASSUME ExitInv, tool = "drizzle", DrizzleProcess
  PROVE  ExitInv'
<1>0. code \in Codes /\ worst \in Codes /\ seen \subseteq Codes /\ 0 \in Codes
  BY DEF ExitInv, Codes
<1> USE DEF ExitInv, world, processVars, drizzleVars, Exit, Throw
<1>1. CASE DrizzleKitGenerate
  BY <1>1 DEF DrizzleKitGenerate
<1>2. CASE ListSqlFiles
  BY <1>2 DEF ListSqlFiles, WorstOf
<1>3. CASE ReadFile
  <2>1. code' = 0 /\ pc' \in {"threw", "chunk"} /\ UNCHANGED <<tool, command, worst, seen>>
    BY <1>3, EnterFile DEF ReadFile
  <2>2. command = "generate" /\ WorstOf(WorseExitCode(worst, 0), seen)
    BY <1>0, <1>3, WorseExitCodeType DEF ReadFile
  <2>3. QED
    BY <1>0, <2>1, <2>2
<1>4. CASE TransformChunk
  BY <1>4, TransformChunkKeeps
<1>5. CASE FileTransformed
  <2>1. worst' \in Codes /\ worst' = WorseExitCode(worst, code)
    BY <1>0, <1>5, WorseExitCodeType DEF FileTransformed
  <2>2. QED
    BY <1>5, <2>1 DEF FileTransformed
<1>6. CASE GenerateDone
  BY <1>6 DEF GenerateDone
<1>7. CASE ReadTransformInput
  <2>1. code' = 0 /\ pc' \in {"threw", "chunk"} /\ UNCHANGED <<tool, command, worst, seen>>
    BY <1>7, EnterFile DEF ReadTransformInput
  <2>2. command = "transform" /\ seen = {}
    BY <1>7 DEF ReadTransformInput
  <2>3. QED
    BY <1>0, <2>1, <2>2 DEF WorstOf
<1>8. CASE ScriptTransformed
  BY <1>8 DEF ScriptTransformed
<1>9. CASE DrizzleLint
  <2>1. /\ command = "lint" /\ pc' \in {"exited", "threw"}
        /\ UNCHANGED <<tool, command, code, worst, seen>>
    BY <1>9 DEF DrizzleLint
  <2>2. QED
    BY <2>1
<1>10. CASE WriteFile
  BY <1>10 DEF WriteFile
<1>11. QED
  BY <1>1, <1>2, <1>3, <1>4, <1>5, <1>6, <1>7, <1>8, <1>9, <1>10 DEF DrizzleProcess

\* The developer's steps, and the end of a process.
LEMMA DrizzleOtherKeeps ==
  ASSUME ExitInv, tool = "drizzle", Died \/ DrizzleDeveloper
  PROVE  ExitInv'
<1> USE DEF ExitInv, world, processVars, drizzleVars, Codes
<1>1. CASE Died
  BY <1>1 DEF Died, CrashInWrite, WriteFails, Crash, Throw
<1>2. CASE DrizzleDeveloper
  BY <1>2 DEF DrizzleDeveloper, Again, Edit
<1>3. QED
  BY <1>1, <1>2

\* Prisma's steps leave drizzle's codes alone.
LEMMA PrismaKeeps ==
  ASSUME ExitInv, tool = "prisma", UNCHANGED drizzleVars,
         PrismaStart \/ PrismaProcess \/ PrismaDied \/ PrismaDeveloper
  PROVE  ExitInv'
<1>1. UNCHANGED tool
  <2>1. CASE PrismaStart
    BY <2>1 DEF PrismaStart, HandleMigrate, HandleValidate, Diff, HandlePrismaTransform,
                HandlePrismaLint, Help, Usage, Begin, world
  <2>2. CASE PrismaProcess
    BY <2>2 DEF PrismaProcess, Lint, Relint, PrismaLint, WriteMigration, world
  <2>3. CASE PrismaDied \/ PrismaDeveloper
    BY <2>3 DEF PrismaDied, PrismaDeveloper, Again, Edit, world
  <2>4. QED
    BY <2>1, <2>2, <2>3
<1>2. UNCHANGED <<seen, worst>>
  BY DEF drizzleVars
<1>3. QED
  BY <1>1, <1>2 DEF ExitInv

-----------------------------------------------------------------------------
(* The exit code.                                                          *)

\* The invariant holds.
LEMMA ExitKept == Spec => []ExitInv
<1>1. Init => ExitInv
  BY DEF Init, CliInit, DrizzleInit, ExitInv, Codes
<1>2. ASSUME ExitInv, Next
      PROVE  ExitInv'
  <2>1. CASE tool = "drizzle"
    <3>1. DrizzleStart \/ DrizzleProcess \/ Died \/ DrizzleDeveloper
      BY <1>2, <2>1 DEF Next, DrizzleStep, PrismaStep
    <3>2. QED
      BY <1>2, <2>1, <3>1, DrizzleStartKeeps, DrizzleProcessKeeps, DrizzleOtherKeeps
  <2>2. CASE tool = "prisma"
    <3>1. /\ PrismaStart \/ PrismaProcess \/ PrismaDied \/ PrismaDeveloper
          /\ UNCHANGED drizzleVars
      BY <1>2, <2>2 DEF Next, DrizzleStep, PrismaStep
    <3>2. QED
      BY <1>2, <2>2, <3>1, PrismaKeeps
  <2>3. QED
    BY <1>2, <2>1, <2>2 DEF ExitInv
<1>3. ExitInv /\ UNCHANGED vars => ExitInv'
  BY DEF ExitInv, vars, world, drizzleVars
<1>4. ExitInv /\ [Next]_vars => ExitInv'
  BY <1>2, <1>3
<1>5. QED
  BY <1>1, <1>4, PTL DEF Spec

\* generate and transform exit with the worst code dsql-lint returned for any
\* chunk of any file, by the rank of transform.ts's exitRank, however many files
\* and chunks there are and in whatever order: CI never sees a milder one.
THEOREM ExitCodeIsTheWorst == Spec => []ExitIsWorst
<1>1. ExitInv => ExitIsWorst
  BY DEF ExitInv, ExitIsWorst, WorstOf
<1>2. QED
  BY <1>1, ExitKept, PTL

-----------------------------------------------------------------------------
(* Types, and the script in hand.                                          *)

\* Contents of files, and who they are read from and written to.
Contentses == Seq(Seq(Kinds))
Sources    == Files \cup {Out, Stdin}
Targets    == Files \cup {Out}

\* The parts of the type invariant.
WorldOK ==
  tool \in {"drizzle", "prisma"} /\ install \in Installs /\ release \in Releases

FilesOK ==
  /\ disk \in [Targets -> Contentses] /\ given \in [Targets -> Contentses]
  /\ torn \subseteq Targets /\ tainted \subseteq Targets

ProcessOK ==
  /\ invocations \in 0..MaxInvocations /\ faults \in 0..MaxFaults
  /\ command \in {"none", "help", "usage", "generate", "transform", "lint", "migrate", "validate"}
  /\ pc \in {"idle"} \cup Running \cup Ended
  /\ exitCode \in Codes /\ failed \in BOOLEAN

ScriptOK ==
  /\ source \in Sources /\ target \in Targets
  /\ code \in Codes /\ parts \in Contentses /\ text \in Contentses /\ reported \subseteq Labels

DrizzleOK ==
  queue \subseteq Files /\ todo \in Contentses /\ shown \subseteq Labels
    /\ worst \in Codes /\ seen \subseteq Codes

PrismaOK ==
  wrappedDiags \subseteq AnyDiagnostic /\ validated \subseteq Contentses

\* Where the process has a script: that of its file, of which text is what the
\* author wrote.
InHand == {"read", "chunk", "lint", "relint", "write"}

HandOK ==
  /\ pc \in {"kit", "readdir", "file"} => command = "generate"
  /\ pc = "relint" => command \in {"migrate", "validate", "transform"}
  /\ pc \in InHand =>
       /\ Input # <<>>
       /\ source # Stdin => text = given[source]
       /\ command = "generate" => source \in Files /\ target = source
  /\ command = "generate" /\ pc \in {"file", "chunk", "write"} => \A f \in queue : disk[f] # <<>>

TypeInv ==
  WorldOK /\ FilesOK /\ ProcessOK /\ ScriptOK /\ DrizzleOK /\ PrismaOK /\ HandOK

\* Finished chunks, and the exit codes after which they are written.
Done == Seq(Seq(Ready))
Fine == {0, 3}

-----------------------------------------------------------------------------
(* What the linter answers.                                                *)

\* An answer is the run on the script, or an odd one.
LEMMA AnswersAre ==
  ASSUME NEW s, NEW fix
  PROVE  Answers(s, fix) = RunDsqlLintWithStdin(install, release, s, fix, faults < MaxFaults)
BY DEF Answers

\* It threw, it is what the release makes of the script, or it is odd.
LEMMA AnswerCases ==
  ASSUME NEW s, NEW fix \in BOOLEAN, NEW r \in Answers(s, fix)
  PROVE  \/ r = (IF fix THEN FixRun(release, s) ELSE LintRun(release, s)) /\ ~r.odd
         \/ r \in OddRuns(s) /\ r.odd /\ faults < MaxFaults
         \/ r = Threw /\ r.odd /\ (FindDsqlLint(install) => faults < MaxFaults)
<1>1. r \in RunDsqlLintWithStdin(install, release, s, fix, faults < MaxFaults)
  BY AnswersAre, Zenon
<1>2. ~FixRun(release, s).odd /\ ~LintRun(release, s).odd /\ Threw.odd
  BY DEF FixRun, LintRun, Result, Threw
<1>3. \A x \in OddRuns(s) : x.odd = TRUE
  BY OddRunsAre
<1>4. QED
  BY <1>1, <1>2, <1>3 DEF RunDsqlLintWithStdin

\* What any answer is made of.
LEMMA AnswerType ==
  ASSUME NEW s \in Seq(Kinds), NEW fix \in BOOLEAN, NEW r \in Answers(s, fix), release \in Releases
  PROVE  /\ r.threw \in BOOLEAN /\ r.odd \in BOOLEAN /\ r.exit \in Codes /\ r.fixed \in BOOLEAN
         /\ r.sql \in Seq(Kinds) /\ r.diags \subseteq AnyDiagnostic /\ Report(r.diags) \subseteq Labels
         /\ r.odd /\ FindDsqlLint(install) => faults < MaxFaults
<1>0. \A diags : Report(diags) \subseteq Labels
  BY ReportType
<1>00. <<>> \in Seq(Kinds) /\ TRUE \in BOOLEAN /\ FALSE \in BOOLEAN /\ {} \subseteq AnyDiagnostic
  OBVIOUS
<1>1. CASE r = FixRun(release, s) /\ ~r.odd
  <2>1. FixExit(Diagnostics(release, s)) \in Codes
    BY FixExitIs DEF Codes
  <2>2. /\ r.threw = FALSE /\ r.odd = FALSE /\ r.exit = FixExit(Diagnostics(release, s))
        /\ r.fixed = TRUE /\ r.sql = FixedSql(release, s) /\ r.diags = Diagnostics(release, s)
    BY <1>1, FixRunIs, Zenon
  <2>3. FixedSql(release, s) \in Seq(Kinds)
    BY FixedSqlType, Zenon
  <2>4. Diagnostics(release, s) \subseteq AnyDiagnostic
    BY DiagnosticsType, Zenon
  <2>5. QED
    BY <1>0, <2>1, <2>2, <2>3, <2>4
<1>2. CASE r = LintRun(release, s) /\ ~r.odd
  <2>1. r.threw = FALSE /\ r.odd = FALSE /\ r.exit \in {0, 1} /\ r.fixed = FALSE /\ r.sql = <<>>
          /\ r.diags = Diagnostics(release, s)
    BY <1>2 DEF LintRun, Result
  <2>2. Diagnostics(release, s) \subseteq AnyDiagnostic
    BY DiagnosticsType, Zenon
  <2>3. r.exit \in Codes
    BY <2>1 DEF Codes
  <2>4. QED
    BY <1>0, <1>00, <2>1, <2>2, <2>3, Zenon
<1>3. CASE r \in OddRuns(s) /\ r.odd /\ faults < MaxFaults
  <2>1. /\ r.threw = FALSE /\ r.odd = TRUE /\ r.diags = {} /\ r.exit \in {1, 2, Odd}
        /\ (r.fixed = FALSE /\ r.sql = <<>>) \/ (r.fixed = TRUE /\ r.sql = s)
    BY <1>3, OddRunsAre, Zenon
  <2>2. r.exit \in Codes
    BY <2>1 DEF Codes
  <2>3. QED
    BY <1>0, <1>00, <1>3, <2>1, <2>2, Zenon
<1>4. CASE r = Threw /\ r.odd /\ (FindDsqlLint(install) => faults < MaxFaults)
  BY <1>0, <1>4 DEF Threw, Codes
<1>5. QED
  BY <1>1, <1>2, <1>3, <1>4, AnswerCases

\* 0 and 3 come from a run that went as it should.
LEMMA FineAnswer ==
  ASSUME NEW s \in Seq(Kinds), NEW r \in Answers(s, TRUE), r.exit \in Fine
  PROVE  /\ r = FixRun(release, s) /\ ~r.odd /\ ~r.threw
         /\ r.sql = FixedSql(release, s) /\ r.diags = Diagnostics(release, s)
         /\ FixExit(Diagnostics(release, s)) \in Fine
         /\ r.sql \in Seq(Ready)
<1>1. r = FixRun(release, s) /\ ~r.odd
  <2>1. \A x \in OddRuns(s) : x.exit \in {1, 2, Odd}
    BY OddRunsAre
  <2>2. r \notin OddRuns(s)
    BY <2>1 DEF Fine, Odd
  <2>3. r # Threw
    BY DEF Threw, Fine
  <2>4. \/ r = (IF TRUE THEN FixRun(release, s) ELSE LintRun(release, s)) /\ ~r.odd
        \/ r \in OddRuns(s) \/ r = Threw
    BY AnswerCases, Zenon
  <2>5. QED
    BY <2>2, <2>3, <2>4
<1>2. /\ r.threw = FALSE /\ r.exit = FixExit(Diagnostics(release, s))
      /\ r.sql = FixedSql(release, s) /\ r.diags = Diagnostics(release, s)
  BY <1>1, FixRunIs, Zenon
<1>3. FixExit(Diagnostics(release, s)) \in {0, 3}
  BY <1>2 DEF Fine
<1>4. FixedSql(release, s) \in Seq(Ready)
  BY <1>3, FixedIsReady, Zenon
<1>5. QED
  BY <1>1, <1>2, <1>3, <1>4 DEF Fine

\* What can be written says what was read.
LEMMA AnswerSays ==
  ASSUME NEW s \in Seq(Kinds), NEW r \in Answers(s, TRUE),
         ~r.threw, ~BreaksContract(r), r.exit # 1
  PROVE  Says(r.sql) = Says(s)
<1>1. CASE r = FixRun(release, s)
  <2>1. r.sql = FixedSql(release, s)
    BY <1>1, FixRunIs, Zenon
  <2>2. QED
    BY <2>1, FixedSqlSays, Zenon
<1>2. CASE r \in OddRuns(s)
  <2>1. (r.fixed = FALSE /\ r.sql = <<>>) \/ (r.fixed = TRUE /\ r.sql = s /\ r.exit # 1)
    BY <1>2, OddRunsAre, Zenon
  <2>2. QED
    BY <2>1 DEF BreaksContract
<1>3. CASE r = Threw
  BY <1>3 DEF Threw
<1>4. \/ r = (IF TRUE THEN FixRun(release, s) ELSE LintRun(release, s)) /\ ~r.odd
      \/ r \in OddRuns(s) \/ r = Threw
  BY AnswerCases, Zenon
<1>5. QED
  BY <1>1, <1>2, <1>3, <1>4

-----------------------------------------------------------------------------
(* Chunks.                                                                 *)

\* The chunks of a file that are sent to the linter.
LEMMA ChunksOfType ==
  ASSUME NEW K, NEW c \in Seq(Seq(K))
  PROVE  ChunksOf(c) \in Seq(Seq(K))
<1> DEFINE sent(i) == IF c[i] = <<>> THEN <<>> ELSE <<c[i]>>
           kept == [i \in DOMAIN c |-> sent(i)]
<1>0. \A i \in DOMAIN c : c[i] \in Seq(K)
  OBVIOUS
<1>1. kept \in Seq(Seq(Seq(K)))
  <2>1. \A i \in DOMAIN c : sent(i) \in Seq(Seq(K))
    BY <1>0
  <2>2. DOMAIN c = 1..Len(c) /\ Len(c) \in Nat
    OBVIOUS
  <2> HIDE DEF sent
  <2>3. QED
    BY <2>1, <2>2
<1>2. FlattenSeq(kept) \in Seq(Seq(K))
  BY <1>1, FlattenType
<1>3. QED
  BY <1>2 DEF ChunksOf

\* The types of what is written,
LEMMA JoinedType ==
  ASSUME NEW K, NEW c \in Seq(Seq(K))
  PROVE  Joined(c) \in Seq(Seq(K)) /\ Joined(c) # <<>> /\ Len(Joined(c)) \in Nat \ {0}
BY DEF Joined, Empty

\* of what is left of it when the write is cut,
LEMMA CutType ==
  ASSUME NEW K, NEW c \in Seq(Seq(K)), NEW n \in 0..(Len(c) - 1)
  PROVE  /\ (IF n = 0 THEN Empty ELSE SubSeq(c, 1, n)) \in Seq(Seq(K))
         /\ (IF n = 0 THEN Empty ELSE SubSeq(c, 1, n)) # <<>>
         /\ n # 0 => Len(SubSeq(c, 1, n)) = n /\ \A i \in 1..n : SubSeq(c, 1, n)[i] = c[i]
<1>1. Len(c) \in Nat /\ n \in Nat
  OBVIOUS
<1>2. ASSUME n # 0
      PROVE  /\ SubSeq(c, 1, n) \in Seq(Seq(K)) /\ Len(SubSeq(c, 1, n)) = n
             /\ \A i \in 1..n : SubSeq(c, 1, n)[i] = c[i]
  <2>1. \A i \in 1..n : c[i] \in Seq(K)
    BY <1>1
  <2>2. QED
    BY <1>1, <1>2, <2>1, SubSeqProperties
<1>3. Empty \in Seq(Seq(K)) /\ Empty # <<>>
  BY DEF Empty
<1>4. n # 0 => SubSeq(c, 1, n) # <<>>
  BY <1>2
<1>5. QED
  BY <1>2, <1>3, <1>4

\* of what the developer makes of it
LEMMA ByHandType ==
  ASSUME NEW c \in Contentses
  PROVE  /\ ByHand(c) \in Contentses /\ Len(ByHand(c)) = Len(c)
         /\ \A i \in DOMAIN c : Len(ByHand(c)[i]) = Len(c[i])
<1>1. \A i \in DOMAIN c : [j \in DOMAIN c[i] |-> IF c[i][j] = "array" THEN "table" ELSE c[i][j]] \in Seq(Kinds)
  <2>1. "table" \in Kinds
    BY DEF Kinds, Ddl
  <2>2. TAKE i \in DOMAIN c
  <2>3. c[i] \in Seq(Kinds)
    BY DEF Contentses
  <2>4. QED
    BY <2>1, <2>3
<1>2. \A i \in DOMAIN c : c[i] \in Seq(Kinds)
  BY DEF Contentses
<1>3. QED
  BY <1>1, <1>2 DEF ByHand, Contentses

\* and of a wrapped script.
LEMMA WrappedType ==
  ASSUME NEW s \in Seq(Kinds)
  PROVE  WrapInTransaction(s) \in Seq(Kinds)
BY SaysWrapped DEF WrapInTransaction

-----------------------------------------------------------------------------
(* Every step keeps the types.                                             *)

\* Standard input has no file's number.
LEMMA StdinIsNoFile ==
  Stdin \notin Targets /\ Files \subseteq Targets /\ Out \in Targets /\ Out \notin Files
    /\ Sources = Targets \cup {Stdin} /\ Files \subseteq Nat
BY CliAssumption DEF Targets, Sources, Files, Out, Stdin

\* Nobody installs another linter.
LEMMA WorldStays ==
  ASSUME Next
  PROVE  UNCHANGED world
<1>1. ASSUME DrizzleStart \/ DrizzleProcess \/ Died \/ DrizzleDeveloper
      PROVE  UNCHANGED world
  BY <1>1 DEF DrizzleStart, HandleGenerate, HandleTransform, HandleLint, Help, Usage, Begin,
        DrizzleProcess, DrizzleKitGenerate, ListSqlFiles, ReadFile, TransformChunk,
        FileTransformed, GenerateDone, ReadTransformInput, ScriptTransformed, DrizzleLint,
        WriteFile, Died, DrizzleDeveloper, Again, Edit
<1>2. ASSUME PrismaStart \/ PrismaProcess \/ PrismaDied \/ PrismaDeveloper
      PROVE  UNCHANGED world
  BY <1>2 DEF PrismaStart, HandleMigrate, HandleValidate, Diff, HandlePrismaTransform,
        HandlePrismaLint, Help, Usage, Begin, PrismaProcess, Lint, Relint, PrismaLint,
        WriteMigration, PrismaDied, PrismaDeveloper, Again, Edit
<1>3. QED
  BY <1>1, <1>2 DEF Next, DrizzleStep, PrismaStep

\* The bounds are numbers.
LEMMA Bounds == MaxFiles \in Nat /\ MaxInvocations \in Nat /\ MaxFaults \in Nat
BY CliAssumption

\* At the start.
LEMMA InitTypes == Init => TypeInv
<1> SUFFICES ASSUME Init PROVE TypeInv
  OBVIOUS
<1>1. \A c \in Contents : c \in Contentses
  BY CliAssumption DEF Contentses
<1>2. \A s \in Scripts : <<s>> \in Contentses
  BY CliAssumption DEF Contentses
<1>3. Absent \in Contentses
  BY DEF Absent, Contentses
<1>40. /\ given = disk /\ invocations = 0 /\ faults = 0 /\ command = "none" /\ pc = "idle"
       /\ exitCode = 0 /\ source = Stdin /\ target = Out /\ code = 0 /\ parts = <<>>
       /\ reported = {} /\ text = <<>> /\ torn = {} /\ tainted = {} /\ failed = FALSE
  BY DEF Init, CliInit
<1>41. \E c \in Contentses : disk = [f \in Targets |-> IF f = 1 THEN c ELSE Absent]
  <2>1. CASE CliInit("drizzle", Contents)
    <3>1. PICK c \in Contents \cup {Absent} :
            disk = [f \in Files \cup {Out} |-> IF f = 1 THEN c ELSE Absent]
      BY <2>1 DEF CliInit
    <3>2. c \in Contentses
      BY <1>1, <1>3
    <3>3. QED
      BY <3>1, <3>2 DEF Targets
  <2>2. CASE CliInit("prisma", {<<s>> : s \in Scripts})
    <3>1. PICK c \in {<<s>> : s \in Scripts} \cup {Absent} :
            disk = [f \in Files \cup {Out} |-> IF f = 1 THEN c ELSE Absent]
      BY <2>2 DEF CliInit
    <3>2. c \in Contentses
      BY <1>2, <1>3
    <3>3. QED
      BY <3>1, <3>2 DEF Targets
  <2>3. QED
    BY <2>1, <2>2 DEF Init
<1>4. disk \in [Targets -> Contentses] /\ given \in [Targets -> Contentses]
  BY <1>3, <1>40, <1>41
<1>5. WorldOK
  BY CliAssumption DEF Init, CliInit, WorldOK, Releases
<1>6. FilesOK
  BY <1>4, <1>40 DEF FilesOK
<1>7. ProcessOK
  <2>1. invocations \in 0..MaxInvocations /\ faults \in 0..MaxFaults
    BY <1>40, Bounds
  <2>2. /\ command \in {"none", "help", "usage", "generate", "transform", "lint", "migrate", "validate"}
        /\ pc \in {"idle"} \cup Running \cup Ended
    BY <1>40
  <2>3. exitCode \in Codes /\ failed \in BOOLEAN
    BY <1>40 DEF Codes
  <2>4. QED
    BY <2>1, <2>2, <2>3 DEF ProcessOK
<1>8. ScriptOK
  BY <1>40, StdinIsNoFile DEF ScriptOK, Codes, Contentses
<1>9. DrizzleOK /\ PrismaOK
  BY DEF Init, DrizzleInit, PrismaInit, DrizzleOK, PrismaOK, Codes, Contentses
<1>10. HandOK
  BY DEF Init, CliInit, HandOK, InHand
<1>11. QED
  BY <1>5, <1>6, <1>7, <1>8, <1>9, <1>10 DEF TypeInv

\* A process starts, whatever its command.
LEMMA BeginTypes ==
  ASSUME TypeInv, NEW c \in {"help", "usage", "generate", "transform", "lint", "migrate", "validate"},
         Begin(c)
  PROVE  /\ WorldOK' /\ FilesOK' /\ invocations' \in 0..MaxInvocations /\ faults' \in 0..MaxFaults
         /\ command' = c /\ failed' = FALSE /\ code' = 0 /\ parts' = <<>> /\ reported' = {}
         /\ disk' = disk /\ given' = given
BY Bounds DEF TypeInv, WorldOK, FilesOK, ProcessOK, Begin, world, files

\* What it reads.
LEMMA ReadTypes ==
  ASSUME TypeInv, disk' = disk, given' = given, NEW next \in Running,
         ReadFileArgument(next) \/ ReadStdin(next) \/ InputMissing
  PROVE  /\ source' \in Sources /\ target' \in Targets /\ text' \in Contentses
         /\ pc' \in {next, "exited"} /\ exitCode' \in Codes
         /\ pc' = next => Input' # <<>> /\ (source' # Stdin => text' = given'[source'])
<1>1. CASE ReadFileArgument(next)
  <2>1. PICK f \in Targets, to \in Targets :
          /\ disk[f] # Absent
          /\ source' = f /\ target' = to /\ text' = given[f] /\ pc' = next
          /\ UNCHANGED exitCode
    BY <1>1 DEF ReadFileArgument, Targets
  <2>2. Input' = disk[f] /\ disk[f] # <<>>
    BY <2>1, StdinIsNoFile DEF Input, Absent
  <2>3. given[f] \in Contentses
    BY DEF TypeInv, FilesOK
  <2>4. QED
    BY <2>1, <2>2, <2>3, StdinIsNoFile DEF TypeInv, ProcessOK
<1>2. CASE ReadStdin(next)
  <2>1. PICK s \in Scripts : source' = Stdin /\ target' = Out /\ text' = <<s>> /\ pc' = next
                               /\ UNCHANGED exitCode
    BY <1>2 DEF ReadStdin
  <2>2. <<s>> \in Contentses /\ <<s>> # <<>>
    BY CliAssumption DEF Contentses
  <2>3. QED
    BY <2>1, <2>2, StdinIsNoFile DEF TypeInv, ProcessOK, Input
<1>3. CASE InputMissing
  <2>1. source' = Stdin /\ target' = Out /\ text' = <<>> /\ pc' = "exited" /\ exitCode' = 1
    BY <1>3 DEF InputMissing, NoInput, Exit
  <2>2. next # "exited"
    BY DEF Running
  <2>3. QED
    BY <2>1, <2>2, StdinIsNoFile DEF Contentses, Codes
<1>4. QED
  BY <1>1, <1>2, <1>3

\* What was there, where a step leaves it alone.
LEMMA FilesStay ==
  ASSUME FilesOK, UNCHANGED files
  PROVE  FilesOK'
BY DEF FilesOK, files

\* Help and Usage, Again, Edit, and a process that dies.
LEMMA EndTypes ==
  ASSUME TypeInv, Help \/ Usage
  PROVE  /\ WorldOK' /\ FilesOK' /\ ProcessOK' /\ ScriptOK'
         /\ pc' = "exited"
<1>1. \E c \in {"help", "usage"} : Begin(c) /\ NoInput /\ (Exit(0) \/ Exit(1))
  BY DEF Help, Usage
<1>2. PICK c \in {"help", "usage"} : Begin(c) /\ NoInput /\ (Exit(0) \/ Exit(1))
  BY <1>1
<1>3. /\ WorldOK' /\ FilesOK' /\ invocations' \in 0..MaxInvocations /\ faults' \in 0..MaxFaults
      /\ command' = c /\ failed' = FALSE /\ code' = 0 /\ parts' = <<>> /\ reported' = {}
  BY <1>2, BeginTypes
<1>4. /\ pc' = "exited" /\ exitCode' \in {0, 1} /\ source' = Stdin /\ target' = Out /\ text' = <<>>
  BY <1>2 DEF NoInput, Exit
<1>5. ProcessOK'
  BY <1>3, <1>4 DEF ProcessOK, Ended, Codes
<1>6. ScriptOK'
  BY <1>3, <1>4, StdinIsNoFile DEF ScriptOK, Codes, Contentses
<1>7. QED
  BY <1>3, <1>4, <1>5, <1>6

\* The process is started again.
LEMMA AgainTypes ==
  ASSUME TypeInv, Again
  PROVE  WorldOK' /\ FilesOK' /\ ProcessOK' /\ ScriptOK' /\ pc' = "idle"
<1>1. WorldOK' /\ FilesOK'
  BY FilesStay DEF Again, TypeInv, WorldOK, world
<1>2. ProcessOK'
  BY DEF Again, TypeInv, ProcessOK, Codes
<1>3. ScriptOK'
  BY StdinIsNoFile DEF Again, ScriptOK, Codes, Contentses
<1>4. QED
  BY <1>1, <1>2, <1>3 DEF Again

\* The developer edits a file.
LEMMA EditTypes ==
  ASSUME TypeInv, NEW f \in Targets, Edit(f)
  PROVE  WorldOK' /\ FilesOK' /\ ProcessOK' /\ ScriptOK' /\ pc' = "idle"
<1>1. WorldOK' /\ ProcessOK' /\ ScriptOK' /\ pc' = "idle"
  BY DEF Edit, TypeInv, WorldOK, world, ProcessOK, ScriptOK
<1>2. ByHand(disk[f]) \in Contentses /\ ByHand(given[f]) \in Contentses
  BY ByHandType DEF TypeInv, FilesOK
<1>3. FilesOK'
  BY <1>2 DEF Edit, TypeInv, FilesOK
<1>4. QED
  BY <1>1, <1>3

\* The types of what is written.
LEMMA WroteTypes ==
  ASSUME TypeInv, NEW c \in Contentses, Wrote(c), torn' \subseteq torn \cup {target}
  PROVE  FilesOK'
<1>1. target \in Targets /\ text \in Contentses
  BY DEF TypeInv, ScriptOK
<1>2. QED
  BY <1>1 DEF Wrote, TypeInv, FilesOK

\* A file is written, whole or not.
LEMMA WriteTypes ==
  ASSUME TypeInv, NEW c \in Contentses, Write(c)
  PROVE  FilesOK'
BY WroteTypes DEF Write

\* A process dies.
LEMMA DeathTypes ==
  ASSUME TypeInv, NEW c \in Contentses, CrashInWrite(c) \/ WriteFails \/ Crash
  PROVE  /\ FilesOK' /\ faults' \in 0..MaxFaults
         /\ pc' \in {"crashed", "threw"} /\ exitCode' \in Codes
<1>1. CASE CrashInWrite(c)
  <2>1. PICK n \in 0..(Len(c) - 1) : WriteCut(c, n)
    BY <1>1 DEF CrashInWrite
  <2>2. (IF n = 0 THEN Empty ELSE SubSeq(c, 1, n)) \in Contentses
    BY CutType DEF Contentses
  <2>3. FilesOK'
    BY <2>1, <2>2, WroteTypes DEF WriteCut
  <2>4. QED
    BY <1>1, <2>3, Bounds DEF CrashInWrite, TypeInv, ProcessOK
<1>2. CASE WriteFails
  BY <1>2, FilesStay, Bounds DEF WriteFails, Throw, TypeInv, ProcessOK, Codes
<1>3. CASE Crash
  BY <1>3, FilesStay, Bounds DEF Crash, files, TypeInv, ProcessOK
<1>4. QED
  BY <1>1, <1>2, <1>3

\* The linter answers.
LEMMA AnsweredTypes ==
  ASSUME TypeInv, NEW s \in Seq(Kinds), NEW fix \in BOOLEAN, NEW r \in Answers(s, fix), Answered(r)
  PROVE  /\ faults' \in 0..MaxFaults /\ failed' \in BOOLEAN
         /\ r.exit \in Codes /\ r.sql \in Seq(Kinds) /\ r.diags \subseteq AnyDiagnostic
         /\ Report(r.diags) \subseteq Labels
<1>1. /\ r.odd \in BOOLEAN /\ r.exit \in Codes /\ r.sql \in Seq(Kinds)
      /\ r.diags \subseteq AnyDiagnostic /\ Report(r.diags) \subseteq Labels
      /\ r.odd /\ FindDsqlLint(install) => faults < MaxFaults
  BY AnswerType DEF TypeInv, WorldOK
<1>2. faults \in 0..MaxFaults /\ failed \in BOOLEAN
  BY DEF TypeInv, ProcessOK
<1>3. faults' \in 0..MaxFaults
  <2>1. CASE r.odd /\ FindDsqlLint(install)
    BY <1>1, <1>2, <2>1, Bounds DEF Answered
  <2>2. CASE ~(r.odd /\ FindDsqlLint(install))
    BY <1>2, <2>2 DEF Answered
  <2>3. QED
    BY <2>1, <2>2
<1>4. failed' \in BOOLEAN
  BY <1>1, <1>2 DEF Answered
<1>5. QED
  BY <1>1, <1>3, <1>4

\* A migration that drizzle-kit or the developer adds.
LEMMA NewFileTypes ==
  ASSUME TypeInv, NEW c \in Contents, NewFile(c)
  PROVE  FilesOK'
<1>1. c \in Contentses
  BY CliAssumption DEF Contentses
<1>2. PICK f \in Files : disk' = [disk EXCEPT ![f] = c] /\ given' = [given EXCEPT ![f] = c]
                           /\ UNCHANGED <<torn, tainted>>
  BY DEF NewFile
<1>3. QED
  BY <1>1, <1>2 DEF TypeInv, FilesOK

\* transformMigrationFile is entered, or refuses.
LEMMA EnterTypes ==
  ASSUME TypeInv, NEW content \in Contentses, TransformMigrationFile(content)
  PROVE  /\ code' = 0 /\ parts' = <<>> /\ shown' = {} /\ todo' \in Contentses
         /\ \/ pc' = "chunk" /\ todo' = ChunksOf(content) /\ exitCode' = exitCode
            \/ pc' = "threw" /\ exitCode' = 1
<1>1. ChunksOf(content) \in Contentses /\ <<>> \in Contentses
  BY ChunksOfType DEF Contentses
<1>2. QED
  BY <1>1 DEF TransformMigrationFile, Throw

\* What the process read.
LEMMA InputType ==
  ASSUME TypeInv
  PROVE  Input \in Contentses
BY DEF TypeInv, FilesOK, ScriptOK, Input, Sources, Targets

\* The file that is next.
LEMMA MinOf ==
  ASSUME NEW Q, Q \subseteq Nat, Q # {}
  PROVE  Min(Q) \in Q
<1>1. PICK n \in Q : \A m \in Nat : m < n => m \notin Q
  BY MinimalNumber
<1>2. \A m \in Q : n <= m
  BY <1>1
<1>3. QED
  BY <1>2 DEF Min

\* The commands of drizzle begin,
LEMMA DrizzleStartTypes ==
  ASSUME TypeInv, DrizzleStart, UNCHANGED prismaVars
  PROVE  TypeInv'
<1>1. PrismaOK'
  BY DEF TypeInv, PrismaOK, prismaVars
<1>2. CASE HandleGenerate
  <2>1. Begin("generate") /\ NoInput /\ pc' = "kit" /\ queue' = {} /\ todo' = <<>> /\ shown' = {}
          /\ worst' = 0 /\ seen' = {} /\ exitCode' = exitCode
    BY <1>2 DEF HandleGenerate
  <2>2. /\ WorldOK' /\ FilesOK' /\ invocations' \in 0..MaxInvocations /\ faults' \in 0..MaxFaults
        /\ command' = "generate" /\ failed' = FALSE /\ code' = 0 /\ parts' = <<>> /\ reported' = {}
    BY <2>1, BeginTypes
  <2>3. ProcessOK'
    BY <2>1, <2>2 DEF ProcessOK, Running, TypeInv
  <2>4. ScriptOK' /\ DrizzleOK'
    BY <2>1, <2>2, StdinIsNoFile DEF ScriptOK, DrizzleOK, NoInput, Codes, Contentses
  <2>5. HandOK'
    BY <2>1, <2>2 DEF HandOK, InHand
  <2>6. QED
    BY <1>1, <2>2, <2>3, <2>4, <2>5 DEF TypeInv
<1>3. ASSUME HandleTransform \/ HandleLint
      PROVE  TypeInv'
  <2>1. PICK c \in {"transform", "lint"}, next \in {"read", "lint"} :
          /\ Begin(c) /\ (ReadFileArgument(next) \/ ReadStdin(next) \/ InputMissing)
          /\ queue' = {} /\ todo' = <<>> /\ shown' = {} /\ worst' = 0 /\ seen' = {}
    BY <1>3 DEF HandleTransform, HandleLint
  <2>2. /\ WorldOK' /\ FilesOK' /\ invocations' \in 0..MaxInvocations /\ faults' \in 0..MaxFaults
        /\ command' = c /\ failed' = FALSE /\ code' = 0 /\ parts' = <<>> /\ reported' = {}
        /\ disk' = disk /\ given' = given
    BY <2>1, BeginTypes
  <2>3. next \in Running
    BY DEF Running
  <2>4. /\ source' \in Sources /\ target' \in Targets /\ text' \in Contentses
        /\ pc' \in {next, "exited"} /\ exitCode' \in Codes
        /\ pc' = next => Input' # <<>> /\ (source' # Stdin => text' = given'[source'])
    BY <2>1, <2>2, <2>3, ReadTypes
  <2>5. ProcessOK'
    BY <2>1, <2>2, <2>4 DEF ProcessOK, Running, Ended
  <2>6. ScriptOK' /\ DrizzleOK'
    BY <2>1, <2>2, <2>4 DEF ScriptOK, DrizzleOK, Codes, Contentses
  <2>7. HandOK'
    BY <2>1, <2>2, <2>4 DEF HandOK, InHand
  <2>8. QED
    BY <1>1, <2>2, <2>5, <2>6, <2>7 DEF TypeInv
<1>4. ASSUME Help \/ Usage, UNCHANGED drizzleVars
      PROVE  TypeInv'
  <2>1. WorldOK' /\ FilesOK' /\ ProcessOK' /\ ScriptOK' /\ pc' = "exited"
    BY <1>4, EndTypes
  <2>2. DrizzleOK'
    BY <1>4 DEF TypeInv, DrizzleOK, drizzleVars
  <2>3. QED
    BY <1>1, <2>1, <2>2 DEF TypeInv, HandOK, InHand
<1>5. QED
  BY <1>2, <1>3, <1>4 DEF DrizzleStart

\* go on,
LEMMA DrizzleProcessTypes ==
  ASSUME TypeInv, tool = "drizzle", DrizzleProcess, UNCHANGED world, UNCHANGED prismaVars
  PROVE  TypeInv'
<1>0. WorldOK' /\ PrismaOK'
  BY DEF TypeInv, WorldOK, PrismaOK, world, prismaVars
<1>00. FilesOK /\ ProcessOK /\ ScriptOK /\ DrizzleOK /\ HandOK
  BY DEF TypeInv
<1>1. CASE DrizzleKitGenerate
  <2>1. /\ pc = "kit" /\ pc' \in {"readdir", "exited"} /\ exitCode' \in {exitCode, 1}
        /\ failed' = failed \/ failed' = TRUE
        /\ UNCHANGED <<world, invocations, faults, processVars, code, parts, reported, drizzleVars>>
    BY <1>1 DEF DrizzleKitGenerate, Exit
  <2>2. FilesOK'
    <3>1. CASE \E c \in Contents : NewFile(c)
      BY <3>1, NewFileTypes
    <3>2. CASE UNCHANGED files
      BY <1>00, <3>2, FilesStay
    <3>3. (\E c \in Contents : NewFile(c)) \/ UNCHANGED files
      BY <1>1 DEF DrizzleKitGenerate
    <3>4. QED
      BY <3>1, <3>2, <3>3, Zenon
  <2>20. failed' \in BOOLEAN
    BY <1>00, <2>1, Zenon DEF ProcessOK
  <2>3. ProcessOK' /\ ScriptOK' /\ DrizzleOK'
    BY <1>00, <2>1, <2>20 DEF ProcessOK, ScriptOK, DrizzleOK, Running, Ended, Codes, processVars, drizzleVars
  <2>4. HandOK'
    BY <1>00, <2>1 DEF HandOK, InHand, processVars
  <2>5. QED
    BY <1>0, <2>2, <2>3, <2>4 DEF TypeInv
<1>2. CASE ListSqlFiles
  <2>1. /\ pc = "readdir"
        /\ \/ pc' = "exited" /\ exitCode' = 1 /\ queue' = queue
           \/ pc' = "file" /\ exitCode' = exitCode /\ queue' = {f \in Files : disk[f] # Absent}
        /\ UNCHANGED <<world, files, invocations, faults, processVars, code, parts, reported, failed,
                       todo, shown, worst, seen>>
    BY <1>2 DEF ListSqlFiles, Exit
  <2>2. FilesOK'
    BY <1>00, <2>1, FilesStay
  <2>3. ProcessOK' /\ ScriptOK' /\ DrizzleOK'
    BY <1>00, <2>1 DEF ProcessOK, ScriptOK, DrizzleOK, Running, Ended, Codes, processVars
  <2>4. HandOK'
    BY <1>00, <2>1 DEF HandOK, InHand, processVars, files, Absent
  <2>5. QED
    BY <1>0, <2>2, <2>3, <2>4 DEF TypeInv
<1>3. CASE ReadFile
  <2>1. Min(queue) \in queue
    <3>1. queue # {} /\ queue \subseteq Nat
      BY <1>00, <1>3, StdinIsNoFile DEF ReadFile, DrizzleOK
    <3>2. QED
      BY <3>1, MinOf
  <2> DEFINE f == Min(queue)
  <2> HIDE DEF f
  <2>2. f \in Files /\ f \in queue
    BY <1>00, <2>1 DEF DrizzleOK, f
  <2>3. /\ pc = "file" /\ source' = f /\ target' = f /\ text' = given[f] /\ queue' = queue \ {f}
        /\ TransformMigrationFile(disk[f])
        /\ reported' = {}
        /\ UNCHANGED <<world, files, invocations, faults, command, failed, worst, seen>>
    BY <1>3 DEF ReadFile, f
  <2>4. disk[f] \in Contentses /\ given[f] \in Contentses /\ f \in Targets /\ f # Stdin
    BY <1>00, <2>2, StdinIsNoFile DEF FilesOK
  <2>5. command = "generate" /\ \A g \in queue : disk[g] # <<>>
    BY <1>00, <2>3 DEF HandOK
  <2>6. /\ code' = 0 /\ parts' = <<>> /\ shown' = {} /\ todo' \in Contentses
        /\ pc' \in {"chunk", "threw"} /\ exitCode' \in {exitCode, 1}
    BY <2>3, <2>4, EnterTypes
  <2>7. FilesOK'
    BY <1>00, <2>3, FilesStay
  <2>8. ProcessOK' /\ DrizzleOK'
    BY <1>00, <2>3, <2>6 DEF ProcessOK, DrizzleOK, Running, Ended, Codes
  <2>9. ScriptOK'
    BY <1>00, <2>3, <2>4, <2>6, StdinIsNoFile DEF ScriptOK, Codes, Contentses
  <2>10. HandOK'
    <3>1. Input' = disk[f]
      BY <2>3, <2>4 DEF Input, files
    <3>2. QED
      BY <2>2, <2>3, <2>4, <2>5, <2>6, <3>1 DEF HandOK, InHand, files
  <2>11. QED
    BY <1>0, <2>7, <2>8, <2>9, <2>10 DEF TypeInv
<1>4. CASE TransformChunk
  <2>1. PICK r \in Answers(Head(todo), TRUE) :
          /\ Answered(r)
          /\ IF r.threw \/ BreaksContract(r)
             THEN Throw /\ UNCHANGED <<code, parts, shown, todo, seen>>
             ELSE /\ seen' = seen \cup {r.exit}
                  /\ code' = WorseExitCode(code, r.exit)
                  /\ parts' = IF r.sql = <<>> THEN parts ELSE Append(parts, r.sql)
                  /\ shown' = shown \cup Report(r.diags)
                  /\ todo' = Tail(todo)
                  /\ UNCHANGED <<pc, exitCode>>
    BY <1>4 DEF TransformChunk
  <2>2. /\ pc = "chunk" /\ todo # <<>>
        /\ UNCHANGED <<world, files, invocations, processVars, reported, queue, worst>>
    BY <1>4 DEF TransformChunk
  <2>3. Head(todo) \in Seq(Kinds) /\ Tail(todo) \in Contentses
    BY <1>00, <2>2 DEF DrizzleOK, Contentses
  <2>4. /\ faults' \in 0..MaxFaults /\ failed' \in BOOLEAN
        /\ r.exit \in Codes /\ r.sql \in Seq(Kinds) /\ Report(r.diags) \subseteq Labels
    BY <2>1, <2>3, AnsweredTypes
  <2>5. code \in Codes /\ parts \in Contentses /\ shown \subseteq Labels /\ todo \in Contentses
          /\ seen \subseteq Codes
    BY <1>00 DEF ScriptOK, DrizzleOK
  <2>6. Append(parts, r.sql) \in Contentses
    BY <2>4, <2>5 DEF Contentses
  <2>7. WorseExitCode(code, r.exit) \in Codes
    BY <2>4, <2>5 DEF WorseExitCode
  <2>8. code' \in Codes /\ parts' \in Contentses /\ shown' \subseteq Labels /\ todo' \in Contentses
          /\ seen' \subseteq Codes
    BY <2>1, <2>3, <2>4, <2>5, <2>6, <2>7
  <2>9. pc' \in {"threw", "chunk"} /\ exitCode' \in {exitCode, 1}
    BY <2>1, <2>2 DEF Throw
  <2>10. FilesOK'
    BY <1>00, <2>2, FilesStay
  <2>11. ProcessOK' /\ ScriptOK' /\ DrizzleOK'
    BY <1>00, <2>2, <2>4, <2>8, <2>9
       DEF ProcessOK, ScriptOK, DrizzleOK, Running, Ended, Codes, processVars
  <2>12. HandOK'
    BY <1>00, <2>2, <2>9 DEF HandOK, InHand, Input, files, processVars
  <2>13. QED
    BY <1>0, <2>10, <2>11, <2>12 DEF TypeInv
<1>5. CASE FileTransformed
  <2>1. WorseExitCode(worst, code) \in Codes /\ reported \cup shown \subseteq Labels
    BY <1>00 DEF ScriptOK, DrizzleOK, WorseExitCode
  <2>2. FilesOK'
    BY <1>00, <1>5, FilesStay DEF FileTransformed
  <2>3. ProcessOK' /\ ScriptOK' /\ DrizzleOK'
    BY <1>00, <1>5, <2>1
       DEF FileTransformed, ProcessOK, ScriptOK, DrizzleOK, Running, processVars
  <2>4. HandOK'
    BY <1>00, <1>5 DEF FileTransformed, HandOK, InHand, Input, files, processVars
  <2>5. QED
    BY <1>0, <2>2, <2>3, <2>4 DEF TypeInv
<1>6. CASE GenerateDone
  <2>1. FilesOK'
    BY <1>00, <1>6, FilesStay DEF GenerateDone
  <2>2. ProcessOK' /\ ScriptOK' /\ DrizzleOK'
    BY <1>00, <1>6
       DEF GenerateDone, Exit, ProcessOK, ScriptOK, DrizzleOK, Ended, processVars, drizzleVars
  <2>3. HandOK'
    BY <1>6 DEF GenerateDone, Exit, HandOK, InHand
  <2>4. QED
    BY <1>0, <2>1, <2>2, <2>3 DEF TypeInv
<1>7. CASE ReadTransformInput
  <2>1. /\ pc = "read" /\ command = "transform" /\ TransformMigrationFile(Input)
        /\ UNCHANGED <<world, files, invocations, faults, processVars, reported, failed, queue,
                       worst, seen>>
    BY <1>7 DEF ReadTransformInput
  <2>2. Input \in Contentses
    BY InputType
  <2>3. /\ code' = 0 /\ parts' = <<>> /\ shown' = {} /\ todo' \in Contentses
        /\ pc' \in {"chunk", "threw"} /\ exitCode' \in {exitCode, 1}
    BY <2>1, <2>2, EnterTypes
  <2>4. FilesOK'
    BY <1>00, <2>1, FilesStay
  <2>5. ProcessOK' /\ ScriptOK' /\ DrizzleOK'
    BY <1>00, <2>1, <2>3
       DEF ProcessOK, ScriptOK, DrizzleOK, Running, Ended, Codes, processVars, Contentses
  <2>6. HandOK'
    BY <1>00, <2>1, <2>3 DEF HandOK, InHand, Input, files, processVars
  <2>7. QED
    BY <1>0, <2>4, <2>5, <2>6 DEF TypeInv
<1>8. CASE ScriptTransformed
  <2>1. FilesOK'
    BY <1>00, <1>8, FilesStay DEF ScriptTransformed
  <2>2. ProcessOK' /\ ScriptOK' /\ DrizzleOK'
    BY <1>00, <1>8
       DEF ScriptTransformed, Exit, ProcessOK, ScriptOK, DrizzleOK, Running, Ended, processVars,
           drizzleVars
  <2>3. HandOK'
    BY <1>00, <1>8 DEF ScriptTransformed, Exit, HandOK, InHand, Input, files, processVars
  <2>4. QED
    BY <1>0, <2>1, <2>2, <2>3 DEF TypeInv
<1>9. CASE DrizzleLint
  <2>1. PICK r \in Answers(FlattenSeq(Input), FALSE) :
          /\ Answered(r)
          /\ IF r.threw THEN Throw /\ UNCHANGED reported
             ELSE Exit(r.exit) /\ reported' = reported \cup Report(r.diags)
    BY <1>9 DEF DrizzleLint
  <2>2. UNCHANGED <<world, files, invocations, processVars, code, parts, drizzleVars>>
    BY <1>9 DEF DrizzleLint
  <2>3. FlattenSeq(Input) \in Seq(Kinds)
    BY InputType, FlattenType DEF Contentses
  <2>4. /\ faults' \in 0..MaxFaults /\ failed' \in BOOLEAN
        /\ r.exit \in Codes /\ Report(r.diags) \subseteq Labels
    BY <2>1, <2>3, AnsweredTypes
  <2>5. pc' \in {"threw", "exited"} /\ exitCode' \in Codes /\ reported' \subseteq Labels
    BY <1>00, <2>1, <2>4 DEF Throw, Exit, Codes, ScriptOK
  <2>6. FilesOK'
    BY <1>00, <2>2, FilesStay
  <2>7. ProcessOK' /\ ScriptOK' /\ DrizzleOK'
    BY <1>00, <2>2, <2>4, <2>5
       DEF ProcessOK, ScriptOK, DrizzleOK, Ended, processVars, drizzleVars
  <2>8. HandOK'
    BY <2>5 DEF HandOK, InHand
  <2>9. QED
    BY <1>0, <2>6, <2>7, <2>8 DEF TypeInv
<1>10. CASE WriteFile
  <2>1. Joined(parts) \in Contentses /\ Joined(parts) # <<>>
    BY <1>00, JoinedType DEF ScriptOK, Contentses
  <2>2. /\ pc = "write" /\ Write(Joined(parts))
        /\ pc' \in {"file", "exited"} /\ exitCode' \in Codes
        /\ pc' = "file" => command = "generate"
        /\ UNCHANGED <<world, invocations, faults, processVars, code, parts, reported, failed, drizzleVars>>
    BY <1>00, <1>10 DEF WriteFile, Exit, ProcessOK, ScriptOK
  <2>3. FilesOK'
    BY <2>1, <2>2, WriteTypes
  <2>4. ProcessOK' /\ ScriptOK' /\ DrizzleOK'
    BY <1>00, <2>2 DEF ProcessOK, ScriptOK, DrizzleOK, Running, Ended, processVars, drizzleVars
  <2>5. HandOK'
    <3>1. disk' = [disk EXCEPT ![target] = Joined(parts)]
      BY <2>2 DEF Write, Wrote
    <3>2. ASSUME command = "generate"
          PROVE  \A f \in queue : disk'[f] # <<>>
      <4>1. \A f \in queue : disk[f] # <<>> /\ f \in Targets
        BY <1>00, <2>2, <3>2, StdinIsNoFile DEF HandOK, DrizzleOK
      <4>2. QED
        BY <1>00, <2>1, <3>1, <4>1 DEF FilesOK
    <3>3. QED
      BY <2>2, <3>2 DEF HandOK, InHand, processVars, drizzleVars
  <2>6. QED
    BY <1>0, <2>3, <2>4, <2>5 DEF TypeInv
<1>11. QED
  BY <1>1, <1>2, <1>3, <1>4, <1>5, <1>6, <1>7, <1>8, <1>9, <1>10 DEF DrizzleProcess

\* die, and are followed by the developer.
LEMMA DrizzleOtherTypes ==
  ASSUME TypeInv, Died \/ DrizzleDeveloper, UNCHANGED world, UNCHANGED prismaVars
  PROVE  TypeInv'
<1>0. WorldOK' /\ PrismaOK'
  BY DEF TypeInv, WorldOK, PrismaOK, world, prismaVars
<1>1. CASE Died
  <2>1. Joined(parts) \in Contentses
    BY JoinedType DEF TypeInv, ScriptOK, Contentses
  <2>2. /\ FilesOK' /\ faults' \in 0..MaxFaults
        /\ pc' \in {"crashed", "threw"} /\ exitCode' \in Codes
    BY <1>1, <2>1, DeathTypes DEF Died
  <2>3. ProcessOK' /\ ScriptOK' /\ DrizzleOK'
    BY <1>1, <2>2
       DEF Died, TypeInv, ProcessOK, ScriptOK, DrizzleOK, Ended, processVars, drizzleVars
  <2>4. QED
    BY <1>0, <2>2, <2>3 DEF TypeInv, HandOK, InHand
<1>2. CASE DrizzleDeveloper
  <2>1. WorldOK' /\ FilesOK' /\ ProcessOK' /\ ScriptOK' /\ pc' = "idle"
    BY <1>2, AgainTypes, EditTypes DEF DrizzleDeveloper, Targets
  <2>2. DrizzleOK'
    BY <1>2 DEF DrizzleDeveloper, TypeInv, DrizzleOK, drizzleVars
  <2>3. QED
    BY <1>0, <2>1, <2>2 DEF TypeInv, HandOK, InHand
<1>3. QED
  BY <1>1, <1>2

\* The commands of prisma begin,
LEMMA PrismaStartTypes ==
  ASSUME TypeInv, PrismaStart, UNCHANGED drizzleVars
  PROVE  TypeInv'
<1>1. DrizzleOK'
  BY DEF TypeInv, DrizzleOK, drizzleVars
<1>2. PrismaOK
  BY DEF TypeInv
<1>3. ASSUME HandleMigrate \/ HandleValidate
      PROVE  TypeInv'
  <2>1. PICK c \in {"migrate", "validate"} : Diff(c)
    BY <1>3 DEF HandleMigrate, HandleValidate
  <2>2. /\ WorldOK' /\ FilesOK' /\ invocations' \in 0..MaxInvocations /\ faults' \in 0..MaxFaults
        /\ command' = c /\ failed' = FALSE /\ code' = 0 /\ parts' = <<>> /\ reported' = {}
    BY <2>1, BeginTypes DEF Diff
  <2>3. /\ source' = Stdin /\ target' = Out /\ wrappedDiags' = {} /\ validated' = validated
        /\ \/ pc' = "exited" /\ exitCode' \in {0, 1} /\ text' = <<>>
           \/ pc' = "lint" /\ exitCode' = exitCode /\ \E s \in Scripts : text' = <<s>>
    BY <2>1 DEF Diff, Exit
  <2>4. \A s \in Scripts : <<s>> \in Contentses /\ <<s>> # <<>>
    BY CliAssumption DEF Contentses
  <2>5. text' \in Contentses /\ (pc' = "lint" => text' # <<>>)
    <3>1. CASE pc' = "lint"
      <4>1. PICK s \in Scripts : text' = <<s>>
        BY <2>3, <3>1
      <4>2. QED
        BY <2>4, <4>1
    <3>2. CASE pc' # "lint"
      <4>1. <<>> \in Contentses
        BY DEF Contentses
      <4>2. text' = <<>>
        BY <2>3, <3>2
      <4>3. QED
        BY <3>2, <4>1, <4>2, Zenon
    <3>3. QED
      BY <3>1, <3>2
  <2>6. ProcessOK'
    BY <2>2, <2>3 DEF TypeInv, ProcessOK, Running, Ended, Codes
  <2>7. ScriptOK'
    BY <2>2, <2>3, <2>5, StdinIsNoFile DEF ScriptOK, Codes, Contentses
  <2>8. PrismaOK'
    BY <1>2, <2>3 DEF PrismaOK
  <2>9. HandOK'
    BY <2>2, <2>3, <2>5 DEF HandOK, InHand, Input
  <2>10. QED
    BY <1>1, <2>2, <2>6, <2>7, <2>8, <2>9 DEF TypeInv
<1>4. ASSUME HandlePrismaTransform \/ HandlePrismaLint
      PROVE  TypeInv'
  <2>1. PICK c \in {"transform", "lint"} :
          /\ Begin(c) /\ (ReadFileArgument("lint") \/ ReadStdin("lint") \/ InputMissing)
          /\ wrappedDiags' = {} /\ UNCHANGED validated
    BY <1>4 DEF HandlePrismaTransform, HandlePrismaLint
  <2>2. /\ WorldOK' /\ FilesOK' /\ invocations' \in 0..MaxInvocations /\ faults' \in 0..MaxFaults
        /\ command' = c /\ failed' = FALSE /\ code' = 0 /\ parts' = <<>> /\ reported' = {}
        /\ disk' = disk /\ given' = given
    BY <2>1, BeginTypes
  <2>3. "lint" \in Running
    BY DEF Running
  <2>4. /\ source' \in Sources /\ target' \in Targets /\ text' \in Contentses
        /\ pc' \in {"lint", "exited"} /\ exitCode' \in Codes
        /\ pc' = "lint" => Input' # <<>> /\ (source' # Stdin => text' = given'[source'])
    BY <2>1, <2>2, <2>3, ReadTypes
  <2>5. ProcessOK'
    BY <2>1, <2>2, <2>4 DEF ProcessOK, Running, Ended
  <2>6. ScriptOK' /\ PrismaOK'
    BY <1>2, <2>1, <2>2, <2>4 DEF ScriptOK, PrismaOK, Codes, Contentses
  <2>7. HandOK'
    BY <2>1, <2>2, <2>4 DEF HandOK, InHand
  <2>8. QED
    BY <1>1, <2>2, <2>5, <2>6, <2>7 DEF TypeInv
<1>5. ASSUME Help \/ Usage, UNCHANGED prismaVars
      PROVE  TypeInv'
  <2>1. WorldOK' /\ FilesOK' /\ ProcessOK' /\ ScriptOK' /\ pc' = "exited"
    BY <1>5, EndTypes
  <2>2. PrismaOK'
    BY <1>2, <1>5 DEF PrismaOK, prismaVars
  <2>3. QED
    BY <1>1, <2>1, <2>2 DEF TypeInv, HandOK, InHand
<1>6. QED
  BY <1>3, <1>4, <1>5 DEF PrismaStart

\* The script in hand.
LEMMA ScriptType ==
  ASSUME TypeInv, pc \in InHand
  PROVE  Script \in Seq(Kinds) /\ Wrapped \in Seq(Kinds)
<1>1. Input \in Contentses /\ Input # <<>>
  BY InputType DEF TypeInv, HandOK
<1>2. Script \in Seq(Kinds)
  BY <1>1 DEF Script, Contentses
<1>3. QED
  BY <1>2, WrappedType DEF Wrapped

\* A result that is used.
LEMMA UseTypes ==
  ASSUME TypeInv, NEW r, UseResult(r),
         r.exit \in Codes, r.sql \in Seq(Kinds), Report(r.diags) \subseteq Labels
  PROVE  /\ code' \in Codes /\ parts' \in Contentses /\ reported' \subseteq Labels
         /\ validated' \subseteq Contentses
         /\ pc' \in {"write", "exited"} /\ exitCode' \in Codes
<1>1. code' = (IF r.exit = 0 /\ Advisory THEN 3 ELSE r.exit)
  BY DEF UseResult
<1>2. code' \in Codes
  BY <1>1 DEF Codes
<1>3. parts' = <<r.sql>>
  BY DEF UseResult
<1>4. parts' \in Contentses
  BY <1>3 DEF Contentses
<1>5. reported' \subseteq Report(r.diags) \cup {"SKIPPED"}
  BY DEF UseResult
<1>6. reported' \subseteq Labels
  BY <1>5 DEF Labels
<1>7. validated' \in {validated, validated \cup {text}}
  BY DEF UseResult
<1>8. validated' \subseteq Contentses
  BY <1>7 DEF TypeInv, PrismaOK, ScriptOK
<1>9. \/ pc' = "exited" /\ exitCode' \in {0, 1, code'}
      \/ pc' = "write" /\ exitCode' = exitCode
  BY <1>1 DEF UseResult, Exit
<1>10. pc' \in {"write", "exited"} /\ exitCode' \in Codes
  BY <1>2, <1>9 DEF TypeInv, ProcessOK, Codes
<1>11. QED
  BY <1>2, <1>4, <1>6, <1>8, <1>10

\* What the two lints do with an answer.
LEMMA LintCases ==
  ASSUME Lint \/ Relint
  PROVE  \E r \in Answers(IF pc = "lint" THEN Wrapped ELSE Script, TRUE) :
           /\ Answered(r)
           /\ \/ /\ Throw /\ UNCHANGED <<code, parts, reported, validated>>
                 /\ \/ r.threw \/ BreaksContract(r)
                    \/ pc = "relint" /\ UnexpectedFix(wrappedDiags, r.diags)
              \/ /\ ~r.threw /\ pc = "lint" /\ Wrapped # Script /\ ~SplitsTransaction(r.diags)
                 /\ pc' = "relint" /\ wrappedDiags' = r.diags
                 /\ UNCHANGED <<exitCode, code, parts, reported, validated>>
              \/ /\ ~r.threw /\ ~BreaksContract(r) /\ UseResult(r)
                 /\ pc = "lint" => Wrapped = Script \/ SplitsTransaction(r.diags)
                 /\ pc = "relint" => ~UnexpectedFix(wrappedDiags, r.diags)
           /\ wrappedDiags' \in {wrappedDiags, r.diags, {}}
<1>1. CASE Lint
  <2>1. pc = "lint"
    BY <1>1 DEF Lint
  <2>2. QED
    BY <1>1, <2>1 DEF Lint, prismaVars
<1>2. CASE Relint
  <2>1. pc = "relint"
    BY <1>2 DEF Relint
  <2>2. QED
    BY <1>2, <2>1 DEF Relint
<1>3. QED
  BY <1>1, <1>2

\* go on,
LEMMA PrismaProcessTypes ==
  ASSUME TypeInv, PrismaProcess, UNCHANGED world, UNCHANGED drizzleVars
  PROVE  TypeInv'
<1>0. WorldOK' /\ DrizzleOK'
  BY DEF TypeInv, WorldOK, DrizzleOK, world, drizzleVars
<1>00. FilesOK /\ ProcessOK /\ ScriptOK /\ PrismaOK /\ HandOK
  BY DEF TypeInv
<1>1. ASSUME Lint \/ Relint
      PROVE  TypeInv'
  <2>1. /\ pc \in {"lint", "relint"} /\ command \in {"migrate", "validate", "transform"}
        /\ UNCHANGED <<world, files, invocations, commandVars>>
    BY <1>00, <1>1 DEF Lint, Relint, HandOK
  <2>2. PICK r \in Answers(IF pc = "lint" THEN Wrapped ELSE Script, TRUE) :
           /\ Answered(r)
           /\ \/ Throw /\ UNCHANGED <<code, parts, reported, validated>>
              \/ /\ pc = "lint" /\ pc' = "relint"
                 /\ UNCHANGED <<exitCode, code, parts, reported, validated>>
              \/ UseResult(r)
           /\ wrappedDiags' \in {wrappedDiags, r.diags, {}}
    BY <1>1, LintCases
  <2>3. (IF pc = "lint" THEN Wrapped ELSE Script) \in Seq(Kinds)
    BY <2>1, ScriptType DEF InHand
  <2>4. /\ faults' \in 0..MaxFaults /\ failed' \in BOOLEAN
        /\ r.exit \in Codes /\ r.sql \in Seq(Kinds) /\ r.diags \subseteq AnyDiagnostic
        /\ Report(r.diags) \subseteq Labels
    BY <2>2, <2>3, AnsweredTypes
  <2>5. /\ code' \in Codes /\ parts' \in Contentses /\ reported' \subseteq Labels
        /\ validated' \subseteq Contentses
        /\ pc' \in {"threw", "relint", "write", "exited"} /\ exitCode' \in Codes
    <3>1. CASE Throw /\ UNCHANGED <<code, parts, reported, validated>>
      BY <1>00, <3>1 DEF Throw, ProcessOK, ScriptOK, PrismaOK, Codes
    <3>2. CASE pc' = "relint" /\ UNCHANGED <<exitCode, code, parts, reported, validated>>
      BY <1>00, <3>2 DEF ProcessOK, ScriptOK, PrismaOK
    <3>3. CASE UseResult(r)
      BY <2>4, <3>3, UseTypes
    <3>4. QED
      BY <2>2, <3>1, <3>2, <3>3
  <2>6. FilesOK'
    BY <1>00, <2>1, FilesStay
  <2>7. ProcessOK' /\ ScriptOK' /\ PrismaOK'
    BY <1>00, <2>1, <2>2, <2>4, <2>5
       DEF ProcessOK, ScriptOK, PrismaOK, Running, Ended, commandVars
  <2>8. HandOK'
    BY <1>00, <2>1, <2>5 DEF HandOK, InHand, Input, files, commandVars
  <2>9. QED
    BY <1>0, <2>6, <2>7, <2>8 DEF TypeInv
<1>2. CASE PrismaLint
  <2>1. PICK r \in Answers(Script, FALSE) :
          /\ Answered(r)
          /\ IF r.threw THEN Throw /\ UNCHANGED reported
             ELSE Exit(r.exit) /\ reported' = Report(r.diags)
    BY <1>2 DEF PrismaLint
  <2>2. pc = "lint" /\ UNCHANGED <<world, files, invocations, commandVars, code, parts, prismaVars>>
    BY <1>2 DEF PrismaLint
  <2>3. Script \in Seq(Kinds)
    BY <2>2, ScriptType DEF InHand
  <2>4. /\ faults' \in 0..MaxFaults /\ failed' \in BOOLEAN
        /\ r.exit \in Codes /\ Report(r.diags) \subseteq Labels
    BY <2>1, <2>3, AnsweredTypes
  <2>5. pc' \in {"threw", "exited"} /\ exitCode' \in Codes /\ reported' \subseteq Labels
    BY <1>00, <2>1, <2>4 DEF Throw, Exit, Codes, ScriptOK
  <2>6. FilesOK'
    BY <1>00, <2>2, FilesStay
  <2>7. ProcessOK' /\ ScriptOK' /\ PrismaOK'
    BY <1>00, <2>2, <2>4, <2>5
       DEF ProcessOK, ScriptOK, PrismaOK, Ended, commandVars, prismaVars
  <2>8. HandOK'
    BY <2>5 DEF HandOK, InHand
  <2>9. QED
    BY <1>0, <2>6, <2>7, <2>8 DEF TypeInv
<1>3. CASE WriteMigration
  <2>1. parts \in Contentses
    BY <1>00 DEF ScriptOK
  <2>2. /\ pc = "write" /\ Write(parts)
        /\ pc' = "exited" /\ exitCode' \in Codes
        /\ UNCHANGED <<world, invocations, faults, commandVars, code, parts, reported, failed,
                       prismaVars>>
    BY <1>00, <1>3 DEF WriteMigration, Exit, ScriptOK, Codes
  <2>3. FilesOK'
    BY <2>1, <2>2, WriteTypes
  <2>4. ProcessOK' /\ ScriptOK' /\ PrismaOK'
    BY <1>00, <2>2 DEF ProcessOK, ScriptOK, PrismaOK, Ended, commandVars, prismaVars
  <2>5. QED
    BY <1>0, <2>2, <2>3, <2>4 DEF TypeInv, HandOK, InHand
<1>4. QED
  BY <1>1, <1>2, <1>3 DEF PrismaProcess

\* die, and are followed by the developer.
LEMMA PrismaOtherTypes ==
  ASSUME TypeInv, PrismaDied \/ PrismaDeveloper, UNCHANGED world, UNCHANGED drizzleVars
  PROVE  TypeInv'
<1>0. WorldOK' /\ DrizzleOK'
  BY DEF TypeInv, WorldOK, DrizzleOK, world, drizzleVars
<1>1. CASE PrismaDied
  <2>1. parts \in Contentses
    BY DEF TypeInv, ScriptOK
  <2>2. /\ FilesOK' /\ faults' \in 0..MaxFaults
        /\ pc' \in {"crashed", "threw"} /\ exitCode' \in Codes
    BY <1>1, <2>1, DeathTypes DEF PrismaDied
  <2>3. ProcessOK' /\ ScriptOK' /\ PrismaOK'
    BY <1>1, <2>2
       DEF PrismaDied, TypeInv, ProcessOK, ScriptOK, PrismaOK, Ended, commandVars, prismaVars
  <2>4. QED
    BY <1>0, <2>2, <2>3 DEF TypeInv, HandOK, InHand
<1>2. CASE PrismaDeveloper
  <2>1. WorldOK' /\ FilesOK' /\ ProcessOK' /\ ScriptOK' /\ pc' = "idle"
    BY <1>2, AgainTypes, EditTypes DEF PrismaDeveloper, Targets
  <2>2. PrismaOK'
    BY <1>2 DEF PrismaDeveloper, TypeInv, PrismaOK, prismaVars
  <2>3. QED
    BY <1>0, <2>1, <2>2 DEF TypeInv, HandOK, InHand
<1>3. QED
  BY <1>1, <1>2

\* A step is one of drizzle's or one of prisma's.
LEMMA NextCases ==
  ASSUME Next
  PROVE  \/ tool = "drizzle" /\ (DrizzleStart \/ DrizzleProcess \/ Died \/ DrizzleDeveloper)
             /\ UNCHANGED prismaVars
         \/ tool = "prisma" /\ (PrismaStart \/ PrismaProcess \/ PrismaDied \/ PrismaDeveloper)
             /\ UNCHANGED drizzleVars
BY DEF Next, DrizzleStep, PrismaStep

\* Every step keeps the types.
LEMMA NextTypes ==
  ASSUME TypeInv, [Next]_vars
  PROVE  TypeInv'
<1>1. CASE Next
  <2>1. UNCHANGED world
    BY <1>1, WorldStays
  <2>2. QED
    BY <1>1, <2>1, NextCases, DrizzleStartTypes, DrizzleProcessTypes, DrizzleOtherTypes,
       PrismaStartTypes, PrismaProcessTypes, PrismaOtherTypes
<1>2. CASE UNCHANGED vars
  <2>1. WorldOK' /\ FilesOK' /\ ProcessOK'
    BY <1>2 DEF vars, world, files, TypeInv, WorldOK, FilesOK, ProcessOK
  <2>2. ScriptOK' /\ DrizzleOK' /\ PrismaOK'
    BY <1>2 DEF vars, drizzleVars, prismaVars, TypeInv, ScriptOK, DrizzleOK, PrismaOK
  <2>3. HandOK'
    BY <1>2 DEF vars, files, drizzleVars, TypeInv, HandOK, InHand, Input
  <2>4. QED
    BY <2>1, <2>2, <2>3 DEF TypeInv
<1>3. QED
  BY <1>1, <1>2

\* The invariant holds.
LEMMA TypesKept == Spec => []TypeInv
BY InitTypes, NextTypes, PTL DEF Spec

\* Every variable of the two command lines keeps its type, through any number of
\* invocations, crashes, failed writes and misbehaviours of the linter.
THEOREM TypesAreRight == Spec => []TypeOK
<1>1. TypeInv => TypeOK
  <2>1. Files \cup {Out, Stdin} = Sources /\ Files \cup {Out} = Targets
    BY DEF Sources, Targets
  <2>2. TypeInv => \A f \in Files \cup {Out} :
                     disk[f] \in Seq(Seq(Kinds)) /\ given[f] \in Seq(Seq(Kinds))
    BY <2>1 DEF TypeInv, FilesOK, Contentses
  <2>3. QED
    BY <2>1, <2>2 DEF TypeOK, TypeInv, WorldOK, FilesOK, ProcessOK, ScriptOK, DrizzleOK, PrismaOK,
        Contentses, Labels, AnyDiagnostic
<1>2. QED
  BY <1>1, TypesKept, PTL

-----------------------------------------------------------------------------
(* Kinds of statements in a file.                                          *)

\* What is in a file is a statement.
LEMMA KindsInType ==
  ASSUME NEW K, NEW c \in Seq(Seq(K))
  PROVE  KindsIn(c) \subseteq K
BY DEF KindsIn

\* A finished file holds nothing that is left to do.
LEMMA DoneMeans ==
  ASSUME NEW c \in Contentses
  PROVE  c \in Done <=> KindsIn(c) \cap Unready = {}
<1>1. ASSUME c \in Done
      PROVE  KindsIn(c) \cap Unready = {}
  <2>1. KindsIn(c) \subseteq Ready
    BY <1>1, KindsInType DEF Done
  <2>2. QED
    BY <2>1 DEF Ready
<1>2. ASSUME KindsIn(c) \cap Unready = {}
      PROVE  c \in Done
  <2>1. \A i \in DOMAIN c : c[i] \in Seq(Kinds)
    BY DEF Contentses
  <2>2. \A i \in DOMAIN c : \A j \in DOMAIN c[i] : c[i][j] \in Ready
    BY <1>2, <2>1 DEF KindsIn, Ready
  <2>3. \A i \in DOMAIN c : c[i] \in Seq(Ready)
    BY <2>1, <2>2
  <2>4. QED
    BY <2>3 DEF Done, Contentses
<1>3. QED
  BY <1>1, <1>2

\* Nothing is in a file that was cut short but what was to be written.
LEMMA CutKinds ==
  ASSUME NEW c \in Contentses, NEW n \in 0..(Len(c) - 1)
  PROVE  KindsIn(IF n = 0 THEN Empty ELSE SubSeq(c, 1, n)) \subseteq KindsIn(c)
<1>1. KindsIn(Empty) = {}
  BY DEF KindsIn, Empty
<1>2. ASSUME n # 0
      PROVE  KindsIn(SubSeq(c, 1, n)) \subseteq KindsIn(c)
  <2>1. Len(SubSeq(c, 1, n)) = n /\ \A i \in 1..n : SubSeq(c, 1, n)[i] = c[i]
    BY <1>2, CutType DEF Contentses
  <2>2. SubSeq(c, 1, n) \in Contentses
    BY <1>2, CutType DEF Contentses
  <2>3. DOMAIN SubSeq(c, 1, n) = 1..n /\ 1..n \subseteq DOMAIN c
    BY <2>1, <2>2 DEF Contentses
  <2>4. QED
    BY <2>1, <2>3 DEF KindsIn
<1>3. QED
  BY <1>1, <1>2

\* Editing by hand takes out arrays and puts in tables.
LEMMA ByHandKinds ==
  ASSUME NEW c \in Contentses
  PROVE  KindsIn(ByHand(c)) \subseteq (KindsIn(c) \ {"array"}) \cup {"table"}
<1> DEFINE new(i) == [j \in DOMAIN c[i] |-> IF c[i][j] = "array" THEN "table" ELSE c[i][j]]
<1>1. ByHand(c) = [i \in DOMAIN c |-> new(i)]
  BY DEF ByHand
<1>2. \A i \in DOMAIN c : \A j \in DOMAIN new(i) :
        new(i)[j] \in (KindsIn(c) \ {"array"}) \cup {"table"}
  BY DEF KindsIn
<1> HIDE DEF new
<1>3. QED
  BY <1>1, <1>2 DEF KindsIn

\* The chunks are joined as they are.
LEMMA JoinedKinds ==
  ASSUME NEW c \in Contentses
  PROVE  KindsIn(Joined(c)) \subseteq KindsIn(c) /\ (c \in Done => Joined(c) \in Done)
<1>1. KindsIn(Empty) = {}
  BY DEF KindsIn, Empty
<1>2. QED
  BY <1>1, JoinedType DEF Joined, Done

\* No file, and no chunk, is finished.
LEMMA EmptyIsDone == Absent \in Done /\ <<>> \in Done
BY DEF Absent, Done

-----------------------------------------------------------------------------
(* Success.                                                                *)

\* Chunks transformed under a code that writes are finished; so is, as long as
\* generate's worst code writes, every file it has been through (the one in
\* hand, which is entered already, aside); and only a code that writes gets
\* to the write.
FixedInv ==
  /\ tool = "drizzle" /\ pc \in {"chunk", "write"} /\ code \in Fine => parts \in Done
  /\ command = "generate" /\ pc \in {"file", "chunk", "write"} /\ worst \in Fine =>
       \A f \in Files \ queue : (pc \in {"chunk", "write"} /\ f = target) \/ disk[f] \in Done
  /\ command = "generate" /\ pc = "write" /\ worst \in Fine => code \in Fine
  /\ pc = "write" => code # 1
  /\ pc = "write" /\ command # "generate" => code \in Fine /\ parts \in Done
  /\ command = "generate" => tool = "drizzle"
  /\ SuccessMeansFixed

\* The worse of two codes writes when both do.
LEMMA FineCodes ==
  ASSUME NEW a \in Codes, NEW b \in Codes
  PROVE  /\ WorseExitCode(a, b) \in Fine <=> a \in Fine /\ b \in Fine
         /\ WorseExitCode(a, b) = 1 <=> a = 1 \/ b = 1
BY DEF WorseExitCode, ExitRank, Codes, Fine, Odd

\* Nothing to show, wherever nothing was written and no command that writes
\* ended with success.
LEMMA NothingFixed ==
  ASSUME pc' \notin {"file", "chunk", "write"}, command' = "generate" => tool' = "drizzle",
         \/ pc' # "exited" \/ exitCode' \notin Fine
         \/ command' \notin {"generate", "transform", "migrate"}
         \/ command' # "generate" /\ text' = <<>>
  PROVE  FixedInv'
BY DEF FixedInv, SuccessMeansFixed, Fine

\* The steps of a drizzle process,
LEMMA DrizzleProcessFixes ==
  ASSUME TypeInv, TypeInv', FixedInv, tool = "drizzle", DrizzleProcess, UNCHANGED world
  PROVE  FixedInv'
<1>0. tool' = "drizzle"
  BY DEF world
<1>00. /\ disk \in [Targets -> Contentses] /\ target \in Targets /\ parts \in Contentses
       /\ code \in Codes /\ worst \in Codes /\ queue \subseteq Files /\ todo \in Contentses
  BY DEF TypeInv, FilesOK, ScriptOK, DrizzleOK
<1>1. CASE DrizzleKitGenerate
  <2>1. pc' = "readdir" \/ (pc' = "exited" /\ exitCode' = 1)
    BY <1>1 DEF DrizzleKitGenerate, Exit
  <2>2. QED
    BY <1>0, <2>1, NothingFixed DEF Fine
<1>2. CASE ListSqlFiles
  <2>1. CASE pc' = "exited" /\ exitCode' = 1
    BY <1>0, <2>1, NothingFixed DEF Fine
  <2>2. CASE pc' = "file" /\ queue' = {f \in Files : disk[f] # Absent}
    <3>1. disk' = disk
      BY <1>2 DEF ListSqlFiles, files
    <3>2. \A f \in Files \ queue' : disk'[f] \in Done
      BY <2>2, <3>1, EmptyIsDone
    <3>3. QED
      BY <1>0, <2>2, <3>2 DEF FixedInv, SuccessMeansFixed
  <2>3. QED
    BY <1>2, <2>1, <2>2 DEF ListSqlFiles, Exit
<1>3. CASE ReadFile
  <2> DEFINE f == Min(queue)
  <2> HIDE DEF f
  <2>1. /\ pc = "file" /\ target' = f /\ queue' = queue \ {f} /\ TransformMigrationFile(disk[f])
        /\ UNCHANGED <<disk, command, worst>>
    BY <1>3 DEF ReadFile, files, f
  <2>2. command = "generate"
    BY <2>1 DEF TypeInv, HandOK
  <2>3. code' = 0 /\ parts' = <<>> /\ pc' \in {"threw", "chunk"}
    BY <2>1 DEF TransformMigrationFile, Throw
  <2>4. QED
    BY <1>0, <2>1, <2>2, <2>3, EmptyIsDone DEF FixedInv, SuccessMeansFixed
<1>4. CASE TransformChunk
  <2>1. PICK r \in Answers(Head(todo), TRUE) :
          IF r.threw \/ BreaksContract(r) THEN Throw /\ UNCHANGED <<code, parts>>
          ELSE /\ code' = WorseExitCode(code, r.exit)
               /\ parts' = IF r.sql = <<>> THEN parts ELSE Append(parts, r.sql)
               /\ UNCHANGED pc
    BY <1>4 DEF TransformChunk
  <2>2. pc = "chunk" /\ todo # <<>> /\ UNCHANGED <<disk, command, target, queue, worst>>
    BY <1>4 DEF TransformChunk, files, processVars
  <2>3. Head(todo) \in Seq(Kinds)
    BY <1>00, <2>2 DEF Contentses
  <2>4. CASE r.threw \/ BreaksContract(r)
    BY <1>0, <2>1, <2>4, NothingFixed DEF Throw
  <2>5. CASE ~(r.threw \/ BreaksContract(r))
    <3>1. r.exit \in Codes
      BY <2>3, AnswerType DEF TypeInv, WorldOK
    <3>2. ASSUME code' \in Fine
          PROVE  parts' \in Done
      <4>1. code \in Fine /\ r.exit \in Fine
        BY <1>00, <2>1, <2>5, <3>1, <3>2, FineCodes
      <4>2. parts \in Done
        BY <2>2, <4>1 DEF FixedInv
      <4>3. r.sql \in Seq(Ready)
        BY <2>3, <4>1, FineAnswer
      <4>4. QED
        BY <2>1, <2>5, <4>2, <4>3 DEF Done
    <3>3. QED
      BY <1>0, <2>1, <2>2, <2>5, <3>2 DEF FixedInv, SuccessMeansFixed
  <2>6. QED
    BY <2>4, <2>5
<1>5. CASE FileTransformed
  <2>1. /\ pc = "chunk" /\ command = "generate" /\ worst' = WorseExitCode(worst, code)
        /\ pc' = (IF code = 1 THEN "file" ELSE "write")
        /\ UNCHANGED <<disk, command, target, queue, code, parts>>
    BY <1>5 DEF FileTransformed, files, processVars, world
  <2>2. worst' \in Fine => worst \in Fine /\ code \in Fine /\ code # 1
    BY <1>00, <2>1, FineCodes DEF Fine
  <2>3. QED
    BY <1>0, <2>1, <2>2 DEF FixedInv, SuccessMeansFixed
<1>6. CASE GenerateDone
  <2>1. /\ pc = "file" /\ queue = {} /\ pc' = "exited" /\ exitCode' = worst
        /\ UNCHANGED <<disk, command>>
    BY <1>6 DEF GenerateDone, Exit, files, processVars
  <2>2. command = "generate"
    BY <2>1 DEF TypeInv, HandOK
  <2>3. worst \in Fine => \A f \in Files : disk[f] \in Done
    BY <2>1, <2>2 DEF FixedInv
  <2>4. \A f \in Files : disk[f] \in Contentses
    BY <1>00, StdinIsNoFile
  <2>5. worst \in Fine => \A f \in Files : KindsIn(disk[f]) \cap Unready = {}
    BY <2>3, <2>4, DoneMeans
  <2>6. SuccessMeansFixed'
    BY <2>1, <2>2, <2>5 DEF SuccessMeansFixed, Fine
  <2>7. QED
    BY <1>0, <2>1, <2>6 DEF FixedInv
<1>7. CASE ReadTransformInput
  <2>1. /\ command' = "transform" /\ code' = 0 /\ parts' = <<>> /\ pc' \in {"threw", "chunk"}
    BY <1>7 DEF ReadTransformInput, TransformMigrationFile, Throw, processVars
  <2>2. QED
    BY <1>0, <2>1, EmptyIsDone DEF FixedInv, SuccessMeansFixed
<1>8. CASE ScriptTransformed
  <2>1. /\ pc = "chunk" /\ command' = "transform" /\ UNCHANGED <<code, parts>>
        /\ \/ code \in Fine /\ pc' = "write"
           \/ code \notin Fine /\ pc' = "exited" /\ exitCode' = code
    BY <1>8 DEF ScriptTransformed, Exit, processVars, drizzleVars, Fine
  <2>2. code \in Fine => parts \in Done /\ code # 1
    BY <2>1 DEF FixedInv, Fine
  <2>3. QED
    BY <1>0, <2>1, <2>2 DEF FixedInv, SuccessMeansFixed, Fine
<1>9. CASE DrizzleLint
  <2>1. command' = "lint" /\ pc' \in {"threw", "exited"}
    BY <1>9 DEF DrizzleLint, Throw, Exit, processVars
  <2>2. QED
    BY <2>1, NothingFixed
<1>10. CASE WriteFile
  <2>1. /\ pc = "write" /\ disk' = [disk EXCEPT ![target] = Joined(parts)]
        /\ \/ command = "generate" /\ pc' = "file"
           \/ command # "generate" /\ pc' = "exited" /\ exitCode' = code
        /\ UNCHANGED <<command, target, code, parts, queue, worst>>
    BY <1>10 DEF WriteFile, Write, Wrote, Exit, processVars, drizzleVars
  <2>2. disk'[target] = Joined(parts) /\ \A f \in Targets : f # target => disk'[f] = disk[f]
    BY <1>00, <2>1
  <2>3. CASE command = "generate"
    <3>1. ASSUME worst \in Fine, NEW f \in Files \ queue
          PROVE  disk'[f] \in Done
      <4>1. parts \in Done
        BY <1>0, <2>1, <2>3, <3>1 DEF FixedInv, world
      <4>2. CASE f = target
        BY <1>00, <2>2, <4>1, <4>2, JoinedKinds
      <4>3. CASE f # target
        <5>1. f \in Targets
          BY StdinIsNoFile
        <5>2. QED
          BY <2>1, <2>2, <2>3, <3>1, <4>3, <5>1 DEF FixedInv
      <4>4. QED
        BY <4>2, <4>3
    <3>2. QED
      BY <1>0, <2>1, <2>3, <3>1 DEF FixedInv, SuccessMeansFixed
  <2>4. CASE command # "generate"
    <3>1. code \in Fine /\ parts \in Done
      BY <2>1, <2>4 DEF FixedInv
    <3>2. Joined(parts) \in Contentses /\ Joined(parts) \in Done
      BY <1>00, <3>1, JoinedKinds, JoinedType DEF Contentses
    <3>3. KindsIn(disk'[target']) \cap Unready = {}
      BY <2>1, <2>2, <3>2, DoneMeans
    <3>4. SuccessMeansFixed'
      BY <2>1, <2>4, <3>3 DEF SuccessMeansFixed
    <3>5. QED
      BY <2>1, <2>4, <3>4 DEF FixedInv
  <2>5. QED
    BY <2>3, <2>4
<1>11. QED
  BY <1>1, <1>2, <1>3, <1>4, <1>5, <1>6, <1>7, <1>8, <1>9, <1>10 DEF DrizzleProcess

\* its beginning and end, and the developer.
LEMMA DrizzleOtherFixes ==
  ASSUME FixedInv, tool = "drizzle", UNCHANGED world, DrizzleStart \/ Died \/ DrizzleDeveloper
  PROVE  FixedInv'
<1>0. tool' = "drizzle"
  BY DEF world
<1>1. CASE DrizzleStart
  <2>1. /\ pc' \in {"kit", "read", "lint", "exited"}
        /\ pc' # "exited" \/ exitCode' = 1 \/ command' \in {"help", "usage"}
    BY <1>1 DEF DrizzleStart, HandleGenerate, HandleTransform, HandleLint, ReadFileArgument,
         ReadStdin, InputMissing, Help, Usage, Begin, Exit
  <2>2. QED
    BY <1>0, <2>1, NothingFixed DEF Fine
<1>2. CASE Died
  <2>1. pc' \in {"crashed", "threw"}
    BY <1>2 DEF Died, CrashInWrite, WriteFails, Crash, Throw
  <2>2. QED
    BY <1>0, <2>1, NothingFixed
<1>3. CASE DrizzleDeveloper
  <2>1. pc' = "idle"
    BY <1>3 DEF DrizzleDeveloper, Again, Edit
  <2>2. QED
    BY <1>0, <2>1, NothingFixed
<1>4. QED
  BY <1>1, <1>2, <1>3

\* What the two lints leave to be written, or exit with.
LEMMA LintFixes ==
  ASSUME TypeInv, Lint \/ Relint, pc' \in {"write", "exited"}
  PROVE  \/ pc' = "write" /\ code' \in Fine /\ parts' \in Done
         \/ pc' = "exited" /\ (exitCode' \notin Fine \/ command = "validate")
<1>1. PICK r \in Answers(IF pc = "lint" THEN Wrapped ELSE Script, TRUE) :
        (pc' \in {"threw", "relint"}) \/ UseResult(r)
  BY LintCases DEF Throw
<1>2. UseResult(r)
  BY <1>1
<1>3. (IF pc = "lint" THEN Wrapped ELSE Script) \in Seq(Kinds)
  <2>1. pc \in InHand
    BY DEF Lint, Relint, InHand
  <2>2. QED
    BY <2>1, ScriptType
<1> DEFINE exit == IF r.exit = 0 /\ Advisory THEN 3 ELSE r.exit
<1>4. /\ code' = exit /\ parts' = <<r.sql>>
      /\ \/ command = "validate" /\ pc' = "exited"
         \/ command # "validate" /\ exit \in Fine /\ pc' = "write"
         \/ command # "validate" /\ exit \notin Fine /\ pc' = "exited" /\ exitCode' = exit
  BY <1>2 DEF UseResult, Exit, Fine
<1>5. exit \in Fine => r.exit \in Fine
  BY DEF Fine
<1>6. r.exit \in Fine => r.sql \in Seq(Ready)
  BY <1>3, FineAnswer
<1> HIDE DEF exit
<1>7. r.sql \in Seq(Ready) => <<r.sql>> \in Done
  BY DEF Done
<1>8. QED
  BY <1>4, <1>5, <1>6, <1>7

\* The steps of prisma.
LEMMA PrismaFixes ==
  ASSUME TypeInv, FixedInv, tool = "prisma", UNCHANGED world,
         PrismaStart \/ PrismaProcess \/ PrismaDied \/ PrismaDeveloper
  PROVE  FixedInv'
<1>0. tool' = "prisma"
  BY DEF world
<1>00. command # "generate"
  BY DEF FixedInv
<1>1. CASE PrismaStart
  <2>1. /\ pc' \in {"lint", "exited"}
        /\ pc' # "exited" \/ exitCode' = 1 \/ text' = <<>>
        /\ command' # "generate"
    BY <1>1 DEF PrismaStart, HandleMigrate, HandleValidate, Diff, HandlePrismaTransform,
         HandlePrismaLint, ReadFileArgument, ReadStdin, InputMissing, Help, Usage, Begin, Exit,
         NoInput
  <2>2. QED
    BY <2>1, NothingFixed DEF Fine
<1>2. ASSUME Lint \/ Relint
      PROVE  FixedInv'
  <2>1. /\ command' = command /\ pc' \in {"threw", "relint", "write", "exited"}
    <3>1. \E r : Throw \/ pc' = "relint" \/ UseResult(r)
      BY <1>2, LintCases
    <3>2. PICK r : Throw \/ pc' = "relint" \/ UseResult(r)
      BY <3>1
    <3>3. UseResult(r) => pc' \in {"write", "exited"}
      BY DEF UseResult, Exit
    <3>4. QED
      BY <1>2, <3>2, <3>3 DEF Lint, Relint, commandVars, Throw
  <2>2. CASE pc' \in {"threw", "relint"}
    BY <1>00, <2>1, <2>2, NothingFixed
  <2>3. CASE pc' = "write"
    <3>1. code' \in Fine /\ parts' \in Done
      BY <1>2, <2>3, LintFixes
    <3>2. QED
      BY <1>0, <1>00, <2>1, <2>3, <3>1 DEF FixedInv, SuccessMeansFixed, Fine
  <2>4. CASE pc' = "exited"
    <3>1. exitCode' \notin Fine \/ command = "validate"
      BY <1>2, <2>4, LintFixes
    <3>2. QED
      BY <1>00, <2>1, <2>4, <3>1, NothingFixed
  <2>5. QED
    BY <2>1, <2>2, <2>3, <2>4
<1>3. CASE PrismaLint
  <2>1. command' = "lint" /\ pc' \in {"threw", "exited"}
    BY <1>3 DEF PrismaLint, Throw, Exit, commandVars
  <2>2. QED
    BY <2>1, NothingFixed
<1>4. CASE WriteMigration
  <2>1. /\ pc = "write" /\ pc' = "exited" /\ disk' = [disk EXCEPT ![target] = parts]
        /\ UNCHANGED <<command, target>>
    BY <1>4 DEF WriteMigration, Write, Wrote, Exit, commandVars
  <2>2. parts \in Done /\ parts \in Contentses
    BY <1>00, <2>1 DEF FixedInv, TypeInv, ScriptOK
  <2>3. disk'[target'] = parts
    BY <2>1 DEF TypeInv, FilesOK, ScriptOK
  <2>4. KindsIn(disk'[target']) \cap Unready = {}
    BY <2>2, <2>3, DoneMeans
  <2>5. QED
    BY <1>00, <2>1, <2>4 DEF FixedInv, SuccessMeansFixed
<1>5. CASE PrismaDied
  <2>1. pc' \in {"crashed", "threw"} /\ command' = command
    BY <1>5 DEF PrismaDied, CrashInWrite, WriteFails, Crash, Throw, commandVars
  <2>2. QED
    BY <1>00, <2>1, NothingFixed
<1>6. CASE PrismaDeveloper
  <2>1. pc' = "idle" /\ command' \in {"none", command}
    BY <1>6 DEF PrismaDeveloper, Again, Edit
  <2>2. QED
    BY <1>00, <2>1, NothingFixed
<1>7. QED
  BY <1>1, <1>2, <1>3, <1>4, <1>5, <1>6 DEF PrismaProcess

\* The invariant holds.
LEMMA FixedKept == Spec => []FixedInv
<1>1. Init => FixedInv
  BY DEF Init, CliInit, FixedInv, SuccessMeansFixed
<1>2. TypeInv /\ TypeInv' /\ FixedInv /\ Next => FixedInv'
  BY WorldStays, NextCases, DrizzleProcessFixes, DrizzleOtherFixes, PrismaFixes
<1>3. FixedInv /\ UNCHANGED vars => FixedInv'
  BY DEF vars, world, files, drizzleVars, FixedInv, SuccessMeansFixed
<1>4. TypeInv /\ TypeInv' /\ FixedInv /\ [Next]_vars => FixedInv'
  BY <1>2, <1>3
<1>5. QED
  BY <1>1, <1>4, TypesKept, PTL DEF Spec

\* Exit code 0 or 3 means that nothing is left for the author to fix: generate,
\* which takes every migration file through the linter and keeps the worst of the
\* codes (worseExitCode), has no unfixed statement in any of them; transform and
\* migrate have none in the file they wrote.
THEOREM SuccessLeavesNothingToFix == Spec => []SuccessMeansFixed
<1>1. FixedInv => SuccessMeansFixed
  BY DEF FixedInv
<1>2. QED
  BY <1>1, FixedKept, PTL

-----------------------------------------------------------------------------
(* What a step does to the files.                                          *)

\* What is written of the transformed chunks.
Output == IF tool = "drizzle" THEN Joined(parts) ELSE parts

\* Its type; it is finished when the chunks are.
LEMMA OutputType ==
  ASSUME TypeInv
  PROVE  Output \in Contentses /\ KindsIn(Output) \subseteq KindsIn(parts)
           /\ (parts \in Done => Output \in Done)
<1>1. parts \in Contentses
  BY DEF TypeInv, ScriptOK
<1>2. Joined(parts) \in Contentses
  BY <1>1, JoinedType DEF Contentses
<1>3. QED
  BY <1>1, <1>2, JoinedKinds DEF Output

\* The files change by a generator, by hand, or by a write.
LEMMA FileSteps ==
  ASSUME Next
  PROVE  \/ UNCHANGED files
         \/ tool = "drizzle" /\ pc = "kit" /\ \E c \in Contents : NewFile(c)
         \/ \E f \in Targets : Edit(f)
         \/ /\ pc = "write" /\ UNCHANGED <<source, target, code, parts, text, reported>>
            /\ Write(Output) \/ \E n \in 0..(Len(Output) - 1) : WriteCut(Output, n)
<1> DEFINE Goal ==
     \/ UNCHANGED files
     \/ tool = "drizzle" /\ pc = "kit" /\ \E c \in Contents : NewFile(c)
     \/ \E f \in Targets : Edit(f)
     \/ /\ pc = "write" /\ UNCHANGED <<source, target, code, parts, text, reported>>
        /\ Write(Output) \/ \E n \in 0..(Len(Output) - 1) : WriteCut(Output, n)
<1>1. ASSUME tool = "drizzle", DrizzleStart \/ DrizzleProcess \/ Died \/ DrizzleDeveloper
      PROVE  Goal
  <2>1. Output = Joined(parts)
    BY <1>1 DEF Output
  <2>2. CASE DrizzleStart
    BY <2>2 DEF DrizzleStart, HandleGenerate, HandleTransform, HandleLint, Help, Usage, Begin
  <2>3. CASE DrizzleKitGenerate
    BY <1>1, <2>3 DEF DrizzleKitGenerate
  <2>4. CASE WriteFile
    BY <2>1, <2>4 DEF WriteFile, processVars
  <2>5. ASSUME DrizzleProcess, ~DrizzleKitGenerate, ~WriteFile
        PROVE  UNCHANGED files
    BY <2>5 DEF DrizzleProcess, ListSqlFiles, ReadFile, TransformChunk, FileTransformed,
        GenerateDone, ReadTransformInput, ScriptTransformed, DrizzleLint
  <2>6. CASE Died
    BY <2>1, <2>6 DEF Died, CrashInWrite, WriteFails, Crash, processVars, files
  <2>7. CASE DrizzleDeveloper
    BY <2>7 DEF DrizzleDeveloper, Again, Targets
  <2>8. QED
    BY <1>1, <2>2, <2>3, <2>4, <2>5, <2>6, <2>7
<1>2. ASSUME tool = "prisma", PrismaStart \/ PrismaProcess \/ PrismaDied \/ PrismaDeveloper
      PROVE  Goal
  <2>1. Output = parts
    BY <1>2 DEF Output
  <2>2. CASE PrismaStart
    BY <2>2 DEF PrismaStart, HandleMigrate, HandleValidate, Diff, HandlePrismaTransform,
         HandlePrismaLint, Help, Usage, Begin
  <2>3. CASE WriteMigration
    BY <2>1, <2>3 DEF WriteMigration, commandVars
  <2>4. ASSUME PrismaProcess, ~WriteMigration
        PROVE  UNCHANGED files
    BY <2>4 DEF PrismaProcess, Lint, Relint, PrismaLint
  <2>5. CASE PrismaDied
    BY <2>1, <2>5 DEF PrismaDied, CrashInWrite, WriteFails, Crash, commandVars, files
  <2>6. CASE PrismaDeveloper
    BY <2>6 DEF PrismaDeveloper, Again, Targets
  <2>7. QED
    BY <1>2, <2>2, <2>3, <2>4, <2>5, <2>6
<1>3. QED
  BY <1>1, <1>2, NextCases

\* What a write leaves in the file, and nowhere else.
LEMMA Writes ==
  ASSUME TypeInv, NEW c \in Contentses, Write(c) \/ \E n \in 0..(Len(c) - 1) : WriteCut(c, n)
  PROVE  \E d \in Contentses :
           /\ disk' = [disk EXCEPT ![target] = d] /\ given' = [given EXCEPT ![target] = text]
           /\ tainted' = (IF code \in {0, 1, 3} THEN tainted \ {target} ELSE tainted \cup {target})
           /\ KindsIn(d) \subseteq KindsIn(c)
           /\ \/ d = c /\ Write(c)
              \/ torn' = torn \cup {target} /\ d \in {Empty} \cup {SubSeq(c, 1, n) : n \in 1..(Len(c) - 1)}
<1>1. CASE Write(c)
  BY <1>1 DEF Write, Wrote
<1>2. ASSUME NEW n \in 0..(Len(c) - 1), WriteCut(c, n)
      PROVE  \E d \in Contentses :
           /\ disk' = [disk EXCEPT ![target] = d] /\ given' = [given EXCEPT ![target] = text]
           /\ tainted' = (IF code \in {0, 1, 3} THEN tainted \ {target} ELSE tainted \cup {target})
           /\ KindsIn(d) \subseteq KindsIn(c)
           /\ torn' = torn \cup {target} /\ d \in {Empty} \cup {SubSeq(c, 1, m) : m \in 1..(Len(c) - 1)}
  <2> DEFINE d == IF n = 0 THEN Empty ELSE SubSeq(c, 1, n)
  <2>1. d \in Contentses /\ KindsIn(d) \subseteq KindsIn(c)
    BY CutType, CutKinds DEF Contentses
  <2>2. d \in {Empty} \cup {SubSeq(c, 1, m) : m \in 1..(Len(c) - 1)}
    OBVIOUS
  <2>3. Wrote(d) /\ torn' = torn \cup {target}
    BY <1>2 DEF WriteCut
  <2> HIDE DEF d
  <2>4. QED
    BY <2>1, <2>2, <2>3 DEF Wrote
<1>3. QED
  BY <1>1, <1>2

-----------------------------------------------------------------------------
(* All or nothing.                                                         *)

\* A finished file is not mixed,
LEMMA DoneIsUnmixed ==
  ASSUME NEW c \in Contentses, c \in Done
  PROVE  ~Mixed(c)
BY DoneMeans DEF Mixed

\* nor is one that is edited by hand.
LEMMA ByHandUnmixed ==
  ASSUME NEW c \in Contentses, ~Mixed(c)
  PROVE  ~Mixed(ByHand(c))
<1>1. KindsIn(ByHand(c)) \subseteq (KindsIn(c) \ {"array"}) \cup {"table"}
  BY ByHandKinds
<1>2. "table" \notin Rewrites /\ "table" \notin Unready
  BY DEF Rewrites, Unready
<1>3. QED
  BY <1>1, <1>2 DEF Mixed

\* Whatever is written after 0 or 3 is finished; after 1 nothing is written.
LEMMA AllOrNothingStep ==
  ASSUME AuthorsDoNotMix, TypeInv, FixedInv, AllOrNothing, Next
  PROVE  AllOrNothing'
<1>0. /\ disk \in [Targets -> Contentses] /\ target \in Targets /\ code \in Codes
      /\ Targets = Files \cup {Out}
  BY DEF TypeInv, FilesOK, ScriptOK, Targets
<1>1. CASE UNCHANGED files
  BY <1>1 DEF files, AllOrNothing
<1>2. CASE \E c \in Contents : NewFile(c)
  <2>1. PICK c \in Contents, f \in Files :
          disk' = [disk EXCEPT ![f] = c] /\ UNCHANGED tainted
    BY <1>2 DEF NewFile
  <2>2. ~Mixed(c)
    BY DEF AuthorsDoNotMix
  <2>3. \A g \in Targets : disk'[g] = IF g = f THEN c ELSE disk[g]
    BY <1>0, <2>1, StdinIsNoFile
  <2>4. QED
    BY <1>0, <2>1, <2>2, <2>3 DEF AllOrNothing
<1>3. CASE \E f \in Targets : Edit(f)
  <2>1. PICK f \in Targets : disk' = [disk EXCEPT ![f] = ByHand(@)] /\ UNCHANGED tainted
    BY <1>3 DEF Edit
  <2>2. \A g \in Targets : disk'[g] = IF g = f THEN ByHand(disk[g]) ELSE disk[g]
    BY <1>0, <2>1
  <2>3. \A g \in Targets : ~Mixed(disk[g]) => ~Mixed(ByHand(disk[g]))
    BY <1>0, ByHandUnmixed
  <2>4. QED
    BY <1>0, <2>1, <2>2, <2>3 DEF AllOrNothing
<1>4. ASSUME pc = "write", Write(Output) \/ \E n \in 0..(Len(Output) - 1) : WriteCut(Output, n)
      PROVE  AllOrNothing'
  <2>1. PICK d \in Contentses :
           /\ disk' = [disk EXCEPT ![target] = d]
           /\ tainted' = (IF code \in {0, 1, 3} THEN tainted \ {target} ELSE tainted \cup {target})
           /\ KindsIn(d) \subseteq KindsIn(Output)
    BY <1>4, OutputType, Writes
  <2>2. \A g \in Targets : disk'[g] = IF g = target THEN d ELSE disk[g]
    BY <1>0, <2>1
  <2>3. ASSUME target \notin tainted'
        PROVE  ~Mixed(d)
    <3>1. code \in Fine
      BY <1>4, <2>1, <2>3 DEF FixedInv, Fine
    <3>2. parts \in Done
      BY <1>4, <3>1 DEF FixedInv, TypeInv, WorldOK
    <3>3. ~Mixed(Output)
      BY <3>2, OutputType, DoneIsUnmixed
    <3>4. KindsIn(Output) \cap Unready = {}
      BY <3>2, OutputType, DoneMeans
    <3>5. QED
      BY <2>1, <3>4 DEF Mixed
  <2>4. \A g \in Targets \ tainted' : g # target => g \notin tainted
    BY <2>1
  <2>5. QED
    BY <1>0, <2>2, <2>3, <2>4 DEF AllOrNothing
<1>5. QED
  BY <1>1, <1>2, <1>3, <1>4, FileSteps

\* No file, also after a write that was cut short, has some statements rewritten
\* for Aurora DSQL next to others that were not: each is written once, with all
\* its chunks, and not at all after exit code 1. Generators and developers are
\* taken not to write such a file themselves, and files that generate wrote after
\* an exit code it does not know are left out.
THEOREM TransformedWholeOrNotAtAll ==
  ASSUME AuthorsDoNotMix
  PROVE  Spec => []AllOrNothing
<1>1. Init => AllOrNothing
  <2>1. ~Mixed(Absent)
    BY DEF Mixed, KindsIn, Absent
  <2>2. ASSUME Init PROVE \E c : ~Mixed(c) /\ disk = [f \in Files \cup {Out} |-> IF f = 1 THEN c ELSE Absent]
    BY <2>1, <2>2 DEF Init, CliInit, AuthorsDoNotMix
  <2>3. QED
    BY <2>1, <2>2 DEF AllOrNothing
<1>2. AllOrNothing /\ UNCHANGED vars => AllOrNothing'
  BY DEF vars, files, AllOrNothing
<1>3. TypeInv /\ FixedInv /\ AllOrNothing /\ [Next]_vars => AllOrNothing'
  BY <1>2, AllOrNothingStep
<1>4. QED
  BY <1>1, <1>3, TypesKept, FixedKept, PTL DEF Spec

-----------------------------------------------------------------------------
(* What a file says.                                                       *)

\* The statements of a file, one chunk after another.
LEMMA FlattenContents ==
  ASSUME NEW c \in Contentses
  PROVE  FlattenSeq(c) \in Seq(Kinds) /\ Meaning(c) \in Seq(Kinds) /\ Meaning(c) = Says(FlattenSeq(c))
<1>1. FlattenSeq(c) \in Seq(Kinds)
  BY FlattenType DEF Contentses
<1>2. QED
  BY <1>1, SaysIs DEF Meaning

\* One file behind another.
LEMMA MeaningConcat ==
  ASSUME NEW a \in Contentses, NEW b \in Contentses
  PROVE  Meaning(a \o b) = Meaning(a) \o Meaning(b)
<1>1. FlattenSeq(a) \in Seq(Kinds) /\ FlattenSeq(b) \in Seq(Kinds)
  BY FlattenContents, Zenon
<1>2. FlattenSeq(a \o b) = FlattenSeq(a) \o FlattenSeq(b)
  BY FlattenConcat DEF Contentses
<1>3. \A s, t \in Seq(Kinds) : Says(s \o t) = Says(s) \o Says(t)
  BY SaysConcat
<1>4. QED
  BY <1>1, <1>2, <1>3, Zenon DEF Meaning

\* A single chunk.
LEMMA MeaningOne ==
  ASSUME NEW s \in Seq(Kinds)
  PROVE  Meaning(<<s>>) = Says(s)
<1>1. FlattenSeq(<<s>>) = s
  BY FlattenOne
<1>2. QED
  BY <1>1, Zenon DEF Meaning

\* No chunk, or an empty one.
LEMMA MeaningOfNothing == Meaning(<<>>) = <<>> /\ Meaning(Empty) = <<>>
<1>1. FlattenSeq(Empty) = <<>>
  <2>1. <<>> \in Seq(Kinds)
    OBVIOUS
  <2>2. FlattenSeq(<<(<<>>)>>) = <<>>
    BY <2>1, FlattenOne
  <2>3. QED
    BY <2>2 DEF Empty
<1>2. QED
  BY <1>1, FlattenEmpty, SaysNothing, Zenon DEF Meaning

\* A chunk more, at the end or in front.
LEMMA MeaningOfMore ==
  ASSUME NEW c \in Contentses, NEW s \in Seq(Kinds)
  PROVE  /\ Meaning(Append(c, s)) = Meaning(c) \o Says(s)
         /\ Meaning(<<s>> \o c) = Says(s) \o Meaning(c)
<1>1. <<s>> \in Contentses
  BY DEF Contentses
<1>2. Append(c, s) = c \o <<s>>
  BY DEF Contentses
<1>3. Meaning(c \o <<s>>) = Meaning(c) \o Meaning(<<s>>)
  BY <1>1, MeaningConcat, Zenon
<1>4. Meaning(<<s>> \o c) = Meaning(<<s>>) \o Meaning(c)
  BY <1>1, MeaningConcat, Zenon
<1>5. QED
  BY <1>2, <1>3, <1>4, MeaningOne, Zenon

\* Blank chunks are left out.
LEMMA MeaningChunksOf ==
  ASSUME NEW c \in Contentses
  PROVE  Meaning(ChunksOf(c)) = Meaning(c)
<1> DEFINE sent(i) == IF c[i] = <<>> THEN <<>> ELSE <<c[i]>>
           kept == [i \in DOMAIN c |-> sent(i)]
           again == [i \in DOMAIN kept |-> FlattenSeq(kept[i])]
<1>1. \A i \in DOMAIN c : c[i] \in Seq(Kinds)
  BY DEF Contentses
<1>2. \A i \in DOMAIN c : sent(i) \in Seq(Seq(Kinds)) /\ FlattenSeq(sent(i)) = c[i]
  <2>1. TAKE i \in DOMAIN c
  <2>2. c[i] \in Seq(Kinds)
    BY <1>1
  <2>3. CASE c[i] = <<>>
    BY <2>3, FlattenEmpty
  <2>4. CASE c[i] # <<>>
    <3>1. FlattenSeq(<<c[i]>>) = c[i]
      BY <2>2, FlattenOne
    <3>2. QED
      BY <2>2, <2>4, <3>1
  <2>5. QED
    BY <2>3, <2>4
<1>3. DOMAIN c = 1..Len(c) /\ Len(c) \in Nat /\ DOMAIN kept = DOMAIN c
  BY DEF Contentses
<1>4. kept \in Seq(Seq(Seq(Kinds)))
  <2> HIDE DEF sent
  <2>1. QED
    BY <1>2, <1>3
<1>5. again = c
  <2>1. \A i \in DOMAIN c : kept[i] = sent(i)
    BY Zenon
  <2>2. again = [i \in DOMAIN c |-> c[i]]
    <3> HIDE DEF sent, kept
    <3>1. QED
      BY <1>2, <1>3, <2>1, Zenon
  <2>3. c = [i \in DOMAIN c |-> c[i]]
    BY DEF Contentses
  <2>4. QED
    BY <2>2, <2>3, Zenon
<1>6. FlattenSeq(again) = FlattenSeq(FlattenSeq(kept))
  <2> HIDE DEF kept
  <2>1. QED
    BY <1>4, FlattenTwice, Zenon
<1>7. CASE Marked(c)
  <2>1. ChunksOf(c) = FlattenSeq(kept)
    BY <1>7 DEF ChunksOf
  <2> HIDE DEF kept, again
  <2>2. QED
    BY <1>5, <1>6, <2>1, Zenon DEF Meaning
<1>8. CASE ~Marked(c)
  BY <1>8 DEF ChunksOf
<1>9. QED
  BY <1>7, <1>8

\* What the developer rewrites.
New == [k \in Kinds |-> IF k = "array" THEN "table" ELSE k]

\* What a statement written anew says: the new one,
LEMMA NewSays == \A k \in Kinds : Said(New[k]) = MapOf(New, Said(k))
<1>0. \A k \in Kinds : New[k] = IF k = "array" THEN "table" ELSE k
  BY DEF New
<1>1. TAKE k \in Kinds
<1>2. CASE k = "array"
  <2>1. New[k] = "table" /\ Said("table") = <<"table">> /\ Said(k) = <<"array">>
    BY <1>0, <1>2 DEF Said, Control, Raw, Kinds, Ddl
  <2>2. MapOf(New, <<"array">>) = <<"table">>
    <3>1. New["array"] = "table"
      BY <1>0, <1>2
    <3>2. QED
      BY <3>1 DEF MapOf
  <2>3. QED
    BY <2>1, <2>2
<1>3. CASE k # "array"
  <2>1. New[k] = k
    BY <1>0, <1>3
  <2>2. CASE k \in Control \cup {"note"}
    <3>1. Said(k) = <<>>
      BY <2>2 DEF Said
    <3>2. MapOf(New, <<>>) = <<>>
      BY DEF MapOf
    <3>3. QED
      BY <2>1, <3>1, <3>2
  <2>3. CASE k \notin Control \cup {"note"}
    <3>1. Said(k) = <<Raw(k)>>
      BY <2>3 DEF Said
    <3>2. Raw(k) \in Kinds /\ Raw(k) # "array"
      BY <1>3 DEF Raw, Kinds, Ddl, Control
    <3>3. New[Raw(k)] = Raw(k)
      BY <1>0, <3>2
    <3>4. MapOf(New, <<Raw(k)>>) = <<New[Raw(k)]>>
      BY DEF MapOf
    <3>5. QED
      BY <2>1, <3>1, <3>3, <3>4
  <2>4. QED
    BY <2>2, <2>3
<1>4. QED
  BY <1>2, <1>3

\* and so a script
LEMMA SaysByHand ==
  ASSUME NEW s \in Seq(Kinds)
  PROVE  Says(MapOf(New, s)) = MapOf(New, Says(s))
<1>1. New \in [Kinds -> Kinds] /\ \A k \in Kinds : New[k] = IF k = "array" THEN "table" ELSE k
  BY DEF New, Kinds, Ddl
<1> DEFINE x == MapOf(SaidOf, s)
           y == [i \in DOMAIN x |-> MapOf(New, x[i])]
<1>2. /\ SaidOf \in [Kinds -> Seq(Kinds)] /\ x \in Seq(Seq(Kinds)) /\ Says(s) = FlattenSeq(x)
  BY SaysIs
<1>3. \A i \in DOMAIN s : s[i] \in Kinds
  OBVIOUS
<1>4. FlattenSeq(y) = MapOf(New, FlattenSeq(x))
  <2> HIDE DEF x
  <2>1. QED
    BY <1>1, <1>2, MapFlatten, Zenon
<1>5. \A k \in Kinds : Said(New[k]) = MapOf(New, Said(k))
  BY NewSays
<1>6. y = [i \in DOMAIN s |-> Said(New[s[i]])]
  <2>1. DOMAIN x = DOMAIN s /\ \A i \in DOMAIN s : x[i] = Said(s[i])
    BY <1>3, Zenon DEF MapOf, SaidOf
  <2> HIDE DEF x
  <2>2. QED
    BY <1>3, <1>5, <2>1, Zenon
<1>7. /\ DOMAIN MapOf(New, s) = DOMAIN s
      /\ \A i \in DOMAIN s : MapOf(New, s)[i] = New[s[i]]
  BY Zenon DEF MapOf
<1>8. Says(MapOf(New, s)) = FlattenSeq([i \in DOMAIN s |-> Said(New[s[i]])])
  <2>1. [i \in DOMAIN MapOf(New, s) |-> Said(MapOf(New, s)[i])] = [i \in DOMAIN s |-> Said(New[s[i]])]
    BY <1>7, Zenon
  <2>2. QED
    BY <2>1, Zenon DEF Says
<1> HIDE DEF x, y
<1>9. QED
  BY <1>2, <1>4, <1>6, <1>8, Zenon

\* and a file.
LEMMA MeaningByHand ==
  ASSUME NEW c \in Contentses
  PROVE  Meaning(ByHand(c)) = MapOf(New, Meaning(c))
<1>1. New \in [Kinds -> Kinds]
  BY DEF New, Kinds, Ddl
<1>2. \A i \in DOMAIN c : c[i] \in Seq(Kinds)
  BY DEF Contentses
<1>3. \A i \in DOMAIN c : \A j \in DOMAIN c[i] :
        (IF c[i][j] = "array" THEN "table" ELSE c[i][j]) = New[c[i][j]]
  BY <1>2 DEF New
<1>4. \A i \in DOMAIN c :
        [j \in DOMAIN c[i] |-> IF c[i][j] = "array" THEN "table" ELSE c[i][j]] = MapOf(New, c[i])
  BY <1>3, Zenon DEF MapOf
<1>5. ByHand(c) = [i \in DOMAIN c |-> MapOf(New, c[i])]
  BY <1>4, Zenon DEF ByHand
<1>6. FlattenSeq(ByHand(c)) = MapOf(New, FlattenSeq(c))
  <2>1. c \in Seq(Seq(Kinds))
    BY DEF Contentses
  <2>2. QED
    BY <1>1, <1>5, <2>1, MapFlatten, Zenon
<1>7. FlattenSeq(c) \in Seq(Kinds)
  BY FlattenContents
<1>8. QED
  BY <1>6, <1>7, SaysByHand, Zenon DEF Meaning

-----------------------------------------------------------------------------
(* One chunk is all there is of a script for Prisma.                       *)

\* The files, the script in hand and what it becomes.
OneChunk ==
  tool = "prisma" =>
    /\ \A f \in Targets : Len(disk[f]) <= 1 /\ Len(given[f]) <= 1
    /\ Len(text) <= 1
    /\ pc = "write" => Len(parts) = 1

\* A file of one chunk at most is empty or that chunk.
LEMMA OnlyChunk ==
  ASSUME NEW c \in Contentses, c # <<>>, Len(c) <= 1
  PROVE  c = <<c[1]>>
<1>1. Len(c) \in Nat \ {0}
  BY EmptySeq, Zenon DEF Contentses
<1>2. Len(c) = 1
  BY <1>1
<1>3. QED
  BY <1>2 DEF Contentses

\* No step of prisma makes a second chunk.
LEMMA OneChunkStep ==
  ASSUME TypeInv, OneChunk, Next
  PROVE  OneChunk'
<1>1. SUFFICES ASSUME tool' = "prisma" PROVE OneChunk'
  BY DEF OneChunk
<1>2. tool = "prisma" /\ UNCHANGED world
  BY <1>1, WorldStays DEF world
<1>3. (PrismaStart \/ PrismaProcess \/ PrismaDied \/ PrismaDeveloper) /\ UNCHANGED drizzleVars
  BY <1>2, NextCases
<1>4. /\ disk \in [Targets -> Contentses] /\ given \in [Targets -> Contentses]
      /\ target \in Targets /\ source \in Sources /\ parts \in Contentses /\ text \in Contentses
      /\ \A f \in Targets : Len(disk[f]) <= 1 /\ Len(given[f]) <= 1
      /\ Len(text) <= 1
  BY <1>2 DEF TypeInv, FilesOK, ScriptOK, OneChunk
<1>5. \A f \in Targets : Len(disk'[f]) <= 1 /\ Len(given'[f]) <= 1
  <2>1. CASE UNCHANGED files
    BY <1>4, <2>1 DEF files
  <2>2. CASE \E f \in Targets : Edit(f)
    <3>1. PICK f \in Targets : disk' = [disk EXCEPT ![f] = ByHand(@)]
                               /\ given' = [given EXCEPT ![f] = ByHand(@)]
      BY <2>2 DEF Edit
    <3>2. Len(ByHand(disk[f])) = Len(disk[f]) /\ Len(ByHand(given[f])) = Len(given[f])
      BY <1>4, ByHandType
    <3>3. QED
      BY <1>4, <3>1, <3>2
  <2>3. ASSUME pc = "write", Write(Output) \/ \E n \in 0..(Len(Output) - 1) : WriteCut(Output, n)
        PROVE  \A f \in Targets : Len(disk'[f]) <= 1 /\ Len(given'[f]) <= 1
    <3>1. Output = parts /\ Len(parts) = 1
      BY <1>2, <2>3 DEF Output, OneChunk
    <3>2. PICK d \in Contentses :
           /\ disk' = [disk EXCEPT ![target] = d] /\ given' = [given EXCEPT ![target] = text]
           /\ d = parts \/ d \in {Empty} \cup {SubSeq(parts, 1, n) : n \in 1..(Len(parts) - 1)}
      BY <1>4, <2>3, <3>1, Writes
    <3>3. d = parts \/ d = Empty
      BY <3>1, <3>2
    <3>4. Len(d) <= 1
      <4>1. Len(Empty) = 1
        BY DEF Empty
      <4>2. QED
        BY <3>1, <3>3, <4>1
    <3>5. \A f \in Targets : disk'[f] = (IF f = target THEN d ELSE disk[f])
                               /\ given'[f] = (IF f = target THEN text ELSE given[f])
      BY <1>4, <3>2
    <3>6. QED
      BY <1>4, <3>4, <3>5, Zenon
  <2>4. QED
    BY <1>2, <2>1, <2>2, <2>3, FileSteps
<1>6. Len(text') <= 1 /\ (pc' = "write" => Len(parts') = 1)
  <2>1. CASE PrismaStart
    <3>1. pc' # "write"
      BY <2>1 DEF PrismaStart, HandleMigrate, HandleValidate, Diff, HandlePrismaTransform,
         HandlePrismaLint, ReadFileArgument, ReadStdin, InputMissing, Help, Usage, Exit
    <3>2. \/ text' = <<>> \/ (\E s \in Scripts : text' = <<s>>) \/ (\E f \in Targets : text' = given[f])
      BY <2>1 DEF PrismaStart, HandleMigrate, HandleValidate, Diff, HandlePrismaTransform,
         HandlePrismaLint, ReadFileArgument, ReadStdin, InputMissing, Help, Usage, NoInput, Targets
    <3>3. Len(<<>>) <= 1 /\ \A s \in Scripts : Len(<<s>>) <= 1
      OBVIOUS
    <3>4. QED
      BY <1>4, <3>1, <3>2, <3>3, Zenon
  <2>2. ASSUME Lint \/ Relint
        PROVE  Len(text') <= 1 /\ (pc' = "write" => Len(parts') = 1)
    <3>1. text' = text
      BY <2>2 DEF Lint, Relint, commandVars
    <3>2. PICK r \in Answers(IF pc = "lint" THEN Wrapped ELSE Script, TRUE) :
            pc' \in {"threw", "relint"} \/ UseResult(r)
      BY <2>2, LintCases DEF Throw
    <3>3. pc' = "write" => parts' = <<r.sql>>
      BY <3>2 DEF UseResult
    <3>4. QED
      BY <1>4, <3>1, <3>3
  <2>3. ASSUME PrismaLint \/ WriteMigration \/ PrismaDied \/ PrismaDeveloper
        PROVE  text' \in {text, <<>>} /\ pc' # "write"
    BY <2>3 DEF PrismaLint, WriteMigration, PrismaDied, PrismaDeveloper, Again, Edit, Throw, Exit,
       CrashInWrite, WriteFails, Crash, commandVars
  <2>4. QED
    BY <1>3, <1>4, <2>1, <2>2, <2>3 DEF PrismaProcess
<1>7. QED
  BY <1>5, <1>6 DEF OneChunk

\* The invariant holds.
LEMMA OneChunkKept == Spec => []OneChunk
<1>1. Init => OneChunk
  <2>1. SUFFICES ASSUME Init, tool = "prisma"
                 PROVE  /\ \A f \in Targets : Len(disk[f]) <= 1 /\ Len(given[f]) <= 1
                        /\ Len(text) <= 1 /\ pc # "write"
    BY DEF OneChunk
  <2>2. CliInit("prisma", {<<s>> : s \in Scripts})
    BY <2>1 DEF Init, CliInit
  <2>3. PICK c \in {<<s>> : s \in Scripts} \cup {Absent} :
          disk = [f \in Files \cup {Out} |-> IF f = 1 THEN c ELSE Absent]
    BY <2>2 DEF CliInit
  <2>4. Len(c) <= 1 /\ Len(Absent) <= 1 /\ Len(<<>>) <= 1
    <3>1. Len(<<>>) <= 1 /\ \A s \in Scripts : Len(<<s>>) <= 1
      OBVIOUS
    <3>2. c = <<>> \/ \E s \in Scripts : c = <<s>>
      BY <2>3 DEF Absent
    <3>3. QED
      BY <3>1, <3>2, Zenon DEF Absent
  <2>5. \A f \in Targets : Len(disk[f]) <= 1
    BY <2>3, <2>4 DEF Targets
  <2>6. QED
    BY <2>2, <2>4, <2>5 DEF CliInit
<1>2. OneChunk /\ UNCHANGED vars => OneChunk'
  BY DEF vars, world, files, OneChunk
<1>3. TypeInv /\ OneChunk /\ [Next]_vars => OneChunk'
  BY <1>2, OneChunkStep
<1>4. QED
  BY <1>1, <1>3, TypesKept, PTL DEF Spec

-----------------------------------------------------------------------------
(* Nothing is lost.                                                        *)

\* A file says what its author wrote; so does, at any point of drizzle's loop,
\* what is transformed of the script in hand with what is still to do, and what
\* prisma is about to write; a file that was cut, or came of one, aside.
SaysInv ==
  /\ NothingLost
  /\ pc \in {"chunk", "write"} /\ tool = "drizzle" /\ code # 1 /\ source \notin torn =>
       Meaning(parts) \o Meaning(todo) = Meaning(text)
  /\ pc = "write" /\ tool = "drizzle" => todo = <<>>
  /\ pc = "write" /\ tool = "prisma" /\ source \notin torn => Meaning(parts) = Meaning(text)

\* The file of the script in hand says what its author wrote, or was cut.
LEMMA InputSays ==
  ASSUME TypeInv, NothingLost, pc \in InHand, source \notin torn
  PROVE  Meaning(Input) = Meaning(text)
<1>1. CASE source = Stdin
  BY <1>1 DEF Input
<1>2. CASE source # Stdin
  <2>1. source \in Files \cup {Out} /\ text = given[source] /\ Input = disk[source]
    BY <1>2 DEF TypeInv, ScriptOK, HandOK, Sources, Input
  <2>2. QED
    BY <2>1 DEF NothingLost
<1>3. QED
  BY <1>1, <1>2

\* What a step does to the files loses nothing.
LEMMA NothingLostStep ==
  ASSUME TypeInv, FixedInv, SaysInv, Next
  PROVE  NothingLost'
<1>0. /\ disk \in [Targets -> Contentses] /\ given \in [Targets -> Contentses]
      /\ target \in Targets /\ parts \in Contentses /\ text \in Contentses /\ Targets = Files \cup {Out}
  BY DEF TypeInv, FilesOK, ScriptOK, Targets
<1>00. NothingLost
  BY DEF SaysInv
<1>1. CASE UNCHANGED files
  BY <1>00, <1>1 DEF files, NothingLost
<1>2. CASE \E c \in Contents : NewFile(c)
  <2>1. PICK c \in Contents, f \in Targets :
          disk' = [disk EXCEPT ![f] = c] /\ given' = [given EXCEPT ![f] = c] /\ UNCHANGED torn
    BY <1>2, StdinIsNoFile DEF NewFile
  <2>2. \A g \in Targets : disk'[g] = (IF g = f THEN c ELSE disk[g])
                             /\ given'[g] = (IF g = f THEN c ELSE given[g])
    BY <1>0, <2>1
  <2>3. QED
    BY <1>0, <1>00, <2>1, <2>2, Zenon DEF NothingLost
<1>3. CASE \E f \in Targets : Edit(f)
  <2>1. PICK f \in Targets :
          /\ disk' = [disk EXCEPT ![f] = ByHand(@)] /\ given' = [given EXCEPT ![f] = ByHand(@)]
          /\ UNCHANGED torn
    BY <1>3 DEF Edit
  <2>2. \A g \in Targets : disk'[g] = (IF g = f THEN ByHand(disk[g]) ELSE disk[g])
                             /\ given'[g] = (IF g = f THEN ByHand(given[g]) ELSE given[g])
    BY <1>0, <2>1
  <2>3. \A g \in Targets : /\ Meaning(ByHand(disk[g])) = MapOf(New, Meaning(disk[g]))
                           /\ Meaning(ByHand(given[g])) = MapOf(New, Meaning(given[g]))
    BY <1>0, MeaningByHand
  <2>4. ASSUME NEW g \in Targets, g \notin torn
        PROVE  Meaning(disk'[g]) = Meaning(given'[g])
    <3>1. Meaning(disk[g]) = Meaning(given[g])
      BY <1>0, <1>00, <2>4 DEF NothingLost
    <3>2. CASE g = f
      <4>1. disk'[g] = ByHand(disk[g]) /\ given'[g] = ByHand(given[g])
        BY <2>2, <3>2
      <4>2. QED
        BY <2>3, <3>1, <4>1, Zenon
    <3>3. CASE g # f
      BY <2>2, <3>1, <3>3
    <3>4. QED
      BY <3>2, <3>3
  <2>5. QED
    BY <1>0, <2>1, <2>4 DEF NothingLost
<1>4. ASSUME pc = "write", Write(Output) \/ \E n \in 0..(Len(Output) - 1) : WriteCut(Output, n)
      PROVE  NothingLost'
  <2>1. PICK d \in Contentses :
           /\ disk' = [disk EXCEPT ![target] = d] /\ given' = [given EXCEPT ![target] = text]
           /\ (d = Output /\ Write(Output)) \/ torn' = torn \cup {target}
    BY <1>4, OutputType, Writes
  <2>2. \A g \in Targets : disk'[g] = (IF g = target THEN d ELSE disk[g])
                             /\ given'[g] = (IF g = target THEN text ELSE given[g])
    BY <1>0, <2>1
  <2>3. \A g \in Targets : g # target /\ g \notin torn' => g \notin torn
    BY <2>1 DEF Write
  <2>4. ASSUME target \notin torn'
        PROVE  Meaning(d) = Meaning(text)
    <3>1. d = Output /\ source \notin torn
      BY <2>1, <2>4 DEF Write
    <3>2. Meaning(parts) = Meaning(text)
      <4>1. CASE tool = "drizzle"
        <5>1. Meaning(parts) \o Meaning(todo) = Meaning(text) /\ todo = <<>>
          BY <1>4, <3>1, <4>1 DEF SaysInv, FixedInv
        <5>2. Meaning(parts) \in Seq(Kinds) /\ Meaning(todo) = <<>>
          BY <1>0, <5>1, FlattenContents, MeaningOfNothing
        <5>3. Meaning(parts) \o <<>> = Meaning(parts)
          BY <5>2, ConcatEmptySeq, Zenon
        <5>4. QED
          BY <5>1, <5>2, <5>3, Zenon
      <4>2. CASE tool = "prisma"
        BY <1>4, <3>1, <4>2 DEF SaysInv
      <4>3. QED
        BY <4>1, <4>2 DEF TypeInv, WorldOK
    <3>3. Meaning(Output) = Meaning(parts)
      BY MeaningOfNothing DEF Output, Joined
    <3>4. QED
      BY <3>1, <3>2, <3>3
  <2>5. QED
    BY <1>0, <1>00, <2>2, <2>3, <2>4, Zenon DEF NothingLost
<1>5. QED
  BY <1>1, <1>2, <1>3, <1>4, FileSteps

\* The rest of the invariant, where there is nothing in hand.
LEMMA NothingInHand ==
  ASSUME NothingLost', pc' \notin {"chunk", "write"}
  PROVE  SaysInv'
BY DEF SaysInv

\* A file is entered with all its chunks to do.
LEMMA EnterSays ==
  ASSUME TypeInv, NEW content \in Contentses, TransformMigrationFile(content), NothingLost',
         tool' = "drizzle", source' \notin torn' => Meaning(content) = Meaning(text')
  PROVE  SaysInv'
<1>1. CASE pc' = "threw"
  BY <1>1, NothingInHand
<1>2. CASE pc' = "chunk"
  <2>1. parts' = <<>> /\ todo' = ChunksOf(content)
    BY <1>2, EnterTypes
  <2>2. Meaning(parts') = <<>> /\ Meaning(todo') = Meaning(content) /\ Meaning(content) \in Seq(Kinds)
    BY <2>1, MeaningOfNothing, MeaningChunksOf, FlattenContents
  <2>3. <<>> \o Meaning(content) = Meaning(content)
    BY <2>2, ConcatEmptySeq, Zenon
  <2>4. Meaning(parts') \o Meaning(todo') = Meaning(content)
    BY <2>2, <2>3, Zenon
  <2>5. QED
    BY <1>2, <2>4 DEF SaysInv
<1>3. QED
  BY <1>1, <1>2, EnterTypes

\* A chunk is transformed: what it said goes from todo to parts.
LEMMA ChunkSays ==
  ASSUME TypeInv, SaysInv, TransformChunk, NothingLost', tool = "drizzle", UNCHANGED world
  PROVE  SaysInv'
<1>1. PICK r \in Answers(Head(todo), TRUE) :
        IF r.threw \/ BreaksContract(r) THEN Throw
        ELSE /\ code' = WorseExitCode(code, r.exit)
             /\ parts' = IF r.sql = <<>> THEN parts ELSE Append(parts, r.sql)
             /\ todo' = Tail(todo) /\ pc' = pc
  BY DEF TransformChunk
<1>2. pc = "chunk" /\ todo # <<>> /\ UNCHANGED <<source, text, torn, tool>>
  BY DEF TransformChunk, files, processVars, world
<1>3. parts \in Contentses /\ todo \in Contentses /\ code \in Codes
  BY DEF TypeInv, ScriptOK, DrizzleOK
<1>4. Head(todo) \in Seq(Kinds) /\ Tail(todo) \in Contentses /\ todo = <<Head(todo)>> \o Tail(todo)
  BY <1>2, <1>3 DEF Contentses
<1>5. CASE r.threw \/ BreaksContract(r)
  BY <1>1, <1>5, NothingInHand DEF Throw
<1>6. CASE ~(r.threw \/ BreaksContract(r))
  <2>1. r.exit \in Codes /\ r.sql \in Seq(Kinds)
    BY <1>4, AnswerType DEF TypeInv, WorldOK
  <2>2. ASSUME code' # 1, source \notin torn
        PROVE  Meaning(parts') \o Meaning(todo') = Meaning(text)
    <3>1. code # 1 /\ r.exit # 1
      BY <1>1, <1>3, <1>6, <2>1, <2>2, FineCodes
    <3>2. Says(r.sql) = Says(Head(todo))
      BY <1>4, <1>6, <3>1, AnswerSays
    <3>3. Meaning(parts) \o Meaning(todo) = Meaning(text)
      BY <1>2, <2>2, <3>1 DEF SaysInv
    <3>4. Meaning(todo) = Says(Head(todo)) \o Meaning(Tail(todo))
      BY <1>4, MeaningOfMore, Zenon
    <3>5. Meaning(parts') = Meaning(parts) \o Says(r.sql)
      <4>1. CASE r.sql = <<>>
        <5>1. Meaning(parts) \in Seq(Kinds)
          BY <1>3, FlattenContents
        <5>2. Meaning(parts) \o <<>> = Meaning(parts)
          BY <5>1, ConcatEmptySeq, Zenon
        <5>3. parts' = parts
          BY <1>1, <1>6, <4>1
        <5>4. QED
          BY <4>1, <5>2, <5>3, SaysNothing, Zenon
      <4>2. CASE r.sql # <<>>
        <5>1. parts' = Append(parts, r.sql)
          BY <1>1, <1>6, <4>2
        <5>2. QED
          BY <1>3, <2>1, <5>1, MeaningOfMore, Zenon
      <4>3. QED
        BY <4>1, <4>2
    <3>6. \A x, y, z \in Seq(Kinds) : (x \o y) \o z = x \o (y \o z)
      OBVIOUS
    <3>7. Meaning(parts) \in Seq(Kinds) /\ Says(r.sql) \in Seq(Kinds) /\ Meaning(Tail(todo)) \in Seq(Kinds)
      BY <1>3, <1>4, <2>1, FlattenContents, SaysIs
    <3>8. todo' = Tail(todo)
      BY <1>1, <1>6
    <3>9. (Meaning(parts) \o Says(r.sql)) \o Meaning(Tail(todo))
            = Meaning(parts) \o (Says(r.sql) \o Meaning(Tail(todo)))
      BY <3>6, <3>7, Zenon
    <3>10. Meaning(parts') \o Meaning(todo') = Meaning(parts) \o (Says(r.sql) \o Meaning(Tail(todo)))
      BY <3>5, <3>8, <3>9, Zenon
    <3>11. QED
      BY <3>2, <3>3, <3>4, <3>10, Zenon
  <2>3. pc' = "chunk" /\ tool' = "drizzle" /\ source' = source /\ torn' = torn /\ text' = text
    BY <1>1, <1>2, <1>6
  <2>4. QED
    BY <2>2, <2>3 DEF SaysInv
<1>7. QED
  BY <1>5, <1>6

\* The steps of drizzle.
LEMMA DrizzleSays ==
  ASSUME TypeInv, SaysInv, NothingLost', tool = "drizzle", UNCHANGED world,
         DrizzleStart \/ DrizzleProcess \/ Died \/ DrizzleDeveloper
  PROVE  SaysInv'
<1>0. tool' = "drizzle" /\ NothingLost
  BY DEF world, SaysInv
<1>1. CASE DrizzleStart \/ Died \/ DrizzleDeveloper \/ DrizzleKitGenerate \/ ListSqlFiles
            \/ GenerateDone \/ DrizzleLint \/ WriteFile
  <2>1. pc' \notin {"chunk", "write"}
    BY <1>1 DEF DrizzleStart, HandleGenerate, HandleTransform, HandleLint, ReadFileArgument,
         ReadStdin, InputMissing, Help, Usage, Begin, Exit, Died, CrashInWrite, WriteFails, Crash,
         Throw, DrizzleDeveloper, Again, Edit, DrizzleKitGenerate, ListSqlFiles, GenerateDone,
         DrizzleLint, WriteFile
  <2>2. QED
    BY <2>1, NothingInHand
<1>2. CASE ReadFile
  <2> DEFINE f == Min(queue)
  <2>1. \E g \in Files : g = f
    <3>1. TypeInv /\ pc = "file" /\ queue # {} /\ queue \subseteq Nat /\ queue \subseteq Files
      BY <1>2, StdinIsNoFile DEF ReadFile, TypeInv, DrizzleOK
    <3>2. f \in queue
      BY <3>1, MinOf
    <3>3. QED
      BY <3>1, <3>2
  <2> HIDE DEF f
  <2>2. /\ source' = f /\ text' = given[f] /\ TransformMigrationFile(disk[f]) /\ torn' = torn
    BY <1>2 DEF ReadFile, f, files
  <2>3. f \in Files \cup {Out} /\ disk[f] \in Contentses
    BY <2>1 DEF TypeInv, FilesOK, Targets
  <2>4. source' \notin torn' => Meaning(disk[f]) = Meaning(text')
    BY <1>0, <2>2, <2>3 DEF NothingLost
  <2>5. QED
    BY <1>0, <2>2, <2>3, <2>4, EnterSays
<1>3. CASE TransformChunk
  BY <1>3, ChunkSays
<1>4. ASSUME FileTransformed \/ ScriptTransformed
      PROVE  SaysInv'
  BY <1>0, <1>4 DEF FileTransformed, ScriptTransformed, SaysInv, files, processVars, drizzleVars, Exit
<1>5. CASE ReadTransformInput
  <2>1. /\ pc = "read" /\ TransformMigrationFile(Input) /\ UNCHANGED <<source, text, torn>>
    BY <1>5 DEF ReadTransformInput, files, processVars
  <2>2. Input \in Contentses
    BY InputType
  <2>3. source' \notin torn' => Meaning(Input) = Meaning(text')
    BY <1>0, <2>1, InputSays DEF InHand
  <2>4. QED
    BY <1>0, <2>1, <2>2, <2>3, EnterSays
<1>6. QED
  BY <1>1, <1>2, <1>3, <1>4, <1>5 DEF DrizzleProcess

\* The steps of prisma.
LEMMA PrismaSays ==
  ASSUME TypeInv, OneChunk, SaysInv, NothingLost', tool = "prisma", UNCHANGED world,
         PrismaStart \/ PrismaProcess \/ PrismaDied \/ PrismaDeveloper
  PROVE  SaysInv'
<1>0. tool' = "prisma" /\ NothingLost
  BY DEF world, SaysInv
<1>1. CASE PrismaStart \/ PrismaLint \/ WriteMigration \/ PrismaDied \/ PrismaDeveloper
  <2>1. pc' \notin {"chunk", "write"}
    BY <1>1 DEF PrismaStart, HandleMigrate, HandleValidate, Diff, HandlePrismaTransform,
         HandlePrismaLint, ReadFileArgument, ReadStdin, InputMissing, Help, Usage, Begin, Exit,
         PrismaLint, WriteMigration, PrismaDied, CrashInWrite, WriteFails, Crash, Throw,
         PrismaDeveloper, Again, Edit
  <2>2. QED
    BY <2>1, NothingInHand
<1>2. ASSUME Lint \/ Relint
      PROVE  SaysInv'
  <2>1. pc \in {"lint", "relint"} /\ UNCHANGED <<source, text, torn>>
    BY <1>2 DEF Lint, Relint, commandVars, files
  <2>2. PICK r \in Answers(IF pc = "lint" THEN Wrapped ELSE Script, TRUE) :
          pc' \in {"threw", "relint"} \/ UseResult(r)
    BY <1>2, LintCases DEF Throw
  <2>3. CASE pc' \notin {"chunk", "write"}
    BY <2>3, NothingInHand
  <2>4. CASE UseResult(r) /\ pc' = "write"
    <3>1. parts' = <<r.sql>> /\ r.exit \in Fine
      BY <2>4 DEF UseResult, Fine, Exit
    <3>2. Script \in Seq(Kinds) /\ Wrapped \in Seq(Kinds)
      BY <2>1, ScriptType DEF InHand
    <3>3. Says(Wrapped) = Says(Script)
      BY <3>2, SaysWrapped DEF Wrapped, WrapInTransaction
    <3>4. r.sql = FixedSql(release, IF pc = "lint" THEN Wrapped ELSE Script)
      BY <3>1, <3>2, FineAnswer
    <3>5. Says(r.sql) = Says(Script) /\ r.sql \in Seq(Kinds)
      BY <3>2, <3>3, <3>4, FixedSqlSays, FixedSqlType
    <3>6. Meaning(parts') = Says(Script)
      BY <3>1, <3>5, MeaningOne
    <3>7. Input = <<Script>>
      <4>1. Input \in Contentses /\ Input # <<>>
        BY <2>1, InputType DEF TypeInv, HandOK, InHand
      <4>2. Len(Input) <= 1
        <5>1. Len(text) <= 1 /\ \A f \in Targets : Len(disk[f]) <= 1
          BY DEF OneChunk
        <5>2. source = Stdin \/ source \in Targets
          BY DEF TypeInv, ScriptOK, Sources, Targets
        <5>3. QED
          <6>1. Input = text \/ \E f \in Targets : Input = disk[f]
            BY <5>2 DEF Input
          <6>2. QED
            BY <5>1, <6>1, Zenon
      <4>3. QED
        BY <4>1, <4>2, OnlyChunk, Zenon DEF Script
    <3>8. source \notin torn => Meaning(Input) = Meaning(text)
      BY <1>0, <2>1, InputSays DEF InHand
    <3>9. Meaning(Input) = Says(Script)
      BY <3>2, <3>7, MeaningOne
    <3>10. QED
      BY <1>0, <2>1, <2>4, <3>6, <3>8, <3>9 DEF SaysInv
  <2>5. QED
    BY <2>2, <2>3, <2>4 DEF UseResult, Exit
<1>3. QED
  BY <1>1, <1>2 DEF PrismaProcess

\* The invariant holds.
LEMMA SaysKept == Spec => []SaysInv
<1>1. Init => SaysInv
  BY DEF Init, CliInit, SaysInv, NothingLost
<1>2. TypeInv /\ FixedInv /\ OneChunk /\ SaysInv /\ Next => SaysInv'
  BY NothingLostStep, WorldStays, NextCases, DrizzleSays, PrismaSays
<1>3. SaysInv /\ UNCHANGED vars => SaysInv'
  BY DEF vars, world, files, drizzleVars, SaysInv, NothingLost
<1>4. TypeInv /\ FixedInv /\ OneChunk /\ SaysInv /\ [Next]_vars => SaysInv'
  BY <1>2, <1>3
<1>5. QED
  BY <1>1, <1>4, TypesKept, FixedKept, OneChunkKept, PTL DEF Spec

\* Every file says what its author wrote, every statement of it in order, however
\* it was split into chunks, transformed, wrapped, re-transformed, refused or
\* edited, unless its last write was cut short or copied from such a file.
THEOREM NoStatementIsLost == Spec => []NothingLost
<1>1. SaysInv => NothingLost
  BY DEF SaysInv
<1>2. QED
  BY <1>1, SaysKept, PTL

-----------------------------------------------------------------------------
(* Warnings.                                                               *)

\* Scripts without an asynchronous index.
Plain == Kinds \ {"indexAsync"}

\* An asynchronous index among the chunks.
Async(c) == "indexAsync" \in KindsIn(c)

\* No chunk is plain where there is one, and the other way round.
LEMMA AsyncMeans ==
  ASSUME NEW c \in Contentses
  PROVE  /\ ~Async(c) <=> c \in Seq(Seq(Plain))
         /\ ~Async(c) /\ c # <<>> => c[1] \in Seq(Plain)
<1>1. ASSUME ~Async(c)
      PROVE  c \in Seq(Seq(Plain))
  <2>1. \A i \in DOMAIN c : c[i] \in Seq(Kinds) /\ \A j \in DOMAIN c[i] : c[i][j] \in Kinds /\ c[i][j] # "indexAsync"
    BY <1>1 DEF Contentses, Async, KindsIn
  <2>2. \A i \in DOMAIN c : c[i] \in Seq(Plain)
    BY <2>1 DEF Plain
  <2>3. QED
    BY <2>2 DEF Contentses
<1>2. ASSUME c \in Seq(Seq(Plain))
      PROVE  ~Async(c)
  BY <1>2, KindsInType DEF Async, Plain
<1>3. ASSUME c \in Seq(Seq(Plain)), c # <<>>
      PROVE  c[1] \in Seq(Plain)
  BY <1>3
<1>4. QED
  BY <1>1, <1>2, <1>3

\* What comes of a script without one has none, or there is a warning.
LEMMA AnswerAsync ==
  ASSUME NEW s \in Seq(Plain), NEW r \in Answers(s, TRUE), "WARNING" \notin Report(r.diags)
  PROVE  r.sql \in Seq(Plain)
<1>1. s \in Seq(Kinds) /\ \A i \in DOMAIN s : s[i] # "indexAsync"
  BY DEF Plain
<1>2. CASE r = FixRun(release, s)
  <2>1. r.diags = Diagnostics(release, s) /\ r.sql = FixedSql(release, s)
    BY <1>2, FixRunIs
  <2>2. "WARNING" \notin Report(Diagnostics(release, s))
    BY <2>1
  <2>3. FixedSql(release, s) \in Seq(Kinds \ {"indexAsync"})
    BY <1>1, <2>2, AsyncIsWarnedOf
  <2>4. QED
    BY <2>1, <2>3 DEF Plain
<1>3. CASE r \in OddRuns(s)
  <2>1. r.sql = <<>> \/ r.sql = s
    BY <1>3, OddRunsAre
  <2>2. <<>> \in Seq(Plain)
    OBVIOUS
  <2>3. QED
    BY <2>1, <2>2, Zenon
<1>4. CASE r = Threw
  BY <1>4 DEF Threw
<1>5. QED
  BY <1>2, <1>3, <1>4, AnswerCases

\* Where one came up that the input did not have, a warning did too: reported of
\* the chunks so far, or to be reported with the whole file.
WarnInv ==
  /\ pc = "chunk" /\ tool = "drizzle" /\ Async(parts) => Async(Input) \/ "WARNING" \in shown
  /\ pc = "chunk" /\ tool = "drizzle" /\ Async(todo) => Async(Input)
  /\ pc = "write" /\ Async(parts) => Async(Input) \/ "WARNING" \in reported

\* A chunk more,
LEMMA MoreChunks ==
  ASSUME NEW K, NEW c \in Seq(Seq(K)), NEW s \in Seq(K)
  PROVE  Append(c, s) \in Seq(Seq(K)) /\ <<s>> \in Seq(Seq(K))
OBVIOUS

\* and one chunk less.
LEMMA FewerChunks ==
  ASSUME NEW K, NEW c \in Seq(Seq(K)), c # <<>>
  PROVE  Head(c) \in Seq(K) /\ Tail(c) \in Seq(Seq(K))
OBVIOUS

\* A file is entered with all its chunks to do.
LEMMA EnterWarns ==
  ASSUME TypeInv, NEW content \in Contentses, TransformMigrationFile(content), Input' = content
  PROVE  WarnInv'
<1>1. CASE pc' = "threw"
  BY <1>1 DEF WarnInv
<1>2. CASE pc' = "chunk"
  <2>1. parts' = <<>> /\ todo' = ChunksOf(content)
    BY <1>2, EnterTypes
  <2>2. ~Async(parts')
    BY <2>1 DEF Async, KindsIn
  <2>3. ~Async(content) => ~Async(todo')
    <3>1. ChunksOf(content) \in Contentses
      BY ChunksOfType DEF Contentses
    <3>2. content \in Seq(Seq(Plain)) => ChunksOf(content) \in Seq(Seq(Plain))
      BY ChunksOfType
    <3>3. QED
      BY <2>1, <3>1, <3>2, AsyncMeans
  <2>4. QED
    BY <1>2, <2>2, <2>3 DEF WarnInv
<1>3. QED
  BY <1>1, <1>2, EnterTypes

\* A chunk is transformed, and its warning shown.
LEMMA ChunkWarns ==
  ASSUME TypeInv, WarnInv, TransformChunk, tool = "drizzle", UNCHANGED world
  PROVE  WarnInv'
<1>1. PICK r \in Answers(Head(todo), TRUE) :
        IF r.threw \/ BreaksContract(r) THEN Throw
        ELSE /\ parts' = IF r.sql = <<>> THEN parts ELSE Append(parts, r.sql)
             /\ shown' = shown \cup Report(r.diags)
             /\ todo' = Tail(todo) /\ pc' = pc
  BY DEF TransformChunk
<1>2. pc = "chunk" /\ todo # <<>> /\ Input' = Input
  BY DEF TransformChunk, files, processVars, Input
<1>3. parts \in Contentses /\ todo \in Contentses /\ Input \in Contentses
  BY InputType DEF TypeInv, ScriptOK, DrizzleOK
<1>5. CASE r.threw \/ BreaksContract(r)
  BY <1>1, <1>5 DEF Throw, WarnInv
<1>6. CASE ~(r.threw \/ BreaksContract(r))
  <2>1. r.sql \in Seq(Kinds)
    <3>1. Head(todo) \in Seq(Kinds)
      BY <1>2, <1>3 DEF Contentses
    <3>2. QED
      BY <3>1, AnswerType DEF TypeInv, WorldOK
  <2>2. parts' \in Contentses /\ todo' \in Contentses
    <3>1. parts' = parts \/ parts' = Append(parts, r.sql)
      BY <1>1, <1>6
    <3>2. todo' = Tail(todo)
      BY <1>1, <1>6
    <3>3. QED
      BY <1>2, <1>3, <2>1, <3>1, <3>2, MoreChunks, FewerChunks DEF Contentses
  <2>3. ASSUME ~Async(Input)
        PROVE  ~Async(todo') /\ (Async(parts') => "WARNING" \in shown')
    <3>1. ~Async(todo) /\ (Async(parts) => "WARNING" \in shown)
      BY <1>2, <2>3 DEF WarnInv
    <3>2. Head(todo) \in Seq(Plain) /\ Tail(todo) \in Seq(Seq(Plain))
      BY <1>2, <1>3, <3>1, AsyncMeans, FewerChunks
    <3>3. ~Async(todo')
      BY <1>1, <1>6, <2>2, <3>2, AsyncMeans
    <3>4. ASSUME "WARNING" \notin shown'
          PROVE  ~Async(parts')
      <4>1. "WARNING" \notin Report(r.diags) /\ "WARNING" \notin shown
        BY <1>1, <1>6, <3>4
      <4>2. r.sql \in Seq(Plain)
        BY <3>2, <4>1, AnswerAsync
      <4>3. parts \in Seq(Seq(Plain))
        BY <1>3, <3>1, <4>1, AsyncMeans
      <4>4. parts' = parts \/ parts' = Append(parts, r.sql)
        BY <1>1, <1>6
      <4>5. parts' \in Seq(Seq(Plain))
        BY <4>2, <4>3, <4>4, MoreChunks, Zenon
      <4>6. QED
        BY <2>2, <4>5, AsyncMeans
    <3>5. QED
      BY <3>3, <3>4
  <2>4. pc' = "chunk"
    BY <1>1, <1>2, <1>6
  <2>5. QED
    BY <1>2, <2>3, <2>4 DEF WarnInv
<1>7. QED
  BY <1>5, <1>6

\* The steps of drizzle.
LEMMA DrizzleWarns ==
  ASSUME TypeInv, WarnInv, tool = "drizzle", UNCHANGED world,
         DrizzleStart \/ DrizzleProcess \/ Died \/ DrizzleDeveloper
  PROVE  WarnInv'
<1>0. tool' = "drizzle"
  BY DEF world
<1>1. CASE DrizzleStart \/ Died \/ DrizzleDeveloper \/ DrizzleKitGenerate \/ ListSqlFiles
            \/ GenerateDone \/ DrizzleLint \/ WriteFile
  <2>1. pc' \notin {"chunk", "write"}
    BY <1>1 DEF DrizzleStart, HandleGenerate, HandleTransform, HandleLint, ReadFileArgument,
         ReadStdin, InputMissing, Help, Usage, Begin, Exit, Died, CrashInWrite, WriteFails, Crash,
         Throw, DrizzleDeveloper, Again, Edit, DrizzleKitGenerate, ListSqlFiles, GenerateDone,
         DrizzleLint, WriteFile
  <2>2. QED
    BY <2>1 DEF WarnInv
<1>2. CASE ReadFile
  <2> DEFINE f == Min(queue)
  <2>1. \E g \in Files : g = f
    <3>1. TypeInv /\ pc = "file" /\ queue # {} /\ queue \subseteq Nat /\ queue \subseteq Files
      BY <1>2, StdinIsNoFile DEF ReadFile, TypeInv, DrizzleOK
    <3>2. f \in queue
      BY <3>1, MinOf
    <3>3. QED
      BY <3>1, <3>2
  <2> HIDE DEF f
  <2>2. /\ source' = f /\ TransformMigrationFile(disk[f]) /\ disk' = disk
    BY <1>2 DEF ReadFile, f, files
  <2>3. disk[f] \in Contentses /\ f # Stdin
    BY <2>1, StdinIsNoFile DEF TypeInv, FilesOK, Targets
  <2>4. Input' = disk[f]
    BY <2>2, <2>3 DEF Input
  <2>5. QED
    BY <2>2, <2>3, <2>4, EnterWarns
<1>3. CASE TransformChunk
  BY <1>3, ChunkWarns
<1>4. ASSUME FileTransformed \/ ScriptTransformed
      PROVE  WarnInv'
  <2>1. /\ pc = "chunk" /\ reported' = reported \cup shown /\ pc' # "chunk"
        /\ UNCHANGED <<disk, source, text, parts>>
    BY <1>4 DEF FileTransformed, ScriptTransformed, files, processVars, Exit
  <2>2. Input' = Input /\ Async(parts') = Async(parts) /\ Async(Input') = Async(Input)
    BY <2>1 DEF Input
  <2>3. QED
    BY <2>1, <2>2 DEF WarnInv
<1>5. CASE ReadTransformInput
  <2>1. TransformMigrationFile(Input) /\ Input' = Input
    BY <1>5 DEF ReadTransformInput, files, processVars, Input
  <2>2. QED
    BY <2>1, InputType, EnterWarns
<1>6. QED
  BY <1>1, <1>2, <1>3, <1>4, <1>5 DEF DrizzleProcess

\* The steps of prisma.
LEMMA PrismaWarns ==
  ASSUME TypeInv, WarnInv, tool = "prisma", UNCHANGED world,
         PrismaStart \/ PrismaProcess \/ PrismaDied \/ PrismaDeveloper
  PROVE  WarnInv'
<1>1. CASE PrismaStart \/ PrismaLint \/ WriteMigration \/ PrismaDied \/ PrismaDeveloper
  <2>1. pc' \notin {"chunk", "write"}
    BY <1>1 DEF PrismaStart, HandleMigrate, HandleValidate, Diff, HandlePrismaTransform,
         HandlePrismaLint, ReadFileArgument, ReadStdin, InputMissing, Help, Usage, Begin, Exit,
         PrismaLint, WriteMigration, PrismaDied, CrashInWrite, WriteFails, Crash, Throw,
         PrismaDeveloper, Again, Edit
  <2>2. QED
    BY <2>1 DEF WarnInv
<1>2. ASSUME Lint \/ Relint
      PROVE  WarnInv'
  <2>1. pc \in {"lint", "relint"} /\ UNCHANGED <<source, text, disk>>
    BY <1>2 DEF Lint, Relint, commandVars, files
  <2>2. PICK r \in Answers(IF pc = "lint" THEN Wrapped ELSE Script, TRUE) :
          pc' \in {"threw", "relint"} \/ UseResult(r)
    BY <1>2, LintCases DEF Throw
  <2>3. CASE pc' \notin {"chunk", "write"}
    BY <2>3 DEF WarnInv
  <2>4. CASE UseResult(r) /\ pc' = "write"
    <3>1. parts' = <<r.sql>> /\ Report(r.diags) \subseteq reported'
      BY <2>4 DEF UseResult
    <3>2. Input' = Input /\ Input \in Contentses /\ Input # <<>>
      BY <2>1, InputType DEF Input, TypeInv, HandOK, InHand
    <3>3. ASSUME ~Async(Input), "WARNING" \notin reported'
          PROVE  ~Async(parts')
      <4>1. Script \in Seq(Plain)
        BY <3>2, <3>3, AsyncMeans DEF Script
      <4>2. <<"begin">> \in Seq(Plain) /\ <<"commit">> \in Seq(Plain)
        BY DEF Plain, Kinds, Control
      <4>3. \A a, b \in Seq(Plain) : a \o b \in Seq(Plain)
        OBVIOUS
      <4>4. Wrapped \in Seq(Plain)
        BY <4>1, <4>2, <4>3, Zenon DEF Wrapped, WrapInTransaction
      <4>5. r.sql \in Seq(Plain)
        BY <3>1, <3>3, <4>1, <4>4, AnswerAsync
      <4>6. parts' \in Seq(Seq(Plain))
        BY <3>1, <4>5
      <4>7. parts' \in Contentses
        BY <4>6 DEF Contentses, Plain
      <4>8. QED
        BY <4>6, <4>7, AsyncMeans
    <3>4. QED
      BY <2>4, <3>2, <3>3 DEF WarnInv
  <2>5. QED
    BY <2>2, <2>3, <2>4 DEF UseResult, Exit
<1>3. QED
  BY <1>1, <1>2 DEF PrismaProcess

\* The invariant holds.
LEMMA WarnKept == Spec => []WarnInv
<1>1. Init => WarnInv
  BY DEF Init, CliInit, WarnInv
<1>2. TypeInv /\ WarnInv /\ Next => WarnInv'
  BY WorldStays, NextCases, DrizzleWarns, PrismaWarns
<1>3. WarnInv /\ UNCHANGED vars => WarnInv'
  BY DEF vars, world, files, drizzleVars, WarnInv, Input, Async
<1>4. TypeInv /\ WarnInv /\ [Next]_vars => WarnInv'
  BY <1>2, <1>3
<1>5. QED
  BY <1>1, <1>4, TypesKept, PTL DEF Spec

\* A write that puts an asynchronous index into a file that had none comes after
\* the warning of it was printed, in drizzle's loop over chunks, whose reports are
\* collected first, as in prisma's two runs of the linter.
THEOREM AsyncIndexesAreWarnedOf == Spec => WarnedBeforeWritten
<1> DEFINE Warned == pc = "write" /\ disk' # disk /\ "indexAsync" \in KindsIn(disk'[target]) \ KindsIn(Input) =>
                       "WARNING" \in reported
<1>1. ASSUME TypeInv, WarnInv, Next
      PROVE  Warned
  <2>1. SUFFICES ASSUME pc = "write", disk' # disk,
                        "indexAsync" \in KindsIn(disk'[target]), "indexAsync" \notin KindsIn(Input)
                 PROVE  "WARNING" \in reported
    OBVIOUS
  <2>2. Write(Output) \/ \E n \in 0..(Len(Output) - 1) : WriteCut(Output, n)
    BY <1>1, <2>1, FileSteps DEF files, Edit
  <2>3. PICK d \in Contentses : disk' = [disk EXCEPT ![target] = d] /\ KindsIn(d) \subseteq KindsIn(Output)
    BY <1>1, <2>2, OutputType, Writes
  <2>4. disk'[target] = d
    BY <1>1, <2>3 DEF TypeInv, FilesOK, ScriptOK
  <2>5. Async(parts) /\ ~Async(Input)
    BY <1>1, <2>1, <2>3, <2>4, OutputType DEF Async
  <2>6. QED
    BY <1>1, <2>1, <2>5 DEF WarnInv
<1>2. TypeInv /\ WarnInv /\ [Next]_vars => [Warned]_<<pc, disk>>
  BY <1>1 DEF vars, files
<1>3. QED
  BY <1>2, TypesKept, WarnKept, PTL DEF Spec, WarnedBeforeWritten

-----------------------------------------------------------------------------
(* Settled scripts.                                                        *)

\* Nothing is left to do in this statement list: no fix, no comment, no split.
SettledScript(s) ==
  \A j \in DOMAIN s : s[j] \notin Unready \cup {"note"} /\ ~ToSplit(s, {k \in DOMAIN s : SameTx(s, j, k)})

\* The chunks of a settled file are settled scripts.
LEMMA SettledChunks ==
  ASSUME NEW c
  PROVE  Settled(c) => \A i \in DOMAIN c : SettledScript(c[i]) /\ (Len(c) > 1 => c[i] # <<>>)
BY DEF Settled, SettledScript

\* The linter finds nothing to do in one.
LEMMA SettledFixedSql ==
  ASSUME NEW s \in Seq(Kinds), SettledScript(s), NEW r
  PROVE  FixedSql(r, s) = s
<1>1. SplitIn(r, s) = {}
  <2>1. SUFFICES ASSUME NEW i \in DOMAIN s, NeedsSplit(s, i) PROVE FALSE
    BY DEF SplitIn
  <2>2. ToSplit(s, {j \in DOMAIN s : InBlock(s, j) /\ SameTx(s, i, j)})
    BY <2>1 DEF NeedsSplit
  <2>3. ToSplit(s, {j \in DOMAIN s : SameTx(s, i, j)})
    BY <2>2 DEF ToSplit, TooMuch
  <2>4. QED
    BY <2>3 DEF SettledScript
<1>2. \A i \in DOMAIN s : Rewritten(s, i, {}) = <<s[i]>>
  <2>1. SUFFICES ASSUME NEW i \in DOMAIN s PROVE Rewritten(s, i, {}) = <<s[i]>>
    OBVIOUS
  <2>2. s[i] # "note" /\ s[i] # "typed" /\ s[i] # "index"
    BY DEF SettledScript, Unready
  <2>3. Fix(s[i]) = s[i]
    BY <2>2 DEF Fix, Fixes
  <2>4. QED
    BY <2>2, <2>3 DEF Rewritten
<1>3. Pieces(r, s) = [i \in DOMAIN s |-> <<s[i]>>]
  BY <1>1, <1>2 DEF Pieces
<1>4. QED
  BY <1>3, FixedSqlIs, FlattenSingletons

\* Nor to split in it, put in a transaction.
LEMMA SettledNeedsNoSplit ==
  ASSUME NEW s \in Seq(Kinds), SettledScript(s), ~SkipsSplitting(s), NEW r
  PROVE  ~SplitsTransaction(Diagnostics(r, WrapInTransaction(s)))
<1> DEFINE w == <<"begin">> \o s \o <<"commit">>
<1>1. WrapInTransaction(s) = w
  BY DEF WrapInTransaction
<1>2. /\ DOMAIN w = 1..(Len(s) + 2) /\ w[1] = "begin" /\ w[Len(s) + 2] = "commit"
      /\ \A p \in 2..(Len(s) + 1) : w[p] = s[p - 1] /\ p - 1 \in DOMAIN s
  OBVIOUS
<1> HIDE DEF w
<1>3. SUFFICES ASSUME SplitsTransaction(Diagnostics(r, w)) PROVE FALSE
  BY <1>1
<1>4. PICK d \in Diagnostics(r, w) : d.rule = "multi_ddl_transaction"
  BY <1>3 DEF SplitsTransaction
<1>5. PICK i \in DOMAIN w : NeedsSplit(w, i)
  <2>1. ASSUME NEW i \in DOMAIN w, w[i] \in Unready, d = OfStatement(w, i)
        PROVE  FALSE
    <3>1. d.rule = w[i]
      BY <2>1 DEF OfStatement
    <3>2. QED
      BY <1>4, <2>1, <3>1 DEF Unready
  <2>2. QED
    BY <2>1, DiagnosticsAre
<1>6. PICK p \in DOMAIN w, q \in DOMAIN w :
        /\ p # q /\ w[p] \in Ddl /\ w[q] \in Ddl \cup {"insert"}
        /\ w[p] \notin Unsplit /\ w[q] \notin Unsplit
  BY <1>5 DEF NeedsSplit, ToSplit, TooMuch
<1>7. p \in 2..(Len(s) + 1) /\ q \in 2..(Len(s) + 1)
  <2>1. w[p] \notin {"begin", "commit"} /\ w[q] \notin {"begin", "commit"}
    BY <1>6 DEF Ddl
  <2>2. p # 1 /\ q # 1 /\ p # Len(s) + 2 /\ q # Len(s) + 2
    BY <1>2, <2>1
  <2>3. Len(s) \in Nat
    OBVIOUS
  <2>4. QED
    BY <1>2, <2>2, <2>3
<1>8. /\ p - 1 \in DOMAIN s /\ q - 1 \in DOMAIN s /\ p - 1 # q - 1
      /\ s[p - 1] \in Ddl /\ s[q - 1] \in Ddl \cup {"insert"}
      /\ s[p - 1] \notin Unsplit /\ s[q - 1] \notin Unsplit
  BY <1>2, <1>6, <1>7
<1>9. \A k \in DOMAIN s : Ends(s, k) = {}
  BY DEF Ends, SkipsSplitting, SplitSkipReason
<1>10. {k \in DOMAIN s : SameTx(s, p - 1, k)} = DOMAIN s
  BY <1>8, <1>9 DEF SameTx
<1>11. ToSplit(s, DOMAIN s)
  BY <1>8 DEF ToSplit, TooMuch
<1>12. QED
  BY <1>8, <1>10, <1>11 DEF SettledScript

\* What transformMigration gives for a settled script is that script.
LEMMA SettledAnswer ==
  ASSUME NEW s \in Seq(Kinds), SettledScript(s), NEW r \in Answers(s, TRUE), r.exit \in Fine
  PROVE  r.sql = s
BY FineAnswer, SettledFixedSql

\* The chunks that are sent are all of a settled file.
LEMMA SettledChunksOf ==
  ASSUME NEW c \in Contentses, Settled(c), c # <<>>
  PROVE  ChunksOf(c) = c /\ Joined(c) = c
<1>1. CASE Marked(c)
  <2>1. \A i \in DOMAIN c : c[i] # <<>>
    BY <1>1 DEF Marked, Settled
  <2>2. [i \in DOMAIN c |-> IF c[i] = <<>> THEN <<>> ELSE <<c[i]>>] = [i \in DOMAIN c |-> <<c[i]>>]
    BY <2>1
  <2>3. FlattenSeq([i \in DOMAIN c |-> <<c[i]>>]) = c
    BY FlattenSingletons DEF Contentses
  <2>4. QED
    BY <1>1, <2>2, <2>3 DEF ChunksOf, Joined
<1>2. CASE ~Marked(c)
  BY <1>2 DEF ChunksOf, Joined
<1>3. QED
  BY <1>1, <1>2

-----------------------------------------------------------------------------
(* Settled files.                                                          *)

\* Of a settled input nothing is changed, chunk by chunk.
SettledInv ==
  /\ tool = "drizzle" /\ pc \in {"chunk", "write"} /\ code \in Fine /\ Settled(Input) =>
       Joined(parts \o todo) = Input
  /\ tool = "prisma" /\ pc = "write" /\ Settled(Input) => parts = Input

\* A file is entered.
LEMMA EnterSettled ==
  ASSUME TypeInv, NEW content \in Contentses, TransformMigrationFile(content), Input' = content,
         content # <<>>, tool' = "drizzle"
  PROVE  SettledInv'
<1>1. CASE pc' = "threw"
  BY <1>1 DEF SettledInv
<1>2. CASE pc' = "chunk"
  <2>1. parts' = <<>> /\ todo' = ChunksOf(content)
    BY <1>2, EnterTypes
  <2>2. <<>> \o content = content
    BY ConcatEmptySeq, Zenon DEF Contentses
  <2>3. Settled(content) => Joined(parts' \o todo') = content
    BY <2>1, <2>2, SettledChunksOf, Zenon
  <2>4. QED
    BY <1>2, <2>3, Zenon DEF SettledInv
<1>3. QED
  BY <1>1, <1>2, EnterTypes

\* The chunk in hand is a chunk of the file.
LEMMA ChunkInHand ==
  ASSUME NEW p \in Contentses, NEW t \in Contentses, t # <<>>
  PROVE  /\ Joined(p \o t) = p \o t
         /\ Len(p) + 1 \in DOMAIN (p \o t) /\ (p \o t)[Len(p) + 1] = Head(t)
         /\ Append(p, Head(t)) \o Tail(t) = p \o t
         /\ Len(p \o t) <= 1 => p \o t = <<Head(t)>> /\ p \o Tail(t) = <<>>
<1>1. p \o t # <<>>
  BY DEF Contentses
<1>2. Joined(p \o t) = p \o t
  BY <1>1 DEF Joined
<1>3. Len(p) + 1 \in DOMAIN (p \o t) /\ (p \o t)[Len(p) + 1] = Head(t)
  BY DEF Contentses
<1>4. Append(p, Head(t)) \o Tail(t) = p \o t
  BY DEF Contentses
<1>5. ASSUME Len(p \o t) <= 1
      PROVE  p \o t = <<Head(t)>> /\ p \o Tail(t) = <<>>
  <2>1. Len(p) = 0 /\ Len(t) = 1
    <3>1. Len(p \o t) = Len(p) + Len(t) /\ Len(p) \in Nat /\ Len(t) \in Nat
      BY DEF Contentses
    <3>2. Len(t) # 0
      BY DEF Contentses
    <3>3. \A a, b \in Nat : a + b <= 1 /\ b # 0 => a = 0 /\ b = 1
      OBVIOUS
    <3>4. Len(p) + Len(t) <= 1
      BY <1>5, <3>1, Zenon
    <3>5. QED
      BY <3>1, <3>2, <3>3, <3>4, Zenon
  <2>2. p = <<>> /\ Tail(t) = <<>> /\ t = <<Head(t)>>
    <3>1. p = <<>>
      BY <2>1, EmptySeq, Zenon DEF Contentses
    <3>2. t = <<t[1]>> /\ Head(t) = t[1]
      BY <2>1 DEF Contentses
    <3>3. \A e : Tail(<<e>>) = <<>>
      OBVIOUS
    <3>4. Tail(t) = <<>>
      BY <3>2, <3>3, Zenon
    <3>5. QED
      BY <3>1, <3>2, <3>4, Zenon
  <2>3. <<>> \o t = t /\ <<>> \o <<>> = <<>>
    BY DEF Contentses
  <2>4. QED
    BY <2>2, <2>3, Zenon
<1>6. QED
  BY <1>2, <1>3, <1>4, <1>5

\* A chunk is transformed to itself.
LEMMA ChunkSettled ==
  ASSUME TypeInv, SettledInv, TransformChunk, tool = "drizzle", UNCHANGED world
  PROVE  SettledInv'
<1>1. PICK r \in Answers(Head(todo), TRUE) :
        IF r.threw \/ BreaksContract(r) THEN Throw
        ELSE /\ code' = WorseExitCode(code, r.exit)
             /\ parts' = IF r.sql = <<>> THEN parts ELSE Append(parts, r.sql)
             /\ todo' = Tail(todo) /\ pc' = pc
  BY DEF TransformChunk
<1>2. pc = "chunk" /\ todo # <<>> /\ Input' = Input
  BY DEF TransformChunk, files, processVars, Input
<1>3. parts \in Contentses /\ todo \in Contentses /\ Input \in Contentses /\ code \in Codes
  BY InputType DEF TypeInv, ScriptOK, DrizzleOK
<1>4. Head(todo) \in Seq(Kinds)
  BY <1>2, <1>3 DEF Contentses
<1>5. CASE r.threw \/ BreaksContract(r)
  BY <1>1, <1>5 DEF Throw, SettledInv
<1>6. ASSUME ~(r.threw \/ BreaksContract(r)), code' \in Fine, Settled(Input)
      PROVE  Joined(parts' \o todo') = Input
  <2>1. r.exit \in Codes
    BY <1>4, AnswerType DEF TypeInv, WorldOK
  <2>2. code \in Fine /\ r.exit \in Fine
    BY <1>1, <1>3, <1>6, <2>1, FineCodes
  <2>3. parts \o todo = Input
    BY <1>2, <1>3, <1>6, <2>2, ChunkInHand DEF SettledInv
  <2>4. SettledScript(Head(todo)) /\ (Len(Input) > 1 => Head(todo) # <<>>)
    <3>1. Len(parts) + 1 \in DOMAIN Input /\ Input[Len(parts) + 1] = Head(todo)
      BY <1>2, <1>3, <2>3, ChunkInHand, Zenon
    <3>2. QED
      BY <1>6, <3>1, SettledChunks
  <2>5. r.sql = Head(todo)
    BY <1>4, <2>2, <2>4, SettledAnswer
  <2>6. CASE Head(todo) # <<>>
    <3>1. parts' = Append(parts, Head(todo)) /\ todo' = Tail(todo)
      BY <1>1, <1>6, <2>5, <2>6
    <3>2. parts' \o todo' = parts \o todo
      BY <1>2, <1>3, <3>1, ChunkInHand, Zenon
    <3>3. QED
      BY <1>2, <1>3, <2>3, <3>2, ChunkInHand, Zenon
  <2>7. CASE Head(todo) = <<>>
    <3>1. parts' = parts /\ todo' = Tail(todo)
      BY <1>1, <1>6, <2>5, <2>7
    <3>2. Len(parts \o todo) <= 1
      BY <1>3, <2>3, <2>4, <2>7 DEF Contentses
    <3>3. parts \o todo = <<Head(todo)>> /\ parts \o Tail(todo) = <<>>
      BY <1>2, <1>3, <3>2, ChunkInHand, Zenon
    <3>4. QED
      BY <2>3, <2>7, <3>1, <3>3, Zenon DEF Joined, Empty
  <2>8. QED
    BY <2>6, <2>7
<1>7. CASE ~(r.threw \/ BreaksContract(r))
  <2>1. pc' = "chunk" /\ tool' = "drizzle"
    BY <1>1, <1>2, <1>7 DEF world
  <2>2. QED
    BY <1>2, <1>6, <1>7, <2>1 DEF SettledInv
<1>8. QED
  BY <1>5, <1>7

\* The steps of drizzle.
LEMMA DrizzleSettled ==
  ASSUME TypeInv, SettledInv, tool = "drizzle", UNCHANGED world,
         DrizzleStart \/ DrizzleProcess \/ Died \/ DrizzleDeveloper
  PROVE  SettledInv'
<1>0. tool' = "drizzle"
  BY DEF world
<1>1. CASE DrizzleStart \/ Died \/ DrizzleDeveloper \/ DrizzleKitGenerate \/ ListSqlFiles
            \/ GenerateDone \/ DrizzleLint \/ WriteFile
  <2>1. pc' \notin {"chunk", "write"}
    BY <1>1 DEF DrizzleStart, HandleGenerate, HandleTransform, HandleLint, ReadFileArgument,
         ReadStdin, InputMissing, Help, Usage, Begin, Exit, Died, CrashInWrite, WriteFails, Crash,
         Throw, DrizzleDeveloper, Again, Edit, DrizzleKitGenerate, ListSqlFiles, GenerateDone,
         DrizzleLint, WriteFile
  <2>2. QED
    BY <2>1 DEF SettledInv
<1>2. CASE ReadFile
  <2> DEFINE f == Min(queue)
  <2>1. \E g \in queue : g = f
    <3>1. TypeInv /\ pc = "file" /\ queue # {} /\ queue \subseteq Nat /\ queue \subseteq Files
      BY <1>2, StdinIsNoFile DEF ReadFile, TypeInv, DrizzleOK
    <3>2. f \in queue
      BY <3>1, MinOf
    <3>3. QED
      BY <3>1, <3>2
  <2> HIDE DEF f
  <2>2. /\ source' = f /\ TransformMigrationFile(disk[f]) /\ disk' = disk /\ pc = "file"
    BY <1>2 DEF ReadFile, f, files
  <2>3. disk[f] \in Contentses /\ f # Stdin /\ disk[f] # <<>>
    BY <2>1, <2>2, StdinIsNoFile DEF TypeInv, FilesOK, Targets, HandOK, DrizzleOK
  <2>4. Input' = disk[f]
    BY <2>2, <2>3 DEF Input
  <2>5. QED
    BY <1>0, <2>2, <2>3, <2>4, EnterSettled
<1>3. CASE TransformChunk
  BY <1>3, ChunkSettled
<1>4. ASSUME FileTransformed \/ ScriptTransformed
      PROVE  SettledInv'
  <2>1. pc = "chunk" /\ UNCHANGED <<disk, source, text, parts, todo, code>>
    BY <1>4 DEF FileTransformed, ScriptTransformed, files, processVars, drizzleVars, Exit
  <2>2. Input' = Input /\ Settled(Input') = Settled(Input)
    BY <2>1 DEF Input
  <2>3. QED
    BY <1>0, <2>1, <2>2 DEF SettledInv
<1>5. CASE ReadTransformInput
  <2>1. TransformMigrationFile(Input) /\ Input' = Input /\ pc = "read"
    BY <1>5 DEF ReadTransformInput, files, processVars, Input
  <2>2. Input # <<>>
    BY <2>1 DEF TypeInv, HandOK, InHand
  <2>3. QED
    BY <1>0, <2>1, <2>2, InputType, EnterSettled
<1>6. QED
  BY <1>1, <1>2, <1>3, <1>4, <1>5 DEF DrizzleProcess

\* The script in hand is all of the input.
LEMMA InputIsScript ==
  ASSUME TypeInv, OneChunk, tool = "prisma", pc \in InHand
  PROVE  Input = <<Script>>
<1>1. Input \in Contentses /\ Input # <<>>
  BY InputType DEF TypeInv, HandOK
<1>2. Len(Input) <= 1
  <2>1. Len(text) <= 1 /\ \A f \in Targets : Len(disk[f]) <= 1
    BY DEF OneChunk
  <2>2. source = Stdin \/ source \in Targets
    BY DEF TypeInv, ScriptOK, Sources, Targets
  <2>3. Input = text \/ \E f \in Targets : Input = disk[f]
    BY <2>2 DEF Input
  <2>4. QED
    BY <2>1, <2>3, Zenon
<1>3. QED
  BY <1>1, <1>2, OnlyChunk, Zenon DEF Script

\* The steps of prisma.
LEMMA PrismaSettled ==
  ASSUME TypeInv, OneChunk, SettledInv, tool = "prisma", UNCHANGED world,
         PrismaStart \/ PrismaProcess \/ PrismaDied \/ PrismaDeveloper
  PROVE  SettledInv'
<1>0. tool' = "prisma"
  BY DEF world
<1>1. CASE PrismaStart \/ PrismaLint \/ WriteMigration \/ PrismaDied \/ PrismaDeveloper
  <2>1. pc' \notin {"chunk", "write"}
    BY <1>1 DEF PrismaStart, HandleMigrate, HandleValidate, Diff, HandlePrismaTransform,
         HandlePrismaLint, ReadFileArgument, ReadStdin, InputMissing, Help, Usage, Begin, Exit,
         PrismaLint, WriteMigration, PrismaDied, CrashInWrite, WriteFails, Crash, Throw,
         PrismaDeveloper, Again, Edit
  <2>2. QED
    BY <2>1 DEF SettledInv
<1>2. ASSUME Lint \/ Relint
      PROVE  SettledInv'
  <2>1. pc \in {"lint", "relint"} /\ UNCHANGED <<source, text, disk>>
    BY <1>2 DEF Lint, Relint, commandVars, files
  <2>2. PICK r \in Answers(IF pc = "lint" THEN Wrapped ELSE Script, TRUE) :
          \/ pc' \in {"threw", "relint"}
          \/ UseResult(r) /\ (pc = "lint" => Wrapped = Script \/ SplitsTransaction(r.diags))
    BY <1>2, LintCases DEF Throw
  <2>3. CASE pc' # "write"
    BY <1>0, <2>3 DEF SettledInv
  <2>4. ASSUME UseResult(r), pc = "lint" => Wrapped = Script \/ SplitsTransaction(r.diags),
               pc' = "write", Settled(Input)
        PROVE  parts' = Input
    <3>1. parts' = <<r.sql>> /\ r.exit \in Fine
      BY <2>4 DEF UseResult, Fine, Exit
    <3>2. Script \in Seq(Kinds) /\ Wrapped \in Seq(Kinds) /\ Input = <<Script>>
      BY <2>1, ScriptType, InputIsScript DEF InHand
    <3>3. SettledScript(Script)
      <4>1. 1 \in DOMAIN <<Script>> /\ <<Script>>[1] = Script
        OBVIOUS
      <4>2. QED
        BY <2>4, <3>2, <4>1, SettledChunks, Zenon
    <3>4. pc = "lint" => Wrapped = Script
      <4>1. SUFFICES ASSUME pc = "lint", Wrapped # Script PROVE FALSE
        OBVIOUS
      <4>2. SplitsTransaction(r.diags) /\ r \in Answers(Wrapped, TRUE)
        BY <2>2, <2>4, <4>1
      <4>3. r.diags = Diagnostics(release, Wrapped)
        BY <3>1, <3>2, <4>2, FineAnswer
      <4>4. Wrapped = WrapInTransaction(Script) /\ ~SkipsSplitting(Script)
        BY <4>1 DEF Wrapped, WrapInTransaction
      <4>5. QED
        BY <3>2, <3>3, <4>2, <4>3, <4>4, SettledNeedsNoSplit
    <3>5. r \in Answers(Script, TRUE)
      BY <2>1, <3>4
    <3>6. r.sql = Script
      BY <3>1, <3>2, <3>3, <3>5, SettledAnswer
    <3>7. QED
      BY <3>1, <3>2, <3>6
  <2>5. Input' = Input
    BY <2>1 DEF Input
  <2>6. QED
    BY <1>0, <2>2, <2>3, <2>4, <2>5 DEF SettledInv
<1>3. QED
  BY <1>1, <1>2 DEF PrismaProcess

\* The invariant holds.
LEMMA SettledKept == Spec => []SettledInv
<1>1. Init => SettledInv
  BY DEF Init, CliInit, SettledInv
<1>2. TypeInv /\ OneChunk /\ SettledInv /\ Next => SettledInv'
  BY WorldStays, NextCases, DrizzleSettled, PrismaSettled
<1>3. SettledInv /\ UNCHANGED vars => SettledInv'
  BY DEF vars, world, files, drizzleVars, SettledInv, Input
<1>4. TypeInv /\ OneChunk /\ SettledInv /\ [Next]_vars => SettledInv'
  BY <1>2, <1>3
<1>5. QED
  BY <1>1, <1>4, TypesKept, OneChunkKept, PTL DEF Spec

\* A settled file that is transformed in place is written as it was, chunk for
\* chunk, unless the write is cut short: drizzle sends and joins its chunks
\* unchanged, and prisma's wrapping adds nothing that is kept.
THEOREM TransformingAgainChangesNothing == Spec => RerunChangesNothing
<1> DEFINE Same ==
      \A f \in Files \cup {Out} :
        pc = "write" /\ source = f /\ target = f /\ Settled(disk[f]) /\ code \in {0, 3} =>
          disk'[f] = disk[f] \/ f \in torn'
<1>1. ASSUME TypeInv, SaysInv, SettledInv, Next
      PROVE  Same
  <2>1. SUFFICES ASSUME NEW f \in Files \cup {Out}, pc = "write", source = f, target = f,
                        Settled(disk[f]), code \in {0, 3}
                 PROVE  disk'[f] = disk[f] \/ f \in torn'
    OBVIOUS
  <2>2. f \in Targets /\ f # Stdin /\ Input = disk[f]
    BY <2>1, StdinIsNoFile DEF Targets, Input
  <2>3. CASE UNCHANGED files
    BY <2>3 DEF files
  <2>4. CASE Write(Output) \/ \E n \in 0..(Len(Output) - 1) : WriteCut(Output, n)
    <3>1. PICK d \in Contentses :
            disk' = [disk EXCEPT ![target] = d] /\ (d = Output \/ torn' = torn \cup {target})
      BY <1>1, <2>4, OutputType, Writes
    <3>2. disk'[f] = d
      BY <1>1, <2>1, <2>2, <3>1 DEF TypeInv, FilesOK
    <3>3. Output = Input
      <4>1. CASE tool = "drizzle"
        <5>1. todo = <<>> /\ Joined(parts \o todo) = Input
          BY <1>1, <2>1, <2>2, <4>1 DEF SaysInv, SettledInv, Fine
        <5>2. parts \o <<>> = parts
          BY <1>1, ConcatEmptySeq, Zenon DEF TypeInv, ScriptOK, Contentses
        <5>3. QED
          BY <4>1, <5>1, <5>2, Zenon DEF Output
      <4>2. CASE tool = "prisma"
        BY <1>1, <2>1, <2>2, <4>2 DEF SettledInv, Output
      <4>3. QED
        BY <1>1, <4>1, <4>2 DEF TypeInv, WorldOK
    <3>4. QED
      BY <2>1, <2>2, <3>1, <3>2, <3>3
  <2>5. QED
    BY <1>1, <2>1, <2>3, <2>4, FileSteps DEF Edit
<1>2. TypeInv /\ SaysInv /\ SettledInv /\ [Next]_vars => [Same]_<<pc, disk, torn>>
  BY <1>1 DEF vars, files
<1>3. QED
  BY <1>2, TypesKept, SaysKept, SettledKept, PTL DEF Spec, RerunChangesNothing

-----------------------------------------------------------------------------
(* The wrapped script and its diagnostics.                                 *)

\* BEGIN on the first line moves no line.
LEMMA WrappedLines ==
  ASSUME NEW s \in Seq(Kinds), NEW w, w = <<"begin">> \o s \o <<"commit">>, NEW i \in DOMAIN s
  PROVE  Line(w, i + 1) = Line(s, i)
<1> DEFINE S == {j \in 1..i : s[j] # "begin"}
           T == {j \in 1..(i + 1) : w[j] # "begin"}
           f == [j \in S |-> j + 1]
<1>1. w[1] = "begin" /\ \A j \in 1..i : w[j + 1] = s[j]
  OBVIOUS
<1>2. i \in Nat
  OBVIOUS
<1> HIDE DEF S
<1>3. \A j \in T : j - 1 \in S /\ (j - 1) + 1 = j
  BY <1>1, <1>2 DEF S, T
<1>4. \A j \in S : j \in Nat /\ j + 1 \in T
  BY <1>1, <1>2 DEF S, T
<1> HIDE DEF T
<1>5. f \in [S -> T]
  BY <1>4
<1>6. \A a, b \in S : f[a] = f[b] => a = b
  BY <1>4
<1>7. \A t \in T : \E a \in S : f[a] = t
  BY <1>3
<1>8. f \in Bijection(S, T)
  BY <1>5, <1>6, <1>7 DEF Bijection, Injection, Surjection, IsInjective
<1>9. IsFiniteSet(S)
  <2>1. IsFiniteSet(1..i)
    BY <1>2, FS_Interval
  <2>2. S \in SUBSET (1..i)
    BY DEF S
  <2>3. QED
    BY <2>1, <2>2, FS_Subset
<1>10. Cardinality(T) = Cardinality(S)
  BY <1>8, <1>9, FS_Bijection DEF ExistsBijection
<1>11. QED
  BY <1>10 DEF Line, S, T

\* Where the statements of a wrapped script are.
LEMMA WrappedDomain ==
  ASSUME NEW s \in Seq(Kinds), NEW w, w = <<"begin">> \o s \o <<"commit">>
  PROVE  /\ \A i \in DOMAIN w : w[i] \notin {"begin", "commit"} => i - 1 \in DOMAIN s /\ w[i] = s[i - 1]
  OBVIOUS

\* A fix the wrapped script gets is one the plain script gets, or a split.
LEMMA WrappedStatements ==
  ASSUME NEW s \in Seq(Kinds), NEW i \in DOMAIN WrapInTransaction(s),
         WrapInTransaction(s)[i] \in Unready
  PROVE  \E k \in DOMAIN s : s[k] = WrapInTransaction(s)[i]
                              /\ OfStatement(s, k) = OfStatement(WrapInTransaction(s), i)
<1>1. CASE SkipsSplitting(s)
  BY <1>1 DEF WrapInTransaction
<1>2. ASSUME ~SkipsSplitting(s)
      PROVE \E k \in DOMAIN s : s[k] = WrapInTransaction(s)[i]
                              /\ OfStatement(s, k) = OfStatement(WrapInTransaction(s), i)
  <2> DEFINE w == WrapInTransaction(s)
  <2>1. w = <<"begin">> \o s \o <<"commit">> /\ i \in DOMAIN w /\ w[i] \in Unready
    BY <1>2 DEF WrapInTransaction
  <2> HIDE DEF w
  <2>2. w[i] \notin {"begin", "commit"}
    BY <2>1 DEF Unready
  <2>3. i - 1 \in DOMAIN s /\ w[i] = s[i - 1]
    BY <2>1, <2>2, WrappedDomain
  <2>4. Line(w, (i - 1) + 1) = Line(s, i - 1)
    BY <2>1, <2>3, WrappedLines
  <2>5. (i - 1) + 1 = i
    <3>1. i \in Int
      BY <2>1
    <3>2. QED
      BY <3>1
  <2>6. OfStatement(s, i - 1) = OfStatement(w, i)
    BY <2>3, <2>4, <2>5 DEF OfStatement
  <2>7. QED
    BY <2>3, <2>6 DEF w
<1>3. QED
  BY <1>1, <1>2

\* A fix that the wrapped script gets and that is no split, the plain one gets.
LEMMA WrappedFixes ==
  ASSUME NEW s \in Seq(Kinds), NEW r \in Releases, r # "renamed",
         ~SplitsTransaction(Diagnostics(r, WrapInTransaction(s)))
  PROVE  ~UnexpectedFix(Diagnostics(r, WrapInTransaction(s)), Diagnostics(r, s))
<1> DEFINE w == WrapInTransaction(s)
<1> HIDE DEF w
<1>1. SUFFICES ASSUME NEW d \in Diagnostics(r, w), d.status # "unfixable"
               PROVE  d \in Diagnostics(r, s)
  BY DEF UnexpectedFix, w
<1>2. ASSUME NEW i \in DOMAIN w, w[i] \in Unready, d = OfStatement(w, i)
      PROVE  d \in Diagnostics(r, s)
  <2>1. PICK k \in DOMAIN s : s[k] = w[i] /\ OfStatement(s, k) = OfStatement(w, i)
    BY <1>2, WrappedStatements DEF w
  <2>2. s[k] \in Unready /\ d = OfStatement(s, k)
    BY <1>2, <2>1
  <2>3. QED
    BY <2>2, DiagnosticsAre
<1>3. ASSUME NEW i \in DOMAIN w, d = OfBlock(r, w, i)
      PROVE  FALSE
  <2>1. d.rule = "multi_ddl_transaction"
    BY <1>3 DEF OfBlock, SplitRule
  <2>2. SplitsTransaction(Diagnostics(r, w))
    BY <1>1, <2>1 DEF SplitsTransaction
  <2>3. QED
    BY <2>2 DEF w
<1>4. QED
  BY <1>2, <1>3, DiagnosticsAre

\* A linter that can split the wrapped script finds nothing in it that it
\* cannot fix unless it finds it in the plain one.
LEMMA WrappedRefusal ==
  ASSUME NEW s \in Seq(Kinds), NEW r \in Releases,
         SplitsTransaction(Diagnostics(r, WrapInTransaction(s))),
         "unfixable" \in Statuses(Diagnostics(r, WrapInTransaction(s)))
  PROVE  "unfixable" \in Statuses(Diagnostics(r, s))
<1> DEFINE w == WrapInTransaction(s)
<1> HIDE DEF w
<1>1. r # "cannot"
  <2>1. PICK d \in Diagnostics(r, w) : d.rule = "multi_ddl_transaction" /\ d.status # "unfixable"
    BY DEF SplitsTransaction, w
  <2>2. ASSUME NEW i \in DOMAIN w, w[i] \in Unready, d = OfStatement(w, i)
        PROVE  FALSE
    <3>1. d.rule = w[i]
      BY <2>2 DEF OfStatement
    <3>2. QED
      BY <2>1, <2>2, <3>1 DEF Unready
  <2>3. PICK i \in DOMAIN w : d = OfBlock(r, w, i)
    BY <2>2, DiagnosticsAre
  <2>4. QED
    BY <2>1, <2>3 DEF OfBlock
<1>2. PICK e \in Diagnostics(r, w) : e.status = "unfixable"
  BY DEF Statuses, w
<1>3. PICK i \in DOMAIN w : w[i] \in Unready /\ e = OfStatement(w, i)
  <2>1. ASSUME NEW i \in DOMAIN w, e = OfBlock(r, w, i)
        PROVE  FALSE
    BY <1>1, <1>2, <2>1 DEF OfBlock
  <2>2. QED
    BY <2>1, DiagnosticsAre
<1>4. PICK k \in DOMAIN s : s[k] = w[i] /\ OfStatement(s, k) = OfStatement(w, i)
  BY <1>3, WrappedStatements DEF w
<1>5. e \in Diagnostics(r, s)
  <2>1. s[k] \in Unready /\ e = OfStatement(s, k)
    BY <1>3, <1>4
  <2>2. QED
    BY <2>1, DiagnosticsAre
<1>6. QED
  BY <1>2, <1>5 DEF Statuses

\* The linter cannot fix all of this script.
Refused(s) == "unfixable" \in Statuses(Diagnostics(release, s))

\* An answer that is as it should be.
LEMMA GoodAnswer ==
  ASSUME NEW s, NEW r \in Answers(s, TRUE), ~r.odd
  PROVE  /\ ~r.threw /\ ~BreaksContract(r)
         /\ r.diags = Diagnostics(release, s)
         /\ r.exit \in Fine <=> ~Refused(s)
<1>1. r = FixRun(release, s)
  BY AnswerCases, OddRunsAre
<1>2. /\ r.threw = FALSE /\ r.fixed = TRUE /\ r.diags = Diagnostics(release, s)
      /\ r.exit = FixExit(Diagnostics(release, s))
  BY <1>1, FixRunIs
<1>3. QED
  BY <1>2, FixExitIs DEF BreaksContract, Refused, Fine

-----------------------------------------------------------------------------
(* A schema that passed is migrated.                                       *)

\* No schema that passed has what the linter cannot fix; the wrapped run that
\* sent prisma on to the plain one was a sound one without a split; and a
\* migration of a schema that passed is under way or has ended well.
ValidInv ==
  /\ tool = "drizzle" => command # "migrate"
  /\ tool = "prisma" =>
       /\ \A c \in validated : c # <<>> /\ ~Refused(c[1])
       /\ command \in {"migrate", "validate"} => source = Stdin
       /\ pc = "relint" /\ ~failed =>
            wrappedDiags = Diagnostics(release, Wrapped) /\ ~SplitsTransaction(wrappedDiags)
       /\ command = "migrate" /\ text \in validated /\ ~failed /\ release # "renamed" =>
            pc \in {"lint", "relint", "write"} \/ (pc = "exited" /\ exitCode = 0)

\* What splits a transaction is what the release says of it.
LEMMA SplitIsWritten ==
  ASSUME NEW r, UseResult(r), command = "migrate", r.exit \in Fine
  PROVE  pc' = "write"
BY DEF UseResult, Fine

\* The two lints.
LEMMA LintValid ==
  ASSUME TypeInv, OneChunk, ValidInv, tool = "prisma", UNCHANGED world, Lint \/ Relint
  PROVE  ValidInv'
<1>1. /\ pc \in {"lint", "relint"} /\ command \in {"migrate", "validate", "transform"}
      /\ UNCHANGED <<source, text, disk, command, tool, release>>
  BY DEF Lint, Relint, commandVars, files, world, TypeInv, HandOK
<1>2. PICK r \in Answers(IF pc = "lint" THEN Wrapped ELSE Script, TRUE) :
        /\ failed' = (failed \/ r.odd)
        /\ \/ /\ Throw /\ UNCHANGED validated
              /\ \/ r.threw \/ BreaksContract(r)
                 \/ pc = "relint" /\ UnexpectedFix(wrappedDiags, r.diags)
           \/ /\ pc = "lint" /\ ~SplitsTransaction(r.diags)
              /\ pc' = "relint" /\ wrappedDiags' = r.diags /\ UNCHANGED validated
           \/ /\ UseResult(r)
              /\ pc = "lint" => Wrapped = Script \/ SplitsTransaction(r.diags)
  BY LintCases DEF Answered
<1>3. Script \in Seq(Kinds) /\ Wrapped \in Seq(Kinds) /\ Input = <<Script>> /\ release \in Releases
  BY <1>1, ScriptType, InputIsScript DEF InHand, TypeInv, WorldOK
<1>4. Input' = Input /\ Script' = Script /\ Wrapped' = Wrapped
  BY <1>1 DEF Input, Script, Wrapped
<1>5. command \in {"migrate", "validate"} => text = <<Script>>
  BY <1>1, <1>3 DEF ValidInv, Input
<1>6. \A c \in validated' : c # <<>> /\ ~Refused(c[1])'
  <2>1. \A c \in validated : c # <<>> /\ ~Refused(c[1])'
    BY <1>1 DEF ValidInv, Refused
  <2>2. CASE validated' = validated
    BY <2>1, <2>2
  <2>3. ASSUME UseResult(r), command = "validate", ~HasIssues(r)
        PROVE  \A c \in validated' : c # <<>> /\ ~Refused(c[1])'
    <3>1. Wrapped = Script
      BY <2>3 DEF Wrapped
    <3>2. r \in Answers(Script, TRUE)
      BY <3>1
    <3>3. r.exit \in Fine
      BY <2>3 DEF HasIssues, Fine
    <3>4. ~Refused(Script)
      BY <1>3, <3>2, <3>3, FineAnswer, GoodAnswer
    <3>5. text # <<>> /\ text[1] = Script
      BY <1>5, <2>3
    <3>6. ~Refused(text[1])'
      BY <1>1, <3>4, <3>5 DEF Refused
    <3>7. validated' = validated \cup {text}
      BY <2>3 DEF UseResult
    <3>8. QED
      BY <1>1, <2>1, <3>5, <3>6, <3>7
  <2>4. QED
    BY <1>2, <2>2, <2>3 DEF UseResult
<1>7. ASSUME pc' = "relint", ~failed'
      PROVE  wrappedDiags' = Diagnostics(release, Wrapped)' /\ ~SplitsTransaction(wrappedDiags)'
  <2>1. pc = "lint" /\ ~SplitsTransaction(r.diags) /\ wrappedDiags' = r.diags
    BY <1>2, <1>7 DEF UseResult, Throw, Exit
  <2>2. r.diags = Diagnostics(release, Wrapped)
    BY <1>2, <1>7, <2>1, GoodAnswer
  <2>3. QED
    BY <1>1, <1>4, <2>1, <2>2 DEF SplitsTransaction
<1>8. ASSUME command = "migrate", text \in validated, ~failed', release # "renamed"
      PROVE  pc' \in {"lint", "relint", "write"}
  <2>1. ~r.odd /\ ~failed
    BY <1>2, <1>8
  <2>2. ~Refused(Script)
    BY <1>5, <1>8 DEF ValidInv
  <2>3. ~r.threw /\ ~BreaksContract(r)
    BY <2>1, GoodAnswer
  <2>4. ASSUME pc = "relint"
        PROVE  ~UnexpectedFix(wrappedDiags, r.diags) /\ r.exit \in Fine
    <3>1. r.diags = Diagnostics(release, Script) /\ r.exit \in Fine
      BY <2>1, <2>2, <2>4, GoodAnswer
    <3>2. /\ wrappedDiags = Diagnostics(release, WrapInTransaction(Script))
          /\ ~SplitsTransaction(wrappedDiags)
      BY <1>8, <2>1, <2>4 DEF ValidInv, Wrapped
    <3>3. QED
      BY <1>3, <1>8, <3>1, <3>2, WrappedFixes
  <2>5. ASSUME pc = "lint", Wrapped = Script \/ SplitsTransaction(r.diags)
        PROVE  r.exit \in Fine
    <3>1. r.diags = Diagnostics(release, Wrapped) /\ (r.exit \in Fine <=> ~Refused(Wrapped))
      BY <2>1, <2>5, GoodAnswer
    <3>2. Wrapped = WrapInTransaction(Script)
      BY <1>8 DEF Wrapped
    <3>3. ~Refused(Wrapped)
      BY <1>3, <2>2, <2>5, <3>1, <3>2, WrappedRefusal DEF Refused
    <3>4. QED
      BY <3>1, <3>3
  <2>6. QED
    BY <1>1, <1>2, <1>8, <2>3, <2>4, <2>5, SplitIsWritten
<1>9. ASSUME command' = "migrate", text' \in validated', ~failed', release' # "renamed"
      PROVE  pc' \in {"lint", "relint", "write"}
  <2>1. validated' = validated
    BY <1>1, <1>2, <1>9 DEF UseResult
  <2>2. QED
    BY <1>1, <1>8, <1>9, <2>1
<1>10. QED
  BY <1>1, <1>6, <1>7, <1>9 DEF ValidInv

\* The other steps of prisma.
LEMMA PrismaValid ==
  ASSUME TypeInv, OneChunk, ValidInv, tool = "prisma", UNCHANGED world,
         PrismaStart \/ PrismaProcess \/ PrismaDied \/ PrismaDeveloper
  PROVE  ValidInv'
<1>1. tool' = "prisma" /\ release' = release
  BY DEF world
<1>2. CASE Lint \/ Relint
  BY <1>2, LintValid
<1>3. ASSUME validated' = validated, pc' # "relint",
             command' \in {"migrate", "validate"} => source' = Stdin,
             \/ command' # "migrate" \/ failed' \/ text' = <<>> \/ pc' = "lint"
             \/ /\ command = "migrate" /\ UNCHANGED <<text, failed>>
                /\ pc' = "exited" /\ exitCode' = 0
      PROVE  ValidInv'
  <2>1. \A c \in validated' : c # <<>> /\ ~Refused(c[1])'
    BY <1>1, <1>3 DEF ValidInv, Refused
  <2>2. QED
    BY <1>1, <1>3, <2>1 DEF ValidInv
<1>4. CASE PrismaStart
  BY <1>3, <1>4 DEF PrismaStart, HandleMigrate, HandleValidate, Diff, HandlePrismaTransform,
     HandlePrismaLint, ReadFileArgument, ReadStdin, InputMissing, NoInput, Help, Usage, Begin, Exit,
     prismaVars
<1>5. CASE PrismaLint
  BY <1>1, <1>3, <1>5 DEF PrismaLint, commandVars, Throw, Exit, prismaVars
<1>6. CASE WriteMigration
  BY <1>1, <1>3, <1>6 DEF WriteMigration, commandVars, Exit, prismaVars, ValidInv
<1>7. CASE PrismaDied
  BY <1>1, <1>3, <1>7 DEF PrismaDied, CrashInWrite, WriteFails, Crash, Throw, commandVars, prismaVars, ValidInv
<1>8. CASE PrismaDeveloper
  <2>1. CASE Again
    BY <1>3, <1>8, <2>1 DEF PrismaDeveloper, Again, prismaVars
  <2>2. ASSUME NEW f \in Targets, Edit(f)
        PROVE  ValidInv'
    <3>1. /\ pc = "idle" /\ pc' = pc /\ UNCHANGED <<command, source, text, failed, validated>>
      BY <1>8, <2>2 DEF PrismaDeveloper, Edit, prismaVars
    <3>2. \A c \in validated' : c # <<>> /\ ~Refused(c[1])'
      BY <1>1, <3>1 DEF ValidInv, Refused
    <3>3. QED
      BY <1>1, <3>1, <3>2 DEF ValidInv
  <2>3. QED
    BY <1>8, <2>1, <2>2 DEF PrismaDeveloper, Targets
<1>9. QED
  BY <1>2, <1>4, <1>5, <1>6, <1>7, <1>8 DEF PrismaProcess

\* The steps of drizzle.
LEMMA DrizzleValid ==
  ASSUME ValidInv, tool = "drizzle", UNCHANGED world,
         DrizzleStart \/ DrizzleProcess \/ Died \/ DrizzleDeveloper
  PROVE  ValidInv'
<1>1. tool' = "drizzle" /\ command # "migrate"
  BY DEF world, ValidInv
<1>2. command' # "migrate"
  BY <1>1 DEF DrizzleStart, HandleGenerate, HandleTransform, HandleLint, Help, Usage, Begin,
     Died, DrizzleDeveloper, Again, Edit, DrizzleProcess, DrizzleKitGenerate, ListSqlFiles, ReadFile,
     TransformChunk, FileTransformed, GenerateDone, ReadTransformInput, ScriptTransformed,
     DrizzleLint, WriteFile, processVars
<1>3. QED
  BY <1>1, <1>2 DEF ValidInv

\* The invariant holds.
LEMMA ValidKept == Spec => []ValidInv
<1>1. Init => ValidInv
  BY DEF Init, CliInit, PrismaInit, ValidInv
<1>2. TypeInv /\ OneChunk /\ ValidInv /\ Next => ValidInv'
  BY WorldStays, NextCases, DrizzleValid, PrismaValid
<1>3. ValidInv /\ UNCHANGED vars => ValidInv'
  BY DEF vars, world, files, drizzleVars, prismaVars, ValidInv, Refused, Input, Script, Wrapped
<1>4. TypeInv /\ OneChunk /\ ValidInv /\ [Next]_vars => ValidInv'
  BY <1>2, <1>3
<1>5. QED
  BY <1>1, <1>4, TypesKept, OneChunkKept, PTL DEF Spec

\* migrate ends with 0 on a schema that validate accepted, if the linter answers
\* and its split rule has the name the tool knows: migrate lints the wrapped
\* script and validate the plain one, and the findings of the first are those of
\* the second, on the same lines, and splits.
THEOREM ValidatedSchemasMigrate == Spec => []ValidSchemaMigrates
<1>1. TypeInv /\ ValidInv => ValidSchemaMigrates
  BY DEF TypeInv, WorldOK, ValidInv, ValidSchemaMigrates
<1>2. QED
  BY <1>1, TypesKept, ValidKept, PTL

-----------------------------------------------------------------------------
(* What the author put in a transaction of its own stays there.            *)

\* What the developer writes anew governs and is governed as before.
LEMMA NewTransactions ==
  ASSUME NEW s \in Seq(Kinds)
  PROVE  /\ DOMAIN MapOf(New, s) = DOMAIN s
         /\ \A i \in DOMAIN s : MapOf(New, s)[i] = "setLocal" <=> s[i] = "setLocal"
         /\ \A i, j \in DOMAIN s : SameTx(MapOf(New, s), i, j) <=> SameTx(s, i, j)
         /\ \A i \in DOMAIN s : IsImplicit(MapOf(New, s), i) <=> IsImplicit(s, i)
<1> DEFINE z == MapOf(New, s)
<1>1. DOMAIN z = DOMAIN s /\ \A i \in DOMAIN s : z[i] = New[s[i]]
  BY Zenon DEF MapOf
<1>2. \A i \in DOMAIN s : New[s[i]] = IF s[i] = "array" THEN "table" ELSE s[i]
  BY DEF New
<1>3. \A i \in DOMAIN s : /\ z[i] = "setLocal" <=> s[i] = "setLocal"
                          /\ z[i] = "begin" <=> s[i] = "begin"
                          /\ z[i] = "commit" <=> s[i] = "commit"
  BY <1>1, <1>2
<1> HIDE DEF z
<1>4. \A i \in DOMAIN s : Ends(z, i) = Ends(s, i)
  <2>1. TAKE i \in DOMAIN s
  <2>2. \A k \in 1..(i - 1) : k \in DOMAIN s
    OBVIOUS
  <2>3. QED
    BY <1>3, <2>2 DEF Ends
<1>5. \A i, j \in DOMAIN s : SameTx(z, i, j) <=> SameTx(s, i, j)
  BY <1>4 DEF SameTx
<1>6. \A i \in DOMAIN s : IsImplicit(z, i) <=> IsImplicit(s, i)
  BY <1>1, <1>3, <1>5 DEF IsImplicit
<1>7. QED
  BY <1>1, <1>3, <1>5, <1>6 DEF z

\* For the files as they were given and are, and for the script in hand.
AloneIn(c, d) == c # <<>> /\ d # <<>> /\ GrantsAlone(c[1]) => GrantsAlone(d[1])

\* In the files and in what is about to be written.
AloneInv ==
  tool = "prisma" =>
    /\ \A f \in Targets : AloneIn(given[f], disk[f])
    /\ pc = "write" => AloneIn(text, parts)

\* What the developer writes anew is alone when it was.
LEMMA NewGrants ==
  ASSUME NEW s \in Seq(Kinds)
  PROVE  GrantsAlone(MapOf(New, s)) <=> GrantsAlone(s)
<1> DEFINE z == MapOf(New, s)
<1>1. DOMAIN z = DOMAIN s /\ \A i \in DOMAIN s : z[i] = New[s[i]]
  BY Zenon DEF MapOf
<1>2. \A k \in Kinds : /\ New[k] \in Unsplit <=> k \in Unsplit
                       /\ New[k] \in Work <=> k \in Work
  BY DEF New, Kinds, Ddl, Control, Unsplit, Work
<1>3. \A i \in DOMAIN s : /\ z[i] \in Unsplit <=> s[i] \in Unsplit
                          /\ z[i] \in Work <=> s[i] \in Work
  BY <1>1, <1>2
<1>4. \A i, j \in DOMAIN s : SameTx(z, i, j) <=> SameTx(s, i, j)
  BY NewTransactions
<1> HIDE DEF z
<1>5. GrantsAlone(z) <=> GrantsAlone(s)
  BY <1>1, <1>3, <1>4 DEF GrantsAlone, Work
<1>6. QED
  BY <1>5 DEF z

\* The chunk of a file edited by hand.
LEMMA ByHandFirst ==
  ASSUME NEW b \in Contentses, b # <<>>
  PROVE  b[1] \in Seq(Kinds) /\ ByHand(b)[1] = MapOf(New, b[1])
<1>1. 1 \in DOMAIN b
  BY EmptySeq DEF Contentses
<1>2. b[1] \in Seq(Kinds)
  BY <1>1 DEF Contentses
<1>3. ByHand(b)[1] = [j \in DOMAIN b[1] |-> IF b[1][j] = "array" THEN "table" ELSE b[1][j]]
  BY <1>1, Zenon DEF ByHand
<1>4. \A j \in DOMAIN b[1] : (IF b[1][j] = "array" THEN "table" ELSE b[1][j]) = New[b[1][j]]
  BY <1>2 DEF New
<1>5. QED
  BY <1>2, <1>3, <1>4, Zenon DEF MapOf

\* Both versions of a file are edited by hand.
LEMMA AloneInByHand ==
  ASSUME NEW c \in Contentses, NEW d \in Contentses, AloneIn(c, d)
  PROVE  AloneIn(ByHand(c), ByHand(d))
<1>1. \A b \in Contentses : b # <<>> => GrantsAlone(ByHand(b)[1]) <=> GrantsAlone(b[1])
  <2>1. TAKE b \in Contentses
  <2>2. HAVE b # <<>>
  <2>3. b[1] \in Seq(Kinds) /\ ByHand(b)[1] = MapOf(New, b[1])
    BY <2>2, ByHandFirst
  <2>4. QED
    BY <2>3, NewGrants
<1>2. \A b \in Contentses : ByHand(b) # <<>> => b # <<>>
  BY DEF ByHand
<1>3. QED
  BY <1>1, <1>2 DEF AloneIn

\* What a step does to the files.
LEMMA FilesAlone ==
  ASSUME TypeInv, OneChunk, AloneInv, tool = "prisma", Next, NEW f \in Targets
  PROVE  AloneIn(given'[f], disk'[f])
<1>0. /\ disk \in [Targets -> Contentses] /\ given \in [Targets -> Contentses]
      /\ target \in Targets /\ parts \in Contentses /\ text \in Contentses /\ Output = parts
      /\ \A g \in Targets : AloneIn(given[g], disk[g])
  BY DEF TypeInv, FilesOK, ScriptOK, Output, AloneInv
<1>1. CASE UNCHANGED files
  BY <1>0, <1>1 DEF files
<1>2. CASE \E g \in Targets : Edit(g)
  <2>1. PICK g \in Targets :
          disk' = [disk EXCEPT ![g] = ByHand(@)] /\ given' = [given EXCEPT ![g] = ByHand(@)]
    BY <1>2 DEF Edit
  <2>2. /\ disk'[f] = (IF f = g THEN ByHand(disk[f]) ELSE disk[f])
        /\ given'[f] = (IF f = g THEN ByHand(given[f]) ELSE given[f])
    BY <1>0, <2>1
  <2>3. AloneIn(given[f], disk[f]) /\ given[f] \in Contentses /\ disk[f] \in Contentses
    BY <1>0
  <2>4. AloneIn(ByHand(given[f]), ByHand(disk[f]))
    BY <2>3, AloneInByHand, Zenon
  <2>5. QED
    BY <2>2, <2>3, <2>4, Zenon
<1>3. ASSUME pc = "write", Write(Output) \/ \E n \in 0..(Len(Output) - 1) : WriteCut(Output, n)
      PROVE  AloneIn(given'[f], disk'[f])
  <2>1. Len(parts) = 1
    BY <1>3 DEF OneChunk
  <2>2. PICK d \in Contentses :
          /\ disk' = [disk EXCEPT ![target] = d] /\ given' = [given EXCEPT ![target] = text]
          /\ d = parts \/ d \in {Empty} \cup {SubSeq(parts, 1, n) : n \in 1..(Len(parts) - 1)}
    BY <1>0, <1>3, <2>1, Writes
  <2>3. d = parts \/ d = Empty
    BY <2>1, <2>2
  <2>4. /\ disk'[f] = (IF f = target THEN d ELSE disk[f])
        /\ given'[f] = (IF f = target THEN text ELSE given[f])
    BY <1>0, <2>2
  <2>5. AloneIn(text, parts)
    BY <1>3 DEF AloneInv
  <2>6. AloneIn(text, Empty)
    <3>1. Empty[1] = <<>> /\ DOMAIN <<>> = {}
      BY DEF Empty
    <3>2. QED
      BY <3>1 DEF AloneIn, GrantsAlone
  <2>7. AloneIn(text, d)
    BY <2>3, <2>5, <2>6, Zenon
  <2>8. AloneIn(given[f], disk[f])
    BY <1>0
  <2>9. QED
    BY <2>4, <2>7, <2>8, Zenon
<1>4. QED
  BY <1>1, <1>2, <1>3, FileSteps

\* What the process reads.
LEMMA ScriptAlone ==
  ASSUME TypeInv, OneChunk, AloneInv, tool = "prisma", pc \in {"lint", "relint"}
  PROVE  AloneIn(text, <<Script>>)
<1>1. Input = <<Script>>
  BY InputIsScript DEF InHand
<1>2. CASE source = Stdin
  <2>1. Input = text
    BY <1>2 DEF Input
  <2>2. AloneIn(text, text)
    BY DEF AloneIn
  <2>3. QED
    BY <1>1, <2>1, <2>2, Zenon
<1>3. CASE source # Stdin
  <2>1. source \in Targets /\ text = given[source] /\ Input = disk[source]
    BY <1>3 DEF TypeInv, ScriptOK, HandOK, Sources, Targets, Input, InHand
  <2>2. AloneIn(given[source], disk[source])
    BY <2>1 DEF AloneInv
  <2>3. QED
    BY <1>1, <2>1, <2>2, Zenon
<1>4. QED
  BY <1>2, <1>3

\* A script with no commit is one transaction.
LEMMA NoCommitIsOne ==
  ASSUME NEW s \in Seq(Kinds), ~SkipsSplitting(s), NEW i \in DOMAIN s, NEW j \in DOMAIN s
  PROVE  SameTx(s, i, j)
<1>1. \A k \in DOMAIN s : Ends(s, k) = {}
  BY DEF Ends, SkipsSplitting, SplitSkipReason
<1>2. QED
  BY <1>1 DEF SameTx

\* Wrapping leaves alone what was.
LEMMA WrappedAlone ==
  ASSUME NEW s \in Seq(Kinds), GrantsAlone(s)
  PROVE  GrantsAlone(WrapInTransaction(s))
<1>1. CASE SkipsSplitting(s)
  BY <1>1 DEF WrapInTransaction
<1>2. CASE ~SkipsSplitting(s)
  <2> DEFINE w == <<"begin">> \o s \o <<"commit">>
  <2>1. WrapInTransaction(s) = w
    BY <1>2 DEF WrapInTransaction
  <2>2. /\ DOMAIN w = 1..(Len(s) + 2) /\ w[1] = "begin" /\ w[Len(s) + 2] = "commit" /\ Len(s) \in Nat
        /\ \A p \in 2..(Len(s) + 1) : w[p] = s[p - 1] /\ p - 1 \in DOMAIN s
    OBVIOUS
  <2> HIDE DEF w
  <2>3. SUFFICES ASSUME NEW p \in DOMAIN w, NEW q \in DOMAIN w, p # q, w[p] \in Unsplit, w[q] \in Work
                 PROVE  FALSE
    BY <2>1 DEF GrantsAlone, Work
  <2>4. p \in 2..(Len(s) + 1) /\ q \in 2..(Len(s) + 1)
    <3>1. w[p] \notin {"begin", "commit"} /\ w[q] \notin {"begin", "commit"}
      BY <2>3 DEF Unsplit, Work, Ddl
    <3>2. p # 1 /\ q # 1 /\ p # Len(s) + 2 /\ q # Len(s) + 2
      BY <2>2, <3>1
    <3>3. QED
      BY <2>2, <3>2
  <2>5. /\ p - 1 \in DOMAIN s /\ q - 1 \in DOMAIN s /\ p - 1 # q - 1
        /\ s[p - 1] \in Unsplit /\ s[q - 1] \in Work
    BY <2>2, <2>3, <2>4
  <2>6. SameTx(s, p - 1, q - 1)
    BY <1>2, <2>5, NoCommitIsOne
  <2>7. QED
    BY <2>5, <2>6 DEF GrantsAlone, Work
<1>3. QED
  BY <1>1, <1>2

\* What comes of the lints.
LEMMA LintAlone ==
  ASSUME TypeInv, OneChunk, AloneInv, tool = "prisma", Lint \/ Relint, pc' = "write"
  PROVE  AloneIn(text, parts')
<1>1. pc \in {"lint", "relint"}
  BY DEF Lint, Relint
<1>2. PICK r \in Answers(IF pc = "lint" THEN Wrapped ELSE Script, TRUE) : UseResult(r)
  BY LintCases DEF Throw
<1>3. parts' = <<r.sql>> /\ r.exit \in Fine
  BY <1>2 DEF UseResult, Fine, Exit
<1>4. Script \in Seq(Kinds) /\ Wrapped \in Seq(Kinds)
  BY <1>1, ScriptType DEF InHand
<1>5. r.sql = FixedSql(release, IF pc = "lint" THEN Wrapped ELSE Script)
  BY <1>3, <1>4, FineAnswer
<1>6. GrantsAlone(Script) => GrantsAlone(Wrapped)
  BY <1>4, WrappedAlone DEF Wrapped
<1>7. GrantsAlone(Script) => GrantsAlone(r.sql)
  BY <1>4, <1>5, <1>6, GrantsStayAlone
<1>8. AloneIn(text, <<Script>>)
  BY <1>1, ScriptAlone
<1>9. QED
  BY <1>3, <1>7, <1>8 DEF AloneIn

\* The invariant holds.
LEMMA AloneKept == Spec => []AloneInv
<1>1. Init => AloneInv
  BY DEF Init, CliInit, AloneInv, AloneIn, Migrated
<1>2. ASSUME TypeInv, OneChunk, AloneInv, Next
      PROVE  AloneInv'
  <2>1. UNCHANGED world
    BY <1>2, WorldStays
  <2>2. CASE tool = "drizzle"
    BY <2>1, <2>2 DEF world, AloneInv
  <2>3. CASE tool = "prisma"
    <3>1. \A f \in Targets : AloneIn(given'[f], disk'[f])
      BY <1>2, <2>3, FilesAlone
    <3>2. PrismaStart \/ PrismaProcess \/ PrismaDied \/ PrismaDeveloper
      BY <1>2, <2>3, NextCases
    <3>3. CASE Lint \/ Relint
      <4>1. UNCHANGED <<text, command>> /\ command \in {"migrate", "validate", "transform"}
        BY <1>2, <3>3 DEF Lint, Relint, commandVars, TypeInv, HandOK
      <4>2. ~Migrated'
        <5>1. pc' \in {"threw", "relint"} \/ \E r : UseResult(r)
          BY <1>2, <2>3, <3>3, LintCases DEF Throw
        <5>2. QED
          BY <4>1, <5>1 DEF Migrated, UseResult, Exit
      <4>3. pc' = "write" => AloneIn(text, parts')
        BY <1>2, <2>3, <3>3, LintAlone
      <4>4. QED
        BY <3>1, <4>1, <4>2, <4>3 DEF AloneInv
    <3>4. CASE PrismaStart \/ PrismaLint \/ PrismaDied \/ PrismaDeveloper
      <4>1. pc' # "write"
        BY <3>4 DEF PrismaStart, HandleMigrate, HandleValidate, Diff, HandlePrismaTransform,
             HandlePrismaLint, ReadFileArgument, ReadStdin, InputMissing, Help, Usage, Begin, Exit,
             PrismaLint, PrismaDied, CrashInWrite, WriteFails, Crash, Throw, PrismaDeveloper, Again, Edit
      <4>2. ~Migrated'
        BY <3>4 DEF PrismaStart, HandleMigrate, HandleValidate, Diff, HandlePrismaTransform,
             HandlePrismaLint, ReadFileArgument, ReadStdin, InputMissing, NoInput, Help, Usage, Begin, Exit,
             PrismaLint, PrismaDied, CrashInWrite, WriteFails, Crash, Throw, PrismaDeveloper, Again, Edit,
             Migrated, commandVars
      <4>3. QED
        BY <3>1, <4>1, <4>2 DEF AloneInv
    <3>5. CASE WriteMigration
      <4>1. /\ pc' = "exited" /\ UNCHANGED <<target, text>> /\ given' = [given EXCEPT ![target] = text]
        BY <3>5 DEF WriteMigration, Write, Wrote, Exit, commandVars
      <4>2. given'[target'] = text'
        BY <1>2, <4>1 DEF TypeInv, FilesOK, ScriptOK
      <4>3. QED
        BY <3>1, <4>1, <4>2 DEF AloneInv
    <3>6. QED
      BY <3>2, <3>3, <3>4, <3>5 DEF PrismaProcess
  <2>4. QED
    BY <1>2, <2>2, <2>3 DEF TypeInv, WorldOK
<1>3. AloneInv /\ UNCHANGED vars => AloneInv'
  BY DEF vars, world, files, AloneInv, Migrated
<1>4. TypeInv /\ OneChunk /\ AloneInv /\ [Next]_vars => AloneInv'
  BY <1>2, <1>3
<1>5. QED
  BY <1>1, <1>4, TypesKept, OneChunkKept, PTL DEF Spec

-----------------------------------------------------------------------------
(* What is written can be sent as one query.                               *)

\* Properties of the script the linter is given.
Enclosed(s) == \A i \in DOMAIN s : s[i] \in Work => InBlock(s, i)

\* A script that is not wrapped, and that nobody had to be told of.
LEMMA NotAdvised ==
  ASSUME NEW s \in Seq(Kinds), SkipsSplitting(s), ~Advised(s)
  PROVE  Enclosed(s)
<1>1. SUFFICES ASSUME NEW i \in DOMAIN s, s[i] \in Work PROVE InBlock(s, i)
  BY DEF Enclosed
<1>2. s[i] \notin Control \cup {"note"} /\ i \in Nat
  BY <1>1 DEF Work, Ddl, Control
<1>3. PICK j \in 1..(i - 1) : s[j] = "begin" /\ \A k \in j..(i - 1) : s[k] # "commit"
  BY <1>2 DEF Advised, HasStatementsOutsideTransaction
<1>4. j \in Nat \ {0} /\ j < i /\ j \in 1..i
  BY <1>2
<1>5. SameTx(s, j, i)
  BY <1>2, <1>3, <1>4, SameTxMeans
<1>6. QED
  BY <1>3, <1>4, <1>5 DEF InBlock, SameTx

\* A wrapped script.
LEMMA WrappedIsOne ==
  ASSUME NEW s \in Seq(Kinds), ~SkipsSplitting(s)
  PROVE  /\ WrapInTransaction(s) \in Seq(Kinds) /\ Enclosed(WrapInTransaction(s))
         /\ ToSplit(s, DOMAIN s) =>
              /\ 1 \in DOMAIN WrapInTransaction(s) /\ WrapInTransaction(s)[1] = "begin"
              /\ NeedsSplit(WrapInTransaction(s), 1) /\ Line(WrapInTransaction(s), 1) = 0
<1> DEFINE w == WrapInTransaction(s)
<1>1. w = <<"begin">> \o s \o <<"commit">> /\ w \in Seq(Kinds)
  BY WrappedType DEF WrapInTransaction
<1>2. /\ Len(w) = Len(s) + 2 /\ Len(s) \in Nat /\ w[1] = "begin"
      /\ \A p \in 2..(Len(s) + 1) : w[p] = s[p - 1] /\ p - 1 \in DOMAIN s
      /\ \A p \in DOMAIN s : w[p + 1] = s[p] /\ p + 1 \in DOMAIN w
  BY <1>1
<1> HIDE DEF w
<1>3. \A p \in 1..(Len(s) + 1) : w[p] # "commit"
  <2>1. \A p \in DOMAIN s : s[p] # "commit"
    BY DEF SkipsSplitting, SplitSkipReason
  <2>2. \A p \in 1..(Len(s) + 1) : p = 1 \/ p \in 2..(Len(s) + 1)
    BY <1>2
  <2>3. QED
    BY <1>2, <2>1, <2>2
<1>4. \A i \in DOMAIN w : SameTx(w, 1, i)
  <2>1. SUFFICES ASSUME NEW i \in 1..(Len(s) + 2), i # 1 PROVE SameTx(w, 1, i)
    BY <1>1, <1>2 DEF SameTx
  <2>2. \A k \in 1..(i - 1) : w[k] # "commit"
    BY <1>2, <1>3
  <2>3. QED
    BY <1>2, <2>1, <2>2, SameTxMeans
<1>5. \A i \in DOMAIN w : InBlock(w, i)
  BY <1>1, <1>2, <1>4 DEF InBlock, SameTx
<1>6. ASSUME ToSplit(s, DOMAIN s)
      PROVE  /\ 1 \in DOMAIN w /\ w[1] = "begin"
             /\ NeedsSplit(w, 1) /\ Line(w, 1) = 0
  <2>1. 1 \in DOMAIN w
    BY <1>1, <1>2
  <2> DEFINE P == {j \in DOMAIN w : InBlock(w, j) /\ SameTx(w, 1, j)}
  <2>2. P = DOMAIN w
    BY <1>4, <1>5
  <2> HIDE DEF P
  <2>3. PICK a \in DOMAIN s, b \in DOMAIN s :
          /\ a # b /\ s[a] \in Ddl /\ s[b] \in Ddl \cup {"insert"}
          /\ s[a] \notin Unsplit /\ s[b] \notin Unsplit
    BY <1>6 DEF ToSplit, TooMuch
  <2>4. /\ a + 1 \in P /\ b + 1 \in P /\ a + 1 # b + 1
        /\ w[a + 1] \in Ddl /\ w[b + 1] \in Ddl \cup {"insert"}
        /\ w[a + 1] \notin Unsplit /\ w[b + 1] \notin Unsplit
    BY <1>2, <2>2, <2>3
  <2>5. ToSplit(w, P)
    BY <2>4 DEF ToSplit, TooMuch
  <2>6. NeedsSplit(w, 1)
    BY <1>5, <2>1, <2>5 DEF NeedsSplit, P
  <2>7. {j \in 1..1 : w[j] # "begin"} = {}
    BY <1>2
  <2>8. QED
    BY <1>2, <2>1, <2>6, <2>7, FS_EmptySet DEF Line
<1>7. QED
  BY <1>1, <1>5, <1>6 DEF Enclosed, w

\* When the plain script has a finding on the line before its first statement
\* all its statements are in a block.
LEMMA BlockOnFirstLine ==
  ASSUME NEW s \in Seq(Kinds), ~SkipsSplitting(s), NEW i \in DOMAIN s, s[i] = "begin", Line(s, i) = 0
  PROVE  Enclosed(s)
<1>1. i \in Nat \ {0}
  OBVIOUS
<1>2. \A j \in 1..i : s[j] = "begin"
  <2> DEFINE S == {j \in 1..i : s[j] # "begin"}
  <2>1. IsFiniteSet(1..i)
    BY <1>1, FS_Interval
  <2>2. S \in SUBSET (1..i)
    OBVIOUS
  <2>3. IsFiniteSet(S)
    BY <2>1, <2>2, FS_Subset
  <2>4. S = {}
    BY <2>3, FS_EmptySet DEF Line
  <2>5. QED
    BY <2>4
<1>3. SUFFICES ASSUME NEW j \in DOMAIN s, s[j] \in Work PROVE InBlock(s, j)
  BY DEF Enclosed
<1>4. j \in Nat /\ i < j
  <2>1. s[j] # "begin"
    BY <1>3 DEF Work, Ddl
  <2>2. j \notin 1..i
    BY <1>2, <2>1
  <2>3. QED
    BY <1>1, <2>2
<1>5. \A k \in i..(j - 1) : s[k] # "commit"
  <2>1. \A k \in i..(j - 1) : k \in DOMAIN s
    BY <1>1, <1>4
  <2>2. QED
    BY <2>1 DEF SkipsSplitting, SplitSkipReason
<1>6. SameTx(s, i, j) /\ i \in 1..j
  BY <1>1, <1>4, <1>5, SameTxMeans
<1>7. QED
  BY <1>6 DEF InBlock, SameTx

\* What the tool accepts of a linter that can split.
LEMMA PlainIsOneDdl ==
  ASSUME NEW s \in Seq(Kinds), ~SkipsSplitting(s), NEW r \in Releases, r # "cannot",
         ~SplitsTransaction(Diagnostics(r, WrapInTransaction(s))),
         ~UnexpectedFix(Diagnostics(r, WrapInTransaction(s)), Diagnostics(r, s)),
         NEW all, all => GrantsAlone(s)
  PROVE  OneDdl(FixedSql(r, s), all)
<1> DEFINE w == WrapInTransaction(s)
           d == OfBlock(r, w, 1)
<1>1. CASE ~TooMuch(s, Counted(s, all))
  BY <1>1, FewStaysFew
<1>2. CASE TooMuch(s, Counted(s, all))
  <2>0. ToSplit(s, DOMAIN s)
    <3>1. PICK p \in Counted(s, all), q \in Counted(s, all) :
            p # q /\ s[p] \in Ddl /\ s[q] \in Ddl \cup {"insert"}
      BY <1>2 DEF TooMuch
    <3>2. p \in DOMAIN s /\ q \in DOMAIN s
      BY DEF Counted
    <3>3. SameTx(s, p, q) /\ SameTx(s, q, p)
      BY <3>2, NoCommitIsOne
    <3>4. s[p] \notin Unsplit /\ s[q] \notin Unsplit
      BY <3>1, <3>2, <3>3 DEF Counted, GrantsAlone
    <3>5. QED
      BY <3>1, <3>2, <3>4 DEF ToSplit, TooMuch
  <2>1. 1 \in DOMAIN w /\ w[1] = "begin" /\ NeedsSplit(w, 1) /\ Line(w, 1) = 0
    BY <2>0, WrappedIsOne
  <2> HIDE DEF w
  <2>2. d \in Diagnostics(r, w)
    BY <2>1, DiagnosticsAre
  <2>3. d.rule = SplitRule(r) /\ d.line = 0 /\ d.status # "unfixable"
    BY <2>1 DEF OfBlock
  <2> HIDE DEF d
  <2>4. r = "renamed"
    <3>1. r # "renamed" => d.rule = "multi_ddl_transaction"
      BY <2>3 DEF SplitRule
    <3>2. QED
      BY <2>2, <2>3, <3>1 DEF SplitsTransaction, w
  <2>5. d \in Diagnostics(r, s)
    BY <2>2, <2>3 DEF UnexpectedFix, w
  <2>6. ASSUME NEW i \in DOMAIN s, s[i] \in Unready, d = OfStatement(s, i)
        PROVE  FALSE
    <3>1. d.rule = s[i]
      BY <2>6 DEF OfStatement
    <3>2. QED
      BY <2>3, <2>4, <2>6, <3>1 DEF SplitRule, Unready
  <2>7. PICK i \in DOMAIN s : s[i] = "begin" /\ d = OfBlock(r, s, i)
    BY <2>5, <2>6, DiagnosticsAre
  <2>8. Line(s, i) = 0
    BY <2>3, <2>7 DEF OfBlock
  <2>9. QED
    BY <2>7, <2>8, BlockOnFirstLine, SplitIsOneDdl DEF Enclosed
<1>3. QED
  BY <1>1, <1>2

-----------------------------------------------------------------------------
\* What is written can be sent as one query.
QueryInv ==
  tool = "prisma" /\ "SKIPPED" \notin reported /\ ~failed /\ release # "cannot" =>
    /\ pc = "write" /\ text # <<>> => OneDdl(parts[1], GrantsAlone(text[1]))
    /\ Migrated => OneDdl(disk[target][1], GrantsAlone(text[1]))

\* The two lints.
LEMMA LintQuery ==
  ASSUME TypeInv, OneChunk, AloneInv, ValidInv, tool = "prisma", UNCHANGED world, Lint \/ Relint
  PROVE  QueryInv'
<1> DEFINE all == GrantsAlone(text[1])
<1>1. /\ pc \in {"lint", "relint"} /\ command \in {"migrate", "validate", "transform"}
      /\ UNCHANGED <<command, tool, release, text>> /\ release \in Releases
  BY DEF Lint, Relint, commandVars, files, world, TypeInv, HandOK, WorldOK
<1>2. PICK r \in Answers(IF pc = "lint" THEN Wrapped ELSE Script, TRUE) :
        /\ failed' = (failed \/ r.odd)
        /\ \/ pc' \in {"threw", "relint"}
           \/ /\ UseResult(r)
              /\ pc = "lint" => Wrapped = Script \/ SplitsTransaction(r.diags)
              /\ pc = "relint" => ~UnexpectedFix(wrappedDiags, r.diags)
  BY LintCases DEF Answered, Throw
<1>3. Script \in Seq(Kinds) /\ Wrapped \in Seq(Kinds)
  BY <1>1, ScriptType DEF InHand
<1> HIDE DEF all
<1>31. text # <<>> /\ all => GrantsAlone(Script)
  <2>1. AloneIn(text, <<Script>>)
    BY <1>1, ScriptAlone
  <2>2. QED
    BY <2>1 DEF AloneIn, all
<1>4. CASE pc' \in {"threw", "relint"}
  BY <1>4 DEF QueryInv, Migrated
<1>5. ASSUME UseResult(r), pc' = "exited"
      PROVE  ~Migrated'
  BY <1>1, <1>5 DEF UseResult, Exit, Migrated
<1>6. ASSUME UseResult(r), pc' = "write", "SKIPPED" \notin reported', ~failed', release # "cannot",
             text # <<>>, pc = "relint" => ~UnexpectedFix(wrappedDiags, r.diags)
      PROVE  OneDdl(parts'[1], all)
  <2>1. /\ command # "validate" /\ ~Advised(Script)
        /\ parts' = <<r.sql>>
    BY <1>6 DEF UseResult, Exit, Advisory
  <2>2. ~r.odd /\ ~failed /\ Wrapped = WrapInTransaction(Script)
    BY <1>2, <1>6, <2>1 DEF Wrapped
  <2>3. /\ pc = "lint" => r.sql = FixedSql(release, Wrapped)
        /\ pc = "relint" => r.sql = FixedSql(release, Script) /\ r.diags = Diagnostics(release, Script)
    <3>1. r = FixRun(release, IF pc = "lint" THEN Wrapped ELSE Script)
      BY <2>2, AnswerCases, OddRunsAre
    <3>2. QED
      BY <3>1, FixRunIs
  <2>4. CASE SkipsSplitting(Script)
    <3>1. Wrapped = Script
      BY <2>2, <2>4 DEF WrapInTransaction
    <3>2. r.sql = FixedSql(release, Script)
      BY <1>1, <2>3, <3>1
    <3>3. OneDdl(FixedSql(release, Script), all)
      BY <1>3, <1>6, <1>31, <2>1, <2>4, NotAdvised, SplitIsOneDdl DEF Enclosed
    <3>4. QED
      BY <2>1, <3>2, <3>3
  <2>5. CASE ~SkipsSplitting(Script) /\ pc = "lint"
    <3>0. all => GrantsAlone(Wrapped)
      BY <1>3, <1>6, <1>31, <2>2, WrappedAlone
    <3>1. OneDdl(FixedSql(release, Wrapped), all)
      BY <1>3, <1>6, <2>2, <2>5, <3>0, WrappedIsOne, SplitIsOneDdl DEF Enclosed
    <3>2. QED
      BY <2>1, <2>3, <2>5, <3>1
  <2>6. CASE ~SkipsSplitting(Script) /\ pc = "relint"
    <3>1. /\ wrappedDiags = Diagnostics(release, WrapInTransaction(Script))
          /\ ~SplitsTransaction(wrappedDiags)
      BY <2>2, <2>6 DEF ValidInv
    <3>2. OneDdl(FixedSql(release, Script), all)
      BY <1>1, <1>3, <1>31, <1>6, <2>3, <2>6, <3>1, PlainIsOneDdl
    <3>3. QED
      BY <2>1, <2>3, <2>6, <3>2
  <2>7. QED
    BY <1>1, <2>4, <2>5, <2>6
<1>7. QED
  BY <1>1, <1>2, <1>4, <1>5, <1>6 DEF QueryInv, UseResult, Exit, Migrated, all

\* The other steps of prisma.
LEMMA PrismaQuery ==
  ASSUME TypeInv, OneChunk, AloneInv, ValidInv, QueryInv, tool = "prisma", UNCHANGED world,
         PrismaStart \/ PrismaProcess \/ PrismaDied \/ PrismaDeveloper
  PROVE  QueryInv'
<1>1. CASE Lint \/ Relint
  BY <1>1, LintQuery
<1>2. CASE PrismaStart \/ PrismaLint \/ PrismaDied \/ PrismaDeveloper
  <2>1. pc' # "write"
    BY <1>2 DEF PrismaStart, HandleMigrate, HandleValidate, Diff, HandlePrismaTransform,
         HandlePrismaLint, ReadFileArgument, ReadStdin, InputMissing, Help, Usage, Begin, Exit,
         PrismaLint, PrismaDied, CrashInWrite, WriteFails, Crash, Throw, PrismaDeveloper, Again, Edit
  <2>2. ~Migrated'
    BY <1>2 DEF PrismaStart, HandleMigrate, HandleValidate, Diff, HandlePrismaTransform,
         HandlePrismaLint, ReadFileArgument, ReadStdin, InputMissing, NoInput, Help, Usage, Begin, Exit,
         PrismaLint, PrismaDied, CrashInWrite, WriteFails, Crash, Throw, PrismaDeveloper, Again, Edit,
         Migrated, commandVars
  <2>3. QED
    BY <2>1, <2>2 DEF QueryInv
<1>3. CASE WriteMigration
  <2>1. /\ pc = "write" /\ pc' = "exited" /\ disk' = [disk EXCEPT ![target] = parts]
        /\ UNCHANGED <<tool, release, reported, failed, target, text>>
    BY <1>3 DEF WriteMigration, Write, Wrote, Exit, commandVars, world
  <2>2. disk'[target'] = parts
    BY <2>1 DEF TypeInv, FilesOK, ScriptOK
  <2>3. QED
    BY <2>1, <2>2 DEF QueryInv, Migrated
<1>4. QED
  BY <1>1, <1>2, <1>3 DEF PrismaProcess

\* The invariant holds.
LEMMA QueryKept == Spec => []QueryInv
<1>1. Init => QueryInv
  BY DEF Init, CliInit, QueryInv, Migrated
<1>2. ASSUME TypeInv, OneChunk, AloneInv, ValidInv, QueryInv, Next
      PROVE  QueryInv'
  <2>1. UNCHANGED world
    BY <1>2, WorldStays
  <2>2. CASE tool = "drizzle"
    BY <2>1, <2>2 DEF world, QueryInv
  <2>3. CASE tool = "prisma"
    BY <1>2, <2>1, <2>3, NextCases, PrismaQuery
  <2>4. QED
    BY <1>2, <2>2, <2>3 DEF TypeInv, WorldOK
<1>3. QueryInv /\ UNCHANGED vars => QueryInv'
  BY DEF vars, world, files, QueryInv, Migrated
<1>4. TypeInv /\ OneChunk /\ AloneInv /\ ValidInv /\ QueryInv /\ [Next]_vars => QueryInv'
  BY <1>2, <1>3
<1>5. QED
  BY <1>1, <1>4, TypesKept, OneChunkKept, AloneKept, ValidKept, PTL DEF Spec

\* What migrate and transform write with 0 or 3 can be sent to Aurora DSQL as one
\* query: no transaction of it, the implicit one included, holds two DDL
\* statements or DDL and data. The developer was told otherwise (SKIPPED), or the
\* linter failed or cannot split. CREATE ROLE, CREATE DOMAIN, GRANT and COMMENT ON
\* are not split off: they count when each was in a transaction of its own in what
\* the author wrote, and it still is.
THEOREM ScriptsAreOneQuery == Spec => []OneDdlPerTransaction
<1>1. QueryInv => OneDdlPerTransaction
  BY DEF QueryInv, OneDdlPerTransaction, OneDdl
<1>2. QED
  BY <1>1, QueryKept, PTL

-----------------------------------------------------------------------------
(* Settings keep holding for what they held for.                           *)

\* A setting holds for what has been written anew.
LEMMA NewGoverned ==
  ASSUME NEW s \in Seq(Kinds), NEW i \in DOMAIN s
  PROVE  Governed(MapOf(New, s), i) = MapOf(New, Governed(s, i))
<1> DEFINE z == MapOf(New, s)
           x == [j \in DOMAIN s |-> IF j > i /\ SameTx(s, i, j) THEN Said(s[j]) ELSE <<>>]
           y == [j \in DOMAIN x |-> MapOf(New, x[j])]
<1>1. New \in [Kinds -> Kinds]
  BY DEF New, Kinds, Ddl
<1>2. x \in Seq(Seq(Kinds))
  <2>1. Len(s) \in 0..Len(s) /\ DOMAIN s = 1..Len(s)
    OBVIOUS
  <2>2. x = FollowsUpTo(s, i, Len(s))
    BY <2>1 DEF FollowsUpTo
  <2>3. QED
    BY <2>1, <2>2, FollowsType
<1>3. FlattenSeq(y) = MapOf(New, FlattenSeq(x))
  <2> HIDE DEF x
  <2>1. QED
    BY <1>1, <1>2, MapFlatten, Zenon
<1>4. DOMAIN z = DOMAIN s /\ \A j \in DOMAIN s : z[j] = New[s[j]]
  BY Zenon DEF MapOf
<1>5. \A j \in DOMAIN s : SameTx(z, i, j) <=> SameTx(s, i, j)
  BY NewTransactions
<1>6. \A j \in DOMAIN s : Said(z[j]) = MapOf(New, Said(s[j]))
  <2>1. \A j \in DOMAIN s : s[j] \in Kinds
    OBVIOUS
  <2>2. QED
    BY <1>4, <2>1, NewSays, Zenon
<1>7. MapOf(New, <<>>) = <<>>
  BY DEF MapOf
<1> HIDE DEF z
<1>8. \A j \in DOMAIN s : (IF j > i /\ SameTx(z, i, j) THEN Said(z[j]) ELSE <<>>)
                            = MapOf(New, IF j > i /\ SameTx(s, i, j) THEN Said(s[j]) ELSE <<>>)
  <2>1. TAKE j \in DOMAIN s
  <2>2. CASE j > i /\ SameTx(s, i, j)
    BY <1>5, <1>6, <2>2, Zenon
  <2>3. CASE ~(j > i /\ SameTx(s, i, j))
    BY <1>5, <1>7, <2>3, Zenon
  <2>4. QED
    BY <2>2, <2>3
<1>9. [j \in DOMAIN z |-> IF j > i /\ SameTx(z, i, j) THEN Said(z[j]) ELSE <<>>] = y
  BY <1>4, <1>8, Zenon
<1>10. Governed(z, i) = FlattenSeq(y) /\ Governed(s, i) = FlattenSeq(x)
  <2>1. Governed(z, i) = FlattenSeq(y)
    <3> HIDE DEF y
    <3>1. QED
      BY <1>9, Zenon DEF Governed
  <2>2. Governed(s, i) = FlattenSeq(x)
    BY Zenon DEF Governed
  <2>3. QED
    BY <2>1, <2>2, Zenon
<1> HIDE DEF x, y
<1>11. QED
  BY <1>3, <1>10, Zenon DEF z

\* A rewriting of both scripts keeps the settings.
LEMMA NewKeeps ==
  ASSUME NEW s \in Seq(Kinds), NEW w \in Seq(Kinds), Keeps(s, w)
  PROVE  Keeps(MapOf(New, s), MapOf(New, w))
<1>1. SUFFICES ASSUME NEW i \in DOMAIN MapOf(New, s), MapOf(New, s)[i] = "setLocal", IsImplicit(MapOf(New, s), i)
               PROVE  \E j \in DOMAIN MapOf(New, w) :
                        /\ MapOf(New, w)[j] = "setLocal" /\ IsImplicit(MapOf(New, w), j)
                        /\ Governed(MapOf(New, w), j) = Governed(MapOf(New, s), i)
  BY Zenon DEF Keeps
<1>2. i \in DOMAIN s /\ s[i] = "setLocal" /\ IsImplicit(s, i)
  BY <1>1, NewTransactions, Zenon
<1>3. PICK j \in DOMAIN w : w[j] = "setLocal" /\ IsImplicit(w, j) /\ Governed(w, j) = Governed(s, i)
  BY <1>2, Zenon DEF Keeps
<1>4. j \in DOMAIN MapOf(New, w) /\ MapOf(New, w)[j] = "setLocal" /\ IsImplicit(MapOf(New, w), j)
  BY <1>3, NewTransactions, Zenon
<1>5. Governed(MapOf(New, w), j) = MapOf(New, Governed(w, j))
  BY NewGoverned, Zenon
<1>6. Governed(MapOf(New, s), i) = MapOf(New, Governed(s, i))
  BY <1>2, NewGoverned, Zenon
<1>7. QED
  BY <1>3, <1>4, <1>5, <1>6, Zenon

-----------------------------------------------------------------------------
\* For the files as they were given and are, and for the script in hand.
KeepsIn(c, d) == c # <<>> /\ d # <<>> => Keeps(c[1], d[1])

\* The files keep the settings of what was given, and so does what is about to
\* be written; what was written is of the script in hand, and there.
KeepInv ==
  tool = "prisma" =>
    /\ \A f \in Targets \ torn : KeepsIn(given[f], disk[f])
    /\ pc = "write" /\ source \notin torn => KeepsIn(text, parts)
    /\ Migrated => given[target] = text /\ disk[target] # <<>>

\* A file keeps its own.
LEMMA KeepsInSame ==
  ASSUME NEW c \in Contentses
  PROVE  KeepsIn(c, c)
BY Zenon DEF KeepsIn, Keeps

\* Both versions of a file are edited by hand.
LEMMA KeepsInByHand ==
  ASSUME NEW c \in Contentses, NEW d \in Contentses, KeepsIn(c, d)
  PROVE  KeepsIn(ByHand(c), ByHand(d))
<1>1. \A b \in Contentses : b # <<>> => b[1] \in Seq(Kinds) /\ ByHand(b)[1] = MapOf(New, b[1])
  BY ByHandFirst
<1>2. \A b \in Contentses : ByHand(b) # <<>> => b # <<>>
  BY DEF ByHand
<1>3. SUFFICES ASSUME ByHand(c) # <<>>, ByHand(d) # <<>>
               PROVE  Keeps(ByHand(c)[1], ByHand(d)[1])
  BY DEF KeepsIn
<1>4. c # <<>> /\ d # <<>>
  BY <1>2, <1>3
<1>5. Keeps(MapOf(New, c[1]), MapOf(New, d[1]))
  BY <1>1, <1>4, NewKeeps, Zenon DEF KeepsIn
<1>6. QED
  BY <1>1, <1>4, <1>5, Zenon

\* What a step does to the files.
LEMMA FilesKeep ==
  ASSUME TypeInv, KeepInv, tool = "prisma", Next, NEW f \in Targets \ torn'
  PROVE  KeepsIn(given'[f], disk'[f])
<1>0. /\ disk \in [Targets -> Contentses] /\ given \in [Targets -> Contentses]
      /\ target \in Targets /\ parts \in Contentses /\ text \in Contentses /\ Output = parts
      /\ \A g \in Targets \ torn : KeepsIn(given[g], disk[g])
  BY DEF TypeInv, FilesOK, ScriptOK, Output, KeepInv
<1>1. CASE UNCHANGED files
  BY <1>0, <1>1 DEF files
<1>2. CASE \E g \in Targets : Edit(g)
  <2>1. PICK g \in Targets :
          /\ disk' = [disk EXCEPT ![g] = ByHand(@)] /\ given' = [given EXCEPT ![g] = ByHand(@)]
          /\ UNCHANGED torn
    BY <1>2 DEF Edit
  <2>2. /\ disk'[f] = (IF f = g THEN ByHand(disk[f]) ELSE disk[f])
        /\ given'[f] = (IF f = g THEN ByHand(given[f]) ELSE given[f])
    BY <1>0, <2>1
  <2>3. KeepsIn(given[f], disk[f]) /\ given[f] \in Contentses /\ disk[f] \in Contentses
    BY <1>0, <2>1
  <2>4. KeepsIn(ByHand(given[f]), ByHand(disk[f]))
    BY <2>3, KeepsInByHand, Zenon
  <2>5. QED
    BY <2>2, <2>3, <2>4, Zenon
<1>3. ASSUME pc = "write", Write(Output) \/ \E n \in 0..(Len(Output) - 1) : WriteCut(Output, n)
      PROVE  KeepsIn(given'[f], disk'[f])
  <2>1. PICK d \in Contentses :
           /\ disk' = [disk EXCEPT ![target] = d] /\ given' = [given EXCEPT ![target] = text]
           /\ (d = Output /\ Write(Output)) \/ torn' = torn \cup {target}
    BY <1>3, OutputType, Writes
  <2>2. /\ disk'[f] = (IF f = target THEN d ELSE disk[f])
        /\ given'[f] = (IF f = target THEN text ELSE given[f])
    BY <1>0, <2>1
  <2>3. CASE f = target
    <3>1. d = parts /\ source \notin torn
      BY <1>0, <2>1, <2>3 DEF Write
    <3>2. KeepsIn(text, parts)
      BY <1>3, <3>1 DEF KeepInv
    <3>3. QED
      BY <2>2, <2>3, <3>1, <3>2, Zenon
  <2>4. CASE f # target
    <3>1. f \in Targets \ torn
      BY <2>1, <2>4 DEF Write
    <3>2. QED
      BY <1>0, <2>2, <2>4, <3>1, Zenon
  <2>5. QED
    BY <2>3, <2>4
<1>4. QED
  BY <1>1, <1>2, <1>3, FileSteps

\* What comes of the lints: a wrapped script has no setting.
LEMMA LintKeeps ==
  ASSUME TypeInv, OneChunk, KeepInv, tool = "prisma", Lint \/ Relint, pc' = "write", source \notin torn
  PROVE  KeepsIn(text, parts')
<1>1. pc \in {"lint", "relint"}
  BY DEF Lint, Relint
<1>2. PICK r \in Answers(IF pc = "lint" THEN Wrapped ELSE Script, TRUE) : UseResult(r)
  BY LintCases DEF Throw
<1>3. parts' = <<r.sql>> /\ r.exit \in Fine
  BY <1>2 DEF UseResult, Fine, Exit
<1>4. Script \in Seq(Kinds) /\ Wrapped \in Seq(Kinds) /\ Input = <<Script>>
  BY <1>1, ScriptType, InputIsScript DEF InHand
<1>5. r.sql = FixedSql(release, IF pc = "lint" THEN Wrapped ELSE Script)
  BY <1>3, <1>4, FineAnswer
<1>6. Keeps(Script, r.sql)
  <2>1. CASE Wrapped = Script
    BY <1>4, <1>5, <2>1, FixedSqlKeeps
  <2>2. CASE Wrapped # Script
    <3>1. ~SkipsSplitting(Script)
      BY <2>2 DEF Wrapped, WrapInTransaction
    <3>2. \A i \in DOMAIN Script : Script[i] # "setLocal"
      BY <3>1 DEF SkipsSplitting, SplitSkipReason
    <3>3. QED
      BY <3>2 DEF Keeps
  <2>3. QED
    BY <2>1, <2>2
<1>7. KeepsIn(text, Input)
  <2>1. CASE source = Stdin
    <3>1. Input = text /\ text \in Contentses
      BY <2>1 DEF Input, TypeInv, ScriptOK
    <3>2. QED
      BY <3>1, KeepsInSame, Zenon
  <2>2. CASE source # Stdin
    <3>1. source \in Targets \ torn /\ text = given[source] /\ Input = disk[source]
      BY <1>1, <2>2 DEF TypeInv, ScriptOK, HandOK, Sources, Targets, Input, InHand
    <3>2. QED
      BY <3>1 DEF KeepInv
  <2>3. QED
    BY <2>1, <2>2
<1>8. SUFFICES ASSUME text # <<>> PROVE Keeps(text[1], r.sql)
  <2>1. parts'[1] = r.sql
    BY <1>3
  <2>2. QED
    BY <2>1, Zenon DEF KeepsIn
<1>9. Input[1] = Script /\ Input # <<>>
  BY <1>4
<1>10. Keeps(text[1], Script)
  BY <1>7, <1>8, <1>9 DEF KeepsIn
<1>11. QED
  BY <1>6, <1>10, KeepsTransitive, Zenon

\* The steps of prisma.
LEMMA PrismaKeepsSettings ==
  ASSUME TypeInv, OneChunk, KeepInv, tool = "prisma", UNCHANGED world, Next,
         PrismaStart \/ PrismaProcess \/ PrismaDied \/ PrismaDeveloper
  PROVE  KeepInv'
<1>1. \A f \in Targets \ torn' : KeepsIn(given'[f], disk'[f])
  BY FilesKeep
<1>2. CASE Lint \/ Relint
  <2>1. UNCHANGED <<source, text, torn>>
    BY <1>2 DEF Lint, Relint, commandVars, files
  <2>2. ~Migrated'
    <3>1. command' = command /\ command \in {"migrate", "validate", "transform"}
      BY <1>2 DEF Lint, Relint, commandVars, TypeInv, HandOK
    <3>2. pc' \in {"threw", "relint"} \/ \E r : UseResult(r)
      BY <1>2, LintCases DEF Throw
    <3>3. QED
      BY <3>1, <3>2 DEF Migrated, UseResult, Exit
  <2>3. pc' = "write" /\ source \notin torn => KeepsIn(text, parts')
    BY <1>2, LintKeeps
  <2>4. QED
    BY <1>1, <2>1, <2>2, <2>3 DEF KeepInv
<1>3. CASE PrismaStart \/ PrismaLint \/ PrismaDied \/ PrismaDeveloper
  <2>1. pc' # "write"
    BY <1>3 DEF PrismaStart, HandleMigrate, HandleValidate, Diff, HandlePrismaTransform,
         HandlePrismaLint, ReadFileArgument, ReadStdin, InputMissing, Help, Usage, Begin, Exit,
         PrismaLint, PrismaDied, CrashInWrite, WriteFails, Crash, Throw, PrismaDeveloper, Again, Edit
  <2>2. ~Migrated'
    BY <1>3 DEF PrismaStart, HandleMigrate, HandleValidate, Diff, HandlePrismaTransform,
         HandlePrismaLint, ReadFileArgument, ReadStdin, InputMissing, NoInput, Help, Usage, Begin, Exit,
         PrismaLint, PrismaDied, CrashInWrite, WriteFails, Crash, Throw, PrismaDeveloper, Again, Edit,
         Migrated, commandVars
  <2>3. QED
    BY <1>1, <2>1, <2>2 DEF KeepInv
<1>4. CASE WriteMigration
  <2>1. /\ pc = "write" /\ pc' = "exited" /\ UNCHANGED <<target, text>>
        /\ given' = [given EXCEPT ![target] = text] /\ disk' = [disk EXCEPT ![target] = parts]
    BY <1>4 DEF WriteMigration, Write, Wrote, Exit, commandVars
  <2>2. parts # <<>>
    BY <2>1 DEF OneChunk
  <2>3. given'[target'] = text' /\ disk'[target'] # <<>>
    BY <2>1, <2>2 DEF TypeInv, FilesOK, ScriptOK
  <2>4. QED
    BY <1>1, <2>1, <2>3 DEF KeepInv
<1>5. QED
  BY <1>2, <1>3, <1>4 DEF PrismaProcess

\* The invariant holds.
LEMMA KeepKept == Spec => []KeepInv
<1>1. Init => KeepInv
  <2>1. SUFFICES ASSUME Init PROVE KeepInv
    OBVIOUS
  <2>2. TypeInv /\ given = disk /\ pc = "idle"
    BY <2>1, InitTypes DEF Init, CliInit
  <2>3. \A f \in Targets : KeepsIn(given[f], disk[f])
    BY <2>2, KeepsInSame DEF TypeInv, FilesOK
  <2>4. QED
    BY <2>2, <2>3 DEF KeepInv, Migrated
<1>2. ASSUME TypeInv, OneChunk, KeepInv, Next
      PROVE  KeepInv'
  <2>1. UNCHANGED world
    BY <1>2, WorldStays
  <2>2. CASE tool = "drizzle"
    BY <2>1, <2>2 DEF world, KeepInv
  <2>3. CASE tool = "prisma"
    BY <1>2, <2>1, <2>3, NextCases, PrismaKeepsSettings
  <2>4. QED
    BY <1>2, <2>2, <2>3 DEF TypeInv, WorldOK
<1>3. KeepInv /\ UNCHANGED vars => KeepInv'
  BY DEF vars, world, files, KeepInv, Migrated
<1>4. TypeInv /\ OneChunk /\ KeepInv /\ [Next]_vars => KeepInv'
  BY <1>2, <1>3
<1>5. QED
  BY <1>1, <1>4, TypesKept, OneChunkKept, PTL DEF Spec

\* A SET LOCAL of a transaction the author left to Prisma holds, in what migrate
\* and transform wrote, for the statements it held for in what the author wrote:
\* wrapInTransaction leaves a script with a setting alone, and no fix of the
\* linter ends such a transaction early.
THEOREM SettingsHoldForTheSame == Spec => []SettingsKeepTheirStatements
<1>1. TypeInv /\ KeepInv => SettingsKeepTheirStatements
  <2>1. SUFFICES ASSUME TypeInv, KeepInv, tool = "prisma", Migrated, target \notin torn
                 PROVE  SettingsKeepTheirStatements
    BY DEF SettingsKeepTheirStatements
  <2>2. KeepsIn(text, disk[target]) /\ text # <<>>
    BY <2>1 DEF KeepInv, Migrated, TypeInv, ScriptOK
  <2>3. disk[target] # <<>>
    BY <2>1 DEF KeepInv
  <2>4. QED
    BY <2>2, <2>3 DEF KeepsIn, Keeps, SettingsKeepTheirStatements
<1>2. QED
  BY <1>1, TypesKept, KeepKept, PTL
=============================================================================
