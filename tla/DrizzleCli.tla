----------------------------- MODULE DrizzleCli -----------------------------
(***************************************************************************)
(* aurora-dsql-drizzle: generate (drizzle-kit, then every migration file   *)
(* transformed in place), transform (one file) and lint, of                *)
(* node/drizzle/src/cli. A file is transformed chunk by chunk, one run of  *)
(* dsql-lint each, and written back when the worst code of its chunks      *)
(* allows it.                                                              *)
(***************************************************************************)
EXTENDS CliProcess

VARIABLES
  queue,   \* generate: the files still to be transformed, in the order of their names
  todo,    \* chunks of the file in hand still to be transformed
  shown,   \* statuses of its outputs, printed when all are there
  worst,   \* generate: worst code over the files
  seen     \* history: every code of this invocation that was counted

drizzleVars == <<queue, todo, shown, worst, seen>>
processVars == <<command, source, target, text>>

DrizzleInit ==
  queue = {} /\ todo = <<>> /\ shown = {} /\ worst = 0 /\ seen = {}

-----------------------------------------------------------------------------
(* Exit codes.                                                             *)

\* Mutant: an unexpected code outranks an unfixable statement.
ExitRankUnexpectedFirst(c) ==
  CASE c = 0 -> 0 [] c = 3 -> 1 [] c = 2 -> 2 [] c = 1 -> 3 [] OTHER -> 4

ExitRank(c) ==
  CASE c = 0 -> 0 [] c = 3 -> 1 [] c = 2 -> 2 [] c = 1 -> 4 [] OTHER -> 3

\* Mutant: the larger number is the worse code.
LargerExitCode(a, b) == IF b > a THEN b ELSE a

\* Mutant: the codes are added up.
SumOfExitCodes(a, b) == a + b

WorseExitCode(a, b) == IF ExitRank(b) > ExitRank(a) THEN b ELSE a

-----------------------------------------------------------------------------
(* A migration file.                                                       *)

\* splitSqlStatements cuts at every ";": a comment belongs to the statement
\* after it, and one after the last statement counts as a statement.
CountStatements(chunk) ==
  Len(SelectSeq(chunk, LAMBDA k : k # "note"))
    + (IF chunk # <<>> /\ chunk[Len(chunk)] = "note" THEN 1 ELSE 0)

IsMultiStatement(chunk) == CountStatements(chunk) > 1

Marked(content) == Len(content) > 1

\* The chunks transformMigrationFile sends to the linter: of a file with
\* markers those that are not blank.
ChunksOf(content) ==
  IF Marked(content)
  THEN FlattenSeq([i \in DOMAIN content |-> IF content[i] = <<>> THEN <<>> ELSE <<content[i]>>])
  ELSE content

\* The transformed chunks, joined by markers.
Joined(chunks) == IF chunks = <<>> THEN Empty ELSE chunks

\* Mutant: the parts of the file before are kept.
TransformMigrationFileKeepsParts(content) ==
  /\ code' = 0 /\ shown' = {} /\ UNCHANGED parts
  /\ IF ~Marked(content) /\ IsMultiStatement(content[1])
     THEN Throw /\ todo' = <<>>
     ELSE pc' = "chunk" /\ todo' = ChunksOf(content) /\ UNCHANGED exitCode

\* Enter transformMigrationFile with this content, or be refused by it.
TransformMigrationFile(content) ==
  /\ code' = 0 /\ parts' = <<>> /\ shown' = {}
  /\ IF ~Marked(content) /\ IsMultiStatement(content[1])
     THEN Throw /\ todo' = <<>>
     ELSE pc' = "chunk" /\ todo' = ChunksOf(content) /\ UNCHANGED exitCode

\* The loop over the chunks: transformMigration throws, or adds its part.
TransformChunk ==
  /\ pc = "chunk" /\ todo # <<>>
  /\ \E r \in Answers(Head(todo), TRUE) :
       /\ Answered(r)
       /\ IF r.threw \/ BreaksContract(r)
          THEN Throw /\ UNCHANGED <<code, parts, shown, todo, seen>>
          ELSE /\ seen' = seen \cup {r.exit}
               /\ code' = WorseExitCode(code, r.exit)
               /\ parts' = IF r.sql = <<>> THEN parts ELSE Append(parts, r.sql)
               /\ shown' = shown \cup Report(r.diags)
               /\ todo' = Tail(todo)
               /\ UNCHANGED <<pc, exitCode>>
  /\ UNCHANGED <<world, files, invocations, processVars, reported, queue, worst>>

-----------------------------------------------------------------------------
(* generate.                                                               *)

HandleGenerate ==
  /\ Begin("generate") /\ NoInput /\ pc' = "kit"
  /\ queue' = {} /\ todo' = <<>> /\ shown' = {} /\ worst' = 0 /\ seen' = {}
  /\ UNCHANGED exitCode

\* drizzle-kit generate writes one migration, or finds no change, or fails.
DrizzleKitGenerate ==
  /\ pc = "kit"
  /\ \/ /\ \E c \in Contents : NewFile(c)
        /\ pc' = "readdir" /\ UNCHANGED <<exitCode, failed>>
     \/ pc' = "readdir" /\ UNCHANGED <<files, exitCode, failed>>
     \/ Exit(1) /\ failed' = TRUE /\ UNCHANGED files
  /\ UNCHANGED <<world, invocations, faults, processVars, code, parts, reported, drizzleVars>>

\* The directory's .sql files, sorted; without files the directory may be
\* missing, which is an error.
ListSqlFiles ==
  /\ pc = "readdir"
  /\ \/ (\A f \in Files : disk[f] = Absent) /\ Exit(1) /\ UNCHANGED queue
     \/ /\ queue' = {f \in Files : disk[f] # Absent}
        /\ pc' = "file" /\ UNCHANGED exitCode
  /\ UNCHANGED <<world, files, invocations, faults, processVars, code, parts, reported, failed,
                 todo, shown, worst, seen>>

ReadFile ==
  /\ pc = "file" /\ queue # {}
  /\ source' = Min(queue) /\ target' = Min(queue) /\ text' = given[Min(queue)]
  /\ queue' = queue \ {Min(queue)}
  /\ TransformMigrationFile(disk[Min(queue)])
  /\ reported' = {}
  /\ UNCHANGED <<world, files, invocations, faults, command, failed, worst, seen>>

\* Mutant: the code of the last file is the code of the command.
FileTransformedLastWins ==
  /\ pc = "chunk" /\ todo = <<>> /\ command = "generate"
  /\ reported' = reported \cup shown
  /\ worst' = code
  /\ pc' = IF code = 1 THEN "file" ELSE "write"
  /\ UNCHANGED <<world, files, invocations, faults, processVars, exitCode, code, parts, failed,
                 queue, todo, shown, seen>>

\* Mutant: the diagnostics are printed only when nothing is left to fix.
FileTransformedSilently ==
  /\ pc = "chunk" /\ todo = <<>> /\ command = "generate"
  /\ reported' = IF code = 1 THEN reported \cup shown ELSE reported
  /\ worst' = WorseExitCode(worst, code)
  /\ pc' = IF code = 1 THEN "file" ELSE "write"
  /\ UNCHANGED <<world, files, invocations, faults, processVars, exitCode, code, parts, failed,
                 queue, todo, shown, seen>>

\* The file's diagnostics are printed; with unfixable statements it stays.
FileTransformed ==
  /\ pc = "chunk" /\ todo = <<>> /\ command = "generate"
  /\ reported' = reported \cup shown
  /\ worst' = WorseExitCode(worst, code)
  /\ pc' = IF code = 1 THEN "file" ELSE "write"
  /\ UNCHANGED <<world, files, invocations, faults, processVars, exitCode, code, parts, failed,
                 queue, todo, shown, seen>>

GenerateDone ==
  /\ pc = "file" /\ queue = {}
  /\ Exit(worst)
  /\ UNCHANGED <<world, files, invocations, faults, processVars, code, parts, reported, failed,
                 drizzleVars>>

-----------------------------------------------------------------------------
(* transform and lint.                                                     *)

HandleTransform ==
  /\ Begin("transform")
  /\ ReadFileArgument("read") \/ ReadStdin("read") \/ InputMissing
  /\ queue' = {} /\ todo' = <<>> /\ shown' = {} /\ worst' = 0 /\ seen' = {}

ReadTransformInput ==
  /\ pc = "read" /\ command = "transform"
  /\ TransformMigrationFile(Input)
  /\ UNCHANGED <<world, files, invocations, faults, processVars, reported, failed, queue, worst, seen>>

\* Mutant: whatever the linter made of the script is written.
ScriptTransformedAlways ==
  /\ pc = "chunk" /\ todo = <<>> /\ command = "transform"
  /\ reported' = reported \cup shown
  /\ pc' = "write"
  /\ UNCHANGED <<world, files, invocations, faults, processVars, exitCode, code, parts, failed, drizzleVars>>

\* Any code but 0 and 3 ends the command before it writes.
ScriptTransformed ==
  /\ pc = "chunk" /\ todo = <<>> /\ command = "transform"
  /\ reported' = reported \cup shown
  /\ IF code \in {0, 3} THEN pc' = "write" /\ UNCHANGED exitCode ELSE Exit(code)
  /\ UNCHANGED <<world, files, invocations, faults, processVars, code, parts, failed, drizzleVars>>

HandleLint ==
  /\ Begin("lint")
  /\ ReadFileArgument("lint") \/ InputMissing
  /\ queue' = {} /\ todo' = <<>> /\ shown' = {} /\ worst' = 0 /\ seen' = {}

\* lintMigration gets the whole file; markers are comments to the linter.
DrizzleLint ==
  /\ pc = "lint" /\ command = "lint"
  /\ \E r \in Answers(FlattenSeq(Input), FALSE) :
       /\ Answered(r)
       /\ IF r.threw THEN Throw /\ UNCHANGED reported
          ELSE Exit(r.exit) /\ reported' = reported \cup Report(r.diags)
  /\ UNCHANGED <<world, files, invocations, processVars, code, parts, drizzleVars>>

-----------------------------------------------------------------------------
(* The write, of one file of many or of the only one.                      *)

WriteFile ==
  /\ pc = "write"
  /\ Write(Joined(parts))
  /\ IF command = "generate" THEN pc' = "file" /\ UNCHANGED exitCode ELSE Exit(code)
  /\ UNCHANGED <<world, invocations, faults, processVars, code, parts, reported, failed, drizzleVars>>

Died ==
  /\ CrashInWrite(Joined(parts)) \/ WriteFails \/ Crash
  /\ failed' = TRUE
  /\ UNCHANGED <<world, invocations, processVars, code, parts, reported, drizzleVars>>

-----------------------------------------------------------------------------
DrizzleStart ==
  \/ HandleGenerate \/ HandleTransform \/ HandleLint
  \/ (Help \/ Usage) /\ UNCHANGED drizzleVars

DrizzleProcess ==
  \/ DrizzleKitGenerate \/ ListSqlFiles \/ ReadFile \/ TransformChunk \/ FileTransformed
  \/ GenerateDone \/ ReadTransformInput \/ ScriptTransformed \/ DrizzleLint \/ WriteFile

DrizzleDeveloper ==
  /\ \/ Again
     \/ \E f \in Files \cup {Out} : Edit(f)
  /\ UNCHANGED drizzleVars

-----------------------------------------------------------------------------
\* Exit code c is no worse than e, in the order transform.ts states: unfixable
\* (1), any unexpected code, usage (2), warnings (3), clean (0).
NoWorse(c, e) ==
  c = e \/ e = 1 \/ c = 0 \/ (c = 3 /\ e # 0) \/ (c = 2 /\ e \notin {0, 3})

\* CI never sees a milder code than the worst of any chunk of any file, in
\* whatever order they were transformed, nor one that no chunk had.
ExitIsWorst ==
  pc = "exited" /\ command \in {"generate", "transform"} /\ seen # {} =>
    exitCode \in seen /\ \A c \in seen : NoWorse(c, exitCode)
=============================================================================
