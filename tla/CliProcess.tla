----------------------------- MODULE CliProcess -----------------------------
(***************************************************************************)
(* What the two command lines have in common: a process that is started    *)
(* with a command, works on files and ends with an exit code, or is        *)
(* killed; and the developer who starts it again and edits the files.      *)
(*                                                                         *)
(* A file is a sequence of chunks (the text between two Drizzle            *)
(* breakpoints), a chunk a sequence of statements. Prisma's files are one  *)
(* chunk. A file that does not exist is <<>>, an empty one <<<<>>>>.       *)
(***************************************************************************)
EXTENDS DsqlLint

CONSTANTS
  MaxFiles,        \* bound: migration files
  MaxInvocations,  \* bound: how often a command line is started
  MaxFaults,       \* bound: crashes, failed writes, misbehaviours of the linter
  Hosts,           \* how dsql-lint may be installed
  Contents,        \* the files a generator or a developer writes
  Scripts          \* the one-chunk scripts piped into a command

ASSUME CliAssumption ==
  /\ MaxFiles \in Nat /\ MaxInvocations \in Nat /\ MaxFaults \in Nat
  /\ Hosts \subseteq Installs
  /\ Contents \subseteq Seq(Seq(Kinds)) /\ Scripts \subseteq Seq(Kinds)

Files  == 1..MaxFiles  \* the .sql files of the migrations directory, sorted
Out    == 0            \* the file of -o, or standard output
Stdin  == -1           \* as a source: standard input
Absent == <<>>
Empty  == <<(<<>>)>>

VARIABLES
  tool,         \* which command line the project uses
  install,      \* where its dsql-lint is
  release,      \* and which one it is
  disk,         \* contents of the files
  invocations,
  faults,
  \* The process.
  command,
  pc,
  exitCode,
  source,       \* the file it read
  target,       \* the file it is to write
  code,         \* the exit code of the script in hand
  parts,        \* its transformed chunks
  reported,     \* labels of the diagnostics it printed for that file
  \* History.
  given,        \* the files as a generator or a developer wrote them
  text,         \* what the script in hand was when it was given
  torn,         \* files whose last write was cut short, or copied from one
  tainted,      \* files written after an exit code the tools do not know
  failed        \* did the linter, a generator or a write fail this time?

world == <<tool, install, release>>
files == <<disk, given, torn, tainted>>

Running == {"kit", "readdir", "file", "chunk", "read", "validate", "lint", "relint", "write"}
Ended   == {"exited", "threw", "crashed"}

\* The project may have a migration already, out of older.
CliInit(t, older) ==
  /\ tool = t
  /\ install \in Hosts
  /\ \E c \in older \cup {Absent} : disk = [f \in Files \cup {Out} |-> IF f = 1 THEN c ELSE Absent]
  /\ given = disk
  /\ invocations = 0 /\ faults = 0
  /\ command = "none" /\ pc = "idle" /\ exitCode = 0
  /\ source = Stdin /\ target = Out
  /\ code = 0 /\ parts = <<>> /\ reported = {} /\ text = <<>>
  /\ torn = {} /\ tainted = {} /\ failed = FALSE

\* Mutant: process.exitCode is set instead, and the process goes on.
ExitCodeOnly(c) == exitCode' = c /\ UNCHANGED pc

\* The process ends with this code; Throw: by main().catch.
Exit(c) ==
  pc' = "exited" /\ exitCode' = c

Throw == pc' = "threw" /\ exitCode' = 1

\* What the linter may answer (the script is bound, so that TLC evaluates it
\* once), and the bookkeeping of what it did.
Answers(s, fix) ==
  UNION {RunDsqlLintWithStdin(install, release, script, fix, faults < MaxFaults) : script \in {s}}

Answered(r) ==
  /\ failed' = (failed \/ r.odd)
  /\ faults' = IF r.odd /\ FindDsqlLint(install) THEN faults + 1 ELSE faults

-----------------------------------------------------------------------------
(* The process starts.                                                     *)

Begin(c) ==
  /\ pc = "idle" /\ invocations < MaxInvocations
  /\ invocations' = invocations + 1
  /\ command' = c
  /\ code' = 0 /\ parts' = <<>> /\ reported' = {} /\ failed' = FALSE
  /\ UNCHANGED <<world, files, faults>>

NoInput == source' = Stdin /\ target' = Out /\ text' = <<>>

\* No arguments or a help flag; an unknown command or flag, or an option or a
\* path that is missing.
Help == Begin("help") /\ NoInput /\ Exit(0)
Usage == Begin("usage") /\ NoInput /\ Exit(1)

\* The script a command reads, from a file of the directory or from standard
\* input, and where it is to go: elsewhere, or (-o input) back.
ReadFileArgument(next) ==
  \E f \in Files \cup {Out} : \E to \in {f, Out} :
    /\ disk[f] # Absent
    /\ source' = f /\ target' = to /\ text' = given[f] /\ pc' = next
    /\ UNCHANGED exitCode

ReadStdin(next) ==
  \E s \in Scripts :
    /\ s # <<>>
    /\ source' = Stdin /\ target' = Out /\ text' = <<s>> /\ pc' = next
    /\ UNCHANGED exitCode

\* The file of the argument does not exist, standard input is empty or fails.
InputMissing == NoInput /\ Exit(1)

\* What the process read.
Input == IF source = Stdin THEN text ELSE disk[source]

-----------------------------------------------------------------------------
(* The process writes: fs.writeFileSync truncates the file and then fills  *)
(* it.                                                                     *)

\* Keep the history of a write of content c to the target.
Wrote(c) ==
  /\ disk' = [disk EXCEPT ![target] = c]
  /\ given' = [given EXCEPT ![target] = text]
  /\ tainted' = IF code \in {0, 1, 3} THEN tainted \ {target} ELSE tainted \cup {target}

Write(c) ==
  /\ Wrote(c)
  /\ torn' = IF source \in torn THEN torn \cup {target} ELSE torn \ {target}

\* All that got out is the first n chunks.
WriteCut(c, n) ==
  /\ Wrote(IF n = 0 THEN Empty ELSE SubSeq(c, 1, n))
  /\ torn' = torn \cup {target}

\* The process is killed in the middle of a write.
CrashInWrite(c) ==
  /\ pc = "write" /\ faults < MaxFaults
  /\ \E n \in 0..(Len(c) - 1) : WriteCut(c, n)
  /\ pc' = "crashed" /\ faults' = faults + 1
  /\ UNCHANGED exitCode

\* The file cannot be opened, or its directory not be made.
WriteFails ==
  /\ pc = "write" /\ faults < MaxFaults
  /\ Throw /\ faults' = faults + 1
  /\ UNCHANGED files

\* The process is killed anywhere else.
Crash ==
  /\ pc \in Running /\ faults < MaxFaults
  /\ pc' = "crashed" /\ faults' = faults + 1
  /\ UNCHANGED <<files, exitCode>>

-----------------------------------------------------------------------------
(* The developer, and the generators that write migration files.           *)

NewFile(c) ==
  \E f \in Files :
    /\ disk[f] = Absent /\ \A g \in 1..(f - 1) : disk[g] # Absent
    /\ disk' = [disk EXCEPT ![f] = c]
    /\ given' = [given EXCEPT ![f] = c]
    /\ UNCHANGED <<torn, tainted>>

Again ==
  /\ pc \in Ended
  /\ pc' = "idle" /\ command' = "none" /\ exitCode' = 0
  /\ source' = Stdin /\ target' = Out /\ text' = <<>>
  /\ code' = 0 /\ parts' = <<>> /\ reported' = {} /\ failed' = FALSE
  /\ UNCHANGED <<world, files, invocations, faults>>

\* Statements the linter cannot fix are written anew by hand.
ByHand(c) == [i \in DOMAIN c |-> [j \in DOMAIN c[i] |-> IF c[i][j] = "array" THEN "table" ELSE c[i][j]]]

Edit(f) ==
  /\ pc = "idle"
  /\ disk[f] # ByHand(disk[f])
  /\ disk' = [disk EXCEPT ![f] = ByHand(@)]
  /\ given' = [given EXCEPT ![f] = ByHand(@)]
  /\ UNCHANGED <<world, torn, tainted, invocations, faults, command, pc, exitCode,
                 source, target, code, parts, reported, text, failed>>

-----------------------------------------------------------------------------
(* Properties of both command lines.                                       *)

KindsIn(c) == UNION {{c[i][j] : j \in DOMAIN c[i]} : i \in DOMAIN c}

\* What a file says, whatever its chunks are.
Meaning(c) == Says(FlattenSeq(c))

\* However a file was transformed, re-transformed, refused or abandoned, it
\* says what its author wrote, every statement of it in order; only a write
\* that was cut short (fs.writeFileSync is not atomic) loses anything.
NothingLost ==
  \A f \in Files \cup {Out} : f \notin torn => Meaning(disk[f]) = Meaning(given[f])

Mixed(c) == KindsIn(c) \cap Rewrites # {} /\ KindsIn(c) \cap Unready # {}

\* Generators and developers write no rewrite next to what needs one.
AuthorsDoNotMix ==
  (\A c \in Contents : ~Mixed(c)) /\ (\A s \in Scripts : ~Mixed(<<s>>))

\* A file is transformed whole or not at all: no file has some statements
\* rewritten for Aurora DSQL next to others that were not, or could not be
\* (unless generate wrote it after an exit code it does not know).
AllOrNothing == \A f \in (Files \cup {Out}) \ tainted : ~Mixed(disk[f])

\* A command that writes and ends with 0 or 3 leaves nothing for the author to
\* fix: not in the file it wrote, and not, for generate, in ANY migration file.
SuccessMeansFixed ==
  pc = "exited" /\ exitCode \in {0, 3} =>
    /\ command = "generate" => \A f \in Files : KindsIn(disk[f]) \cap Unready = {}
    /\ command \in {"transform", "migrate"} /\ text # <<>> =>
         KindsIn(disk[target]) \cap Unready = {}

\* An index that is made asynchronous, ready only later, reaches no file before
\* the developer was warned: for migrate, which ends with 0, the only sign.
WarnedBeforeWritten ==
  [][pc = "write" /\ disk' # disk /\ "indexAsync" \in KindsIn(disk'[target]) \ KindsIn(Input) =>
       "WARNING" \in reported]_<<pc, disk>>

\* Nothing is left to do in this file: no fix, no comment or blank chunk to
\* drop, no transaction to split.
Settled(c) ==
  \A i \in DOMAIN c :
    /\ Len(c) > 1 => c[i] # <<>>
    /\ \A j \in DOMAIN c[i] :
         /\ c[i][j] \notin Unready \cup {"note"}
         /\ ~ToSplit(c[i], {k \in DOMAIN c[i] : SameTx(c[i], j, k)})

\* Transforming a migration again changes nothing (HELP of drizzle's cli says
\* that re-running is safe, prisma's tests that the output is a fixed point),
\* even though every run of generate rewrites every file; a cut write aside.
RerunChangesNothing ==
  [][\A f \in Files \cup {Out} :
       pc = "write" /\ source = f /\ target = f /\ Settled(disk[f]) /\ code \in {0, 3} =>
         disk'[f] = disk[f] \/ f \in torn']_<<pc, disk, torn>>

\* Every invocation ends: no loop over files or chunks goes round for ever, and
\* no state of a command is without a way on.
CommandEnds == []<>(pc \notin Running)
=============================================================================
