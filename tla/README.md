# Verification of the Aurora DSQL ORM adapters

This directory holds TLA+ models of `awslabs/aurora-dsql-orms`, the runs that
model-check them and the theorems proved about them. The repository is a set of
adapters that let ORMs work on Amazon Aurora DSQL, a PostgreSQL-compatible
database with three habits that shape all of the code:

- optimistic concurrency: a conflict surfaces as SQLSTATE 40001 (OC000/OC001),
  mostly at COMMIT, and the client is expected to retry;
- one DDL statement per transaction, so a migration of several statements is
  never atomic;
- asynchronous DDL (`CREATE INDEX ASYNC`, `ALTER TABLE ASYNC ... VALIDATE
  CONSTRAINT`) that answers with a job id and finishes, or fails, later.

The database is not part of the repository. It is modelled from the way the
code under `src/` uses it; those definitions are marked external in
`PROJECT.json`.

## Inventory

| Component | State it keeps | Operations | What is hard | What makes it correct |
|---|---|---|---|---|
| drizzle migrator (`node/drizzle/src/migrator.ts`) | tracking table (shared), `appliedHashMap`, counters | `migrate`, `getMigrationStatus`, `waitForDsqlJob` | concurrent deploys on a stale snapshot; a crash between a statement and its row; jobs that fail after an answer; retries | rows are a prefix of what took effect; success means everything took effect; a re-run can go on |
| drizzle session (`session.ts`, `driver.ts`) | pool slots, the client of a transaction, `destroyClient` | `transaction`, `transactionWithRetry` | BEGIN, COMMIT or ROLLBACK failing; nested and concurrent calls; a lost COMMIT reply | no slot leaks; no dirty client in the pool; the result tells the effect |
| drizzle retry (`retry.ts`) | attempt counter | `withRetry` | what is retried; nested retries | bounded; only conflicts |
| drizzle splitter (`sql-statements.ts`) | none | `splitSqlStatements`, `isMultiStatement` | unterminated tokens | splitting loses nothing |
| drizzle CLI (`cli/*.ts`) | migration files | `generate`, `transform`, `lint` | exit codes over chunks and files; a linter that crashes or is missing; writes cut short; running it again over what it wrote | nothing lost, no file half transformed, a failure never reported as success |
| prisma CLI (`node/prisma/src/cli`) | migration files | `migrate`, `transform`, `validate`, `lint` | when to split a script into one transaction per statement; two runs of the linter whose results must agree | the output can be sent as one query; settings keep their statements; what validates migrates |
| EF Core wrappers and strategy (`dotnet/ef-core/.../Infrastructure`) | transaction wrapper's `_completed`, current transaction, exceptions encountered | begin, commit, rollback, dispose, execute, retry | failure of COMMIT; retry inside a transaction; suppressed savepoints | a transaction ends once; a conflict is retried as a whole or not at all |
| EF Core InventoryApi (`examples/InventoryApi/Program.cs`) | EF's change tracker, the verdict on a request | `POST /orders`, `POST /products` | an operation executed again on what the last attempt left; orders that compete for stock; a lost COMMIT answer | stock never sold twice; the response is true of the order |
| EF Core migrator and transform | EF's history table, the schema | `Migrate` up and down, `MakeIdempotent` | replay of a half-applied migration; no migration lock; index jobs that nobody waits for | the history tells the schema, but for indexes whose job failed; what only creates can be replayed |
| tortoise/aerich (`python/tortoise-orm/.../aerich/patch.py`) | version table, migration files, the schema | upgrade, downgrade, init | version order as strings; statements and row not atomic; validation jobs | rows are a prefix of the files and tell the schema; downgrade undoes newest first |
| django schema editor (`schema.py`) | `deferred_sql` | execute, add/alter field, add constraint | validation deferred past later operations | every deferred validation is awaited |
| sqlalchemy dialect (`base.py`) | none | `do_execute`, DDL compilation | DDL commits the open transaction | one DDL per transaction |
| hibernate dialect, flyway, options, other examples | none | | | |

The migrator and the session meet in `retry.ts`: each database operation of
the migrator is one `withRetry`, and `transactionWithRetry` is one `withRetry`
around a whole transaction. The migrator never opens a transaction (every
statement is its own autocommit, through `pool.query`), so the two modules
share nothing else and are not composed. The two Node command lines are two
packages with the same driver for dsql-lint and the same shape; `MigrationTools`
composes what they share with what each does. The other adapters are separate
packages in other languages; they share the database and the pattern, not code.

The hazards, each at the line where it bites and with the property that
watches it, are in `PROJECT.json` under `hazards`.

## Modules

| Module | Role |
|---|---|
| `StatementLog` | what statement tracking promises: effects in order, a row only after its effect, nothing undone |
| `DrizzleMigrator` | `migrateInternal` of any number of runs over one database |
| `MCDrizzleMigrator` | small scripts for TLC |
| `DrizzleMigratorProofs` | theorems about `DrizzleMigrator` |
| `DrizzleSession` | `AwsDsqlSession.transaction` / `transactionWithRetry` of concurrent and nested calls |
| `MCDrizzleSession` | a nesting callback for TLC |
| `DrizzleSessionProofs` | theorems about `DrizzleSession` |
| `DsqlLint` | scripts, dsql-lint and the driver that runs it (`dsql-lint.ts` of both packages) |
| `CliProcess` | a command-line process: start, exit, crash, reading, writing; the developer; the properties of both command lines |
| `DrizzleCli`, `PrismaCli` | the two command lines |
| `MigrationTools`, `MCMigrationTools` | a project that uses one of them, over and over; files and scripts for TLC |
| `DsqlLintProofs` | lemmas about scripts and what dsql-lint makes of them |
| `MigrationToolsProofs` | theorems about `MigrationTools` |
| `AerichMigrations`, `MCAerichMigrations` | Aerich's upgrade and downgrade as patched; migrations for TLC |
| `AerichMigrationsProofs` | theorems about `AerichMigrations` |
| `EfMigrations`, `MCEfMigrations` | EF Core's Migrate with the rewritten commands; migrations for TLC |
| `EfMigrationsProofs`, `EfHistoryProofs` | theorems about `EfMigrations`: any deployments; deployments that take turns |
| `EfTransactions`, `MCEfTransactions` | EF Core's transactions as wrapped, repeated by the execution strategy, in the order handler of InventoryApi; orders for TLC |
| `EfTransactionsProofs` | theorems about `EfTransactions` |

Definitions whose comment begins with `Mutant:` are plausible bugs. No
specification uses them; each is put in place of the definition it follows, to see
that the property named with it in `PROJECT.json` then fails.

Some theorems need more of the constants than the code itself does (how
migrations are written, for instance). Such a hypothesis is an operator beside
the properties, stated in the theorem; the MC modules assume it of their
instances, so that TLC shows that it can be met: `MigrationsApart`,
`DownUndoesUp`, `ContainersFirst`, `AuthorsDoNotMix`. (`NamesSortAsNumbers` holds
in `upgrade_downgrade` and not in `tenth_migration`, which is what that run
shows.) The two of `EfMigrations` speak of what migrations leave behind
(`SchemaOf`); `MCEfMigrations` compares this with executing their commands one
after the other (`SchemaIsExecuted`).

### DrizzleMigrator and the code

A run is one call of `migrateInternal`. `pc[r]` says which database operation
it awaits (`schema`, `table`, `load`, `execute`, `wait`, `record`), that it is
at the head of the loop (`scan`), or how it ended: `success` or `failed` (a
result was returned), `threw`, `crashed`. One action is one await: the step
ends at the next database operation.

| Code | Model |
|---|---|
| the migration files, flattened in order | `Script`, one record per chunk: its kind, and whether it ends a file |
| tracking table | `rows`, as positions of `Script` |
| `appliedHashMap` | `snap[r]`, read once by `LoadApplied` |
| the two loops | `pos[r]`, with `SkipRecorded`, `Dispatch`, `NextChunk`, `Finish` |
| `migrationHadPendingStatements`, `appliedStatementsCount`, `completedMigrations` | `hadPending`, `appliedCount`, `completed` |
| `withOccRetry` around each operation | `tries[r]`, reset by `Goto`; `Conflict`, `RetriesExhausted` |
| `db.execute(stmt)`, its `catch` | `Execute`, `ExecuteRefused`, `Thrown` |
| `waitForDsqlJob` | `WaitForDsqlJob` |
| `recordStatement` (`ON CONFLICT DO NOTHING`) | `RecordStatement` |
| the database | `created`, `catalog`, `committed`, `job`; `Refused`, `StartsJob`, `Commits` |

The kinds tell apart what the code or the database does: `create` fails when
its object exists, `createIfNotExists` does not; `index`, `indexIfNotExists` and
`validate` start a job, except that `IF NOT EXISTS` on an existing index
answers without a row; `write` can always be executed again; `empty` is recorded
without execution; `multi` is refused. Left out: the statement's hash, which only
chooses whether a warning is printed, and all message texts.

Failures: `OperationFails` (an error before any effect, a wait that times out,
or a connection lost during it), `ReplyLost` (the effect is there, the caller sees
an error that is no conflict; also for the two set-up statements), `Crash`, and `JobFails`, which may leave an
invalid index in the catalog. A conflict means that the operation did not commit
(`migrator.ts:64-65`).

### DrizzleSession and the code

A call is one `transactionWithRetry` (`transaction` when `MaxRetries` is 0).
`pc[k]` follows `transaction()`: `queued` (in `connect()`), `begin`,
`callback`, `wrote`, `nested` (the callback awaits another call on the database
object), `commit`, `rollback`, `release` (the `finally`), then `backoff` or
`ended`. `using[k]` is the client of the call's session, `destroy[k]` is
`destroyClient`, `err[k]` the error on its way out. node-postgres's pool is
`queue` and `holder`; it replaces a client that is destroyed or whose
connection is gone. `server[c]` and `open[c]` are the database's side of a
connection: outside a transaction, in one, in an aborted one, or gone, and whose
writes it holds. `effects[k]` counts how often the call's write became durable.
A callback writes once; a nested `tx.transaction()` throws before it does
anything (`session.ts:165-174`) and is one of the ways a callback throws.

`BEGIN` inside a transaction is a no-op with a warning, and `COMMIT` outside one
or in an aborted one keeps nothing and raises no error, as PostgreSQL defines.
A dropped connection is the only cause of an unknown outcome; node-postgres's
`query_timeout`, with which a statement can be abandoned and still run, is not
modelled. `ConnectFails` is a `connect()` that rejects: it is outside the `try`
(`session.ts:82-96`), so nothing is released. A callback lets the error of a
failed statement through; one that swallows it would have its aborted
transaction ended by a `COMMIT`.

### The command lines and the code

`pc` is where the process is: `kit` (drizzle-kit runs), `readdir`, `file` and
`chunk` (the loops of `generate` and of `transformMigrationFile`), `read`,
`lint` and `relint` (the two runs of prisma's `transformMigration`), `write`;
or how it ended: `exited`, `threw` (through `main().catch`), `crashed`. One
action is one run of dsql-lint, one file read or one file written.

| Code | Model |
|---|---|
| a migration file | `disk[f]`, a sequence of chunks, each a sequence of statement kinds; `Absent`, `Empty` |
| standard input and output, the file of `-o` | `Stdin`, `Out` |
| `findDsqlLint` | `FindDsqlLint` over `Installs` |
| `runDsqlLintWithStdin`, `parseDsqlLintJson` | `RunDsqlLintWithStdin`, whose exceptions are `Threw` |
| the checks of `fixed_sql` | `BreaksContract` |
| `exitRank`, `worseExitCode` | `ExitRank`, `WorseExitCode` |
| `splitSqlStatements`, `isMultiStatement` | `CountStatements`, `IsMultiStatement` |
| `transformMigrationFile` | `TransformMigrationFile`, `TransformChunk`, `Joined` |
| `handleGenerate` | `HandleGenerate`, `DrizzleKitGenerate`, `ListSqlFiles`, `ReadFile`, `FileTransformed`, `WriteFile`, `GenerateDone` |
| `handleTransform`, `handleLint` (drizzle) | `HandleTransform`, `ReadTransformInput`, `ScriptTransformed`, `HandleLint`, `DrizzleLint` |
| `wrapInTransaction`, `splitSkipReason`, `hasStatementsOutsideTransaction` | the operators of these names; `Wrapped`, `Advisory` |
| `splitsTransaction`, `unexpectedFix` | `SplitsTransaction`, `UnexpectedFix` |
| `transformMigration` (prisma) and what its callers do with the result | `Lint`, `Relint`, `UseResult`, `WriteMigration` |
| `handleMigrate`, `validateSchema`, `checkSqlCompatibility` | `HandleMigrate`, `HandleValidate`, `HasIssues` |

A statement is one of twelve kinds: DDL that dsql-lint leaves alone, fixes,
fixes with a warning (an index made asynchronous), cannot fix, or does not split
off (`Unsplit`: CREATE ROLE, CREATE DOMAIN, GRANT, COMMENT ON); data; `SET
LOCAL` and whatever else ends with its transaction; BEGIN, COMMIT; a comment.
dsql-lint is not in the repository: `FixRun` and `LintRun` do what the
repository's tests of both packages show, for three releases, one of which has
another name for its split rule and one of which reports a block without
splitting it. None splits off a `grant`, nor reports one (`README.md:116-118` of
the prisma package), though a block that holds others is still split around
it. dsql-lint may misbehave (`OddRuns`): unreadable input, a usage error, a
code nobody documents, with or without a script.

`given`, `torn`, `tainted`, `seen`, `failed` and `validated` are history: what
the author of a file wrote, which files were cut short by a crash during
`writeFileSync`, which were written after a code the tools do not know, the
codes of this invocation, whether anything external went wrong in it, and
which scripts passed `validate`.

### AerichMigrations and the code

| Code | Model |
|---|---|
| the migration files, `upgrade()`, `downgrade()` | `files`, `UpgradeSql`, `DowngradeSql` |
| the aerich table; `_default_ordering` | `rows`; `SortsBefore`, `First` |
| `_execute_ddl`, `CALL sys.wait_for_job` | `ExecuteStatement`, `WaitForJob` |
| `_patched_upgrade`, `Aerich.create` | `Upgrade`, `CreateRow`; which file is next is Aerich's own code (`NextPending`) |
| `_patched_downgrade` | `StartDowngrade`, `Downgrade`, `DeleteRow`, `Unlink` |
| `--fake`, `--delete` | `fake`, `delete` |
| a process killed, a statement that fails | `Abort`, or a statement that is not `Executable` |

A name is the digits of its number and the underscore after them, compared as
strings. `astray` is history: the migrations that were begun and not ended, or
faked, about whose part of the schema nothing can be said.

### EfMigrations and the code

| Code | Model |
|---|---|
| EF's `Migrate(target)`, its LOCK TABLE suppressed | `Migrate`: the history read at the start says what to revert and, after that (`TurnRound`), what to apply |
| dsql-lint: `CREATE INDEX` becomes `CREATE INDEX ASYNC` | `Lint` |
| `TransformBatchWithDiagnostics`, `MakeIdempotent` | `Transform`, `MakeIdempotent` |
| `GenerateUpSql`, `GenerateDownSql` and EF's history row | the operators of these names |
| `TransformAndSuppress`: every command is its own transaction | `Execute`, one command a step |
| dsql-lint refuses a statement (`DsqlLintException`) | the last disjunct of `NextMigration` |
| `ShouldRetryOn` outside a transaction | `OccError` |

What a command does to the database is `Executable` and `Effect`; the commands
and the order in which EF takes the migrations are EF's (`NextOf`, `Down`). The
name of an index is in the catalog (`objects`) from its command on, while a job
is `building` it. The job ends at any time (`JobSucceeds`, `JobFails`), also after
the row of the history was written: `DsqlMigrator` builds commands and waits for
no job. One that fails leaves an invalid index, or none, and in both cases the
index is in `failed` until it is created anew or dropped. What is `Executable`
does not depend on jobs: a failed index is found by `IF NOT EXISTS` all the same.

### EfTransactions and the code

`pc[r]` follows one request: `begin`, `operation`, `commit`, `dispose` (the
transaction, whatever happened), `caught` (the strategy has the exception),
`verify`, `respond`, `answered`.

| Code | Model |
|---|---|
| `BeginDbTransactionAsync` | `BeginDbTransaction`: a snapshot, a new wrapper |
| the handler's lambda | `Operation`, from `Started`, `Find`, `Valid`, `Placed` |
| EF's change tracker | `tracked`: the stock in memory, and whether the order was added |
| `CommitAsync`, `_completed` | `Commit`, with what the database makes of it: `Committed`, `Conflict`, `Aborted`; `completed` |
| `DisposeAsync`, `RollbackAsync` | `Dispose` |
| `OnFirstExecution`, `ShouldRetryOn`, `GetNextDelay` | `OnFirstExecution`, `ShouldRetryOn`, `Retry`; `retries` is `ExceptionsEncountered.Count` |
| verifySucceeded | `Verify` |
| the handler's results | `Result`, `Respond` |

The loop of the strategy and `ExecuteInTransactionAsync` are EF Core's (`Catch`,
`commitFailed`): verifySucceeded is asked when COMMIT was tried and the strategy
would retry, since `ShouldVerifySuccessOn` is `ShouldRetryOn` unless overridden,
which `DsqlExecutionStrategy` does not. So it is asked after conflicts, where the
answer is no, and not after a lost answer, the case it is meant for: that request
ends with 500 while its order may be there, which `AnswerTellsOrder` says of
`unsure` requests only. A failure inside the transaction is never retried there
(`InTransaction`): `SaveChanges`' own strategy lets it pass and the operation
throws. The queries and `SaveChanges` are one step: on a snapshot nobody can come between
them, and what failed midway is rolled back. Savepoints, whether or not EF asks
for any, make no difference to these transactions: they are suppressed, and a
`SaveChanges` that fails ends in the disposal of the transaction.

The endpoints do not look at the sign of what is posted, so quantities and stock
are integers of either sign. Of the items of one product an order keeps what
matters: `quantity`, the sum, by which the stock is lowered, and `most`, the
highest that the items come to on the way, for which the stock must suffice
(`Valid`); with items of both signs these differ. What changes no stock is not
updated, and conflicts with nothing (`Changed`). The overflow of C#'s `int` is not
modelled. The query for the 201 and that of verifySucceeded run under a strategy,
too, and their conflicts are counted (`QueryConflict`); the first starts counting
anew (`Return`).

## Runs

| Run | Question | Instance |
|---|---|---|
| `concurrent` | Do races and failures ever leave a gap, a row without effect or a false success? Does the migrator implement `StatementLog`? | 3 runs, 5 chunks in 2 files, 2 failures |
| `sequential` | Without overlap, is a recorded statement ever executed again? Do the counters add up? Does every run end, and does one get as far as the script allows when runs outnumber failures? | 3 runs, 6 chunks in 3 files, repeatable up to a refused one, 2 failures |
| `job_fails_unseen` | Is an asynchronous statement recorded only after its job? (No.) | 2 runs |
| `write_twice` | Is a second execution always an error? (No.) | 2 runs |
| `pool` | Do failures leak a slot, return a dirty client, repeat or lose an effect, or block a call? | 4 calls, one nested in another, 2 clients, 2 failures |
| `single_client` | Is a nested `db.transaction()` rejected on one client? (No.) | 2 calls, 1 client |
| `migration_tools` | Over two invocations with edits in between: is anything lost, a file half transformed, an exit code too mild, a setting cut off, a script not sendable, a warning late, a command endless? | 2 files, 6 drizzle contents, 12 prisma scripts, 2 invocations, 1 fault, 3 releases |
| `upgrade_downgrade` | Do interrupted upgrades and downgrades keep rows, files and schema consistent? | 3 migrations of one digit, 4 commands, 2 interruptions |
| `tenth_migration` | Does a downgrade undo the newest migration first? (Not from the tenth on.) | migrations 9 and 10, 2 commands |
| `ef_transactions` | Do competing, retried and failing orders keep the stock, answer truthfully and end with their transactions? | 3 requests for 2 lamps, one returning a pen of which there is -1, one with items of 2 and -1 lamps, one of 0 desks; desks come later; 2 retries, 2 failures |
| `ef_migrations` | Does the history tell the schema, whatever is interrupted and whoever runs at once? | 2 deployments, 3 migrations, one of them with an index, 3 calls, 2 faults |
| `ef_index_fails` | Is what a re-run skips there as it should be? (No.) | 1 deployment, 2 calls, 2 faults |

**Bounds.** `MaxFaults` bounds the failures of a behaviour, `MaxRetries` the
attempts (1 instead of the default 3: what matters is one retry that goes well
and one that exhausts). Conflicts of the migrator need no bound of their own.
Three runs let two race and a third resume; five chunks put each kind
of statement before another one that depends on it, and an end of file between
them. Two failures allow a failure of the recovery from the first. Two clients
and four calls make calls queue, also the nested one behind others. Symmetry is
used in `concurrent` only: the runs are interchangeable there and its one
temporal property is a safety property that does not name a run.
For the command lines, two invocations are one that leaves something behind and
one that meets it (a file that is there before stands for earlier ones); two
files make the merge of exit codes and the abandonment of the second file
matter; the contents hold each kind of statement at least once, in the
combinations the code tells apart (two chunks of different worth, comments and
blanks, two statements without a marker, settings in and outside a block). For
Aerich, four commands allow an upgrade, an interrupted downgrade, and both
again; each migration has a statement that can be executed twice, and two that
cannot in every other one. For EF, the three migrations create (tables and an
index), insert, alter and drop, so that a later one takes away what an earlier one
made; two faults are a failed job and an interruption. For the
orders, three requests are one more than the lamps suffice for; two retries are
as many as there are rivals, so that they are used up only when the schema
changes as well, and the desk is there for some attempts and not for others. To
use up the retries of the last query takes three changes of the schema, one more
than the two failures of the instance; its 500 comes of other failures there, and
the theorems have no such bound.

**Fairness.** `FairSpec` asks that an active run takes its next step, whichever
outcome it has, and that a job ends: Node's event loop runs a promise that can
go on, node-postgres settles every query, and `sys.wait_for_job` returns. It
does not ask that an operation succeeds. `RetriedSpec` (run `sequential`) adds that
a deploy that has not been started is started in the end, which is what "can be
re-run" presumes. For the session, every call that can go on does, timers fire,
and the pool serves its queue in order. The calls of `pool` settle because there
are fewer callbacks that nest than clients; with as many, all of them wait for
each other in `connect()` (unless the pool was given a connection timeout), and
`session.ts` does nothing about it. For the command lines (`CommandEnds`), a
process that was started runs on: Node's loop does, and `spawnSync` and
`execSync` return when dsql-lint, drizzle-kit and prisma end, which is assumed of
them. Nobody has to start a command, and nothing is asked of the developer.
For the orders, `FairSpec` says that a request that was taken up is handled to
its end: the tasks of ASP.NET run on, delays pass and Npgsql's calls return or
throw. No request has to come.

`CHECK_DEADLOCK` is off: in every run the system stops when all runs have ended,
all calls have settled, or the bound on invocations is reached.

### What the violations show

- `job_fails_unseen`: a first deploy starts `CREATE INDEX ASYNC IF NOT EXISTS`
  and ends before the build does, or the build fails; the re-run finds the
  index, gets no job id, records the statement and reports success. Comment
  and README say that asynchronous DDL is awaited before it is recorded. For
  scripts without such a statement the claim is a theorem
  (`JobAwaitedWithoutIfNotExists`).
- `write_twice`: the comment says that a statement left untracked is retried
  "and its error surfaced"; a data statement is executed twice without one.
- `single_client`: the message says that a nested `db.transaction()` is
  rejected; on a database built on a single client its COMMIT commits the outer
  transaction.
- `tenth_migration`: rows are ordered by version as a string, so that "9_" comes
  before "10_" from the top. A downgrade of the newest migration undoes 9 and
  leaves 10, which may build on it, applied and recorded above a gap. While all
  numbers have as many digits the claim is a theorem (`RecordedInOrder`).

- `ef_index_fails`: a migration is interrupted after its `CREATE INDEX ASYNC`, and
  the job fails. The re-run meets `CREATE INDEX ASYNC IF NOT EXISTS`, finds the name
  and skips the statement, which was not applied, and the history row follows.
  `README.md:118-121` of ef-core says that what is skipped was applied. (Without an
  interruption the row is written as well, before the job fails; nothing in the
  repository claims otherwise, and `HistoryIsSchema` and `RecordedIsThere` name the
  exception.)

One claim is known to be too wide without a run of its own: the same lines say
that *each* migration statement is made idempotent. `ALTER`, `DROP` and `INSERT`
are not, as the comment at `DsqlSqlTransform.cs:116-117` says itself, and a
replay stops at them. `CanBeRerun` is therefore about migrations that only create.

## Proofs

`DrizzleMigratorProofs` proves, for every script, every set of runs and any
bound on retries and failures, from `MigratorAssumption` only:

| Theorem | Property |
|---|---|
| `TypeCorrect` | `TypeOK` |
| `TrackingHasNoGap` | `RecordedIsPrefix` |
| `RecordedTookEffect` | `RecordedIsApplied` |
| `ExecutedInOrder` | `DependenciesReady` |
| `SuccessLeavesNothing` | `SuccessIsComplete` |
| `JobAwaitedWithoutIfNotExists` | `JobAwaited`, when no chunk is an index with `IF NOT EXISTS` |
| `MigratorImplementsLog` | `ImplementsLog` |
| `SequentialNeverReruns` | `RecordedNeverRerun`, when `~Concurrent` |
| `ResultsAddUp` | `CountsAddUp` |

None of the safety properties is inductive: that a run may record position
`pos[r]` without making a gap depends on what it has passed. The invariant
`IInv` therefore adds, for each run, that its snapshot is among the rows
(`SnapRecorded`), that everything before `pos[r]` is recorded
(`PassedRecorded`), and that a run at `record` has an applied statement in hand
(`RecordReady`); and for the database, that executions are in order and once per
run (`CommittedInOrder`, `CommittedOnce`) and a job belongs to an execution
(`JobCommitted`). The argument is short once that is in place: rows are never
removed, so a stale snapshot errs on the safe side, and a job that succeeded
stays so. `SequentialNeverReruns` needs a second invariant, `SeqInv`: one
active run, whose snapshot holds every row outside those it wrote itself.
`ResultsAddUp` is about one run and the map it loaded: `CountsInv` says of each
place in the loop what was passed (`PassedPending`, `PassedEnds`), and when
`hadPending` is set for the migration in hand (`PendingSince`), which the end of
a migration turns into one more of `completed` or not.

`DrizzleSessionProofs` proves, for every set of calls and clients, every nesting
(also one in which two calls make the same inner call) and any bound on retries
and failures, from `SessionAssumption` only:

| Theorem | Property |
|---|---|
| `TypeCorrect` | `TypeOK` |
| `NoSlotLeaks` | `SlotsAccounted` |
| `PoolStaysClean` | `PoolIsClean` |
| `ResultTellsEffect` | `EffectsMatchResult` |
| `NothingEarly` | `OuterNotCommitted`, on a pool |

`PoolIsClean` says what holds of a client in the pool, which depends on what the
call that returns it did. `PoolInv` therefore relates, label by label, a call to
the server's side of its client (`CallOK`): outside a transaction at `begin`, in
one that holds exactly its own write from `wrote` to `commit`, and at `release`
either clean, gone, or to be destroyed. Because each client has one holder
(`ClientOK`), a step on a held client disturbs no other call (`HeldStep`), and
only check-out and release move clients between calls. `EffectInv` adds what a
call owes its caller: an effect exists only on the way out, without an error or
with one that is no conflict, so `withRetry` never repeats it. Both need the pool;
on a single client `CallOK` fails at once, which is what `single_client` shows.

`AerichMigrationsProofs` proves, for all migrations and names, and any number of
commands and interruptions, from `AerichAssumption`:

| Theorem | Property |
|---|---|
| `TypeCorrect` | `TypeOK` |
| `RecordedMigrationsKeepTheirFiles` | `RecordedHasFile` |
| `RecordedInOrder` | `RecordsArePrefix`, when names sort as their numbers do |
| `RecordedMigrationsAreInTheSchema` | `RecordsMatchSchema`, when they do and `MigrationsApart` |

`FileInv` adds where the migration in hand is: its file is there while an upgrade
works on it, and its row is deleted before its file is. `PrefixInv` adds that
everything before the migration of an upgrade is recorded, and nothing after
that of a downgrade or after those still to do; the latter is where the order of
names comes in, and `tenth_migration` shows that it cannot be left out.
`MigrationsApart` says how migrations are written: each adds objects of its own,
in nothing that a later one adds, and its downgrade drops these, all of them.
`SchemaInv` says of the script in hand that the statements before what is left of
it hold: added, and validated unless that is being waited for, or dropped with
their parts. The order of names is needed again: what is downgraded is the newest,
so that dropping its objects with their parts takes nothing from a migration that
stays recorded.

`EfMigrationsProofs` proves, for all migrations and any number of deployments
and faults, from `EfAssumption` and `OrderAssumption`:

| Theorem | Property |
|---|---|
| `TypeCorrect` | `TypeOK` |
| `RecordedStaysThere` | `RecordedIsThere`, indexes whose job failed excepted |

That a row comes after the commands of its migration does not say that what they
made is still there when it is written: another deployment may run. `ThereInv`
therefore says the same of the part of a migration that was executed, for each
deployment's remaining script (`LeftOf`, `ScriptDone`), and counts a migration
as begun from its first command on (`Begun`), so that whatever disappears is
accounted for by a drop that somebody has begun.

`EfHistoryProofs` is about deployments that take turns, still for all migrations
and with any faults:

| Theorem | Property |
|---|---|
| `AppliedDatabaseIsAsRecorded` | `HistoryIsSchema`, as long as nothing was reverted |
| `DatabaseIsAsRecorded` | `HistoryIsSchema`, when `DownUndoesUp` |
| `InterruptedMigrationCanBeRerun` | `CanBeRerun`, when `DownUndoesUp` and `ContainersFirst` |

`DownUndoesUp` says that reverting a migration gives back what was there before
it, rows aside; `ContainersFirst` that what a migration adds to was created before.
`TurnsInv` follows the script of the one running deployment: the migration in hand
is the next above the history, or its newest (`InHand`), what its commands
touched so far is as these leave it (`Executed`), and what no interrupted
migration has touched is as the history says (`SchemaInv`). An interrupted
migration is applied again from its first command, and `Executed` speaks only of
what this attempt executed: when it has executed all of them, they alone decide
what is there, and the migration is astray no more.

`EfTransactionsProofs` proves, for any requests, stock, retries and failures,
from `TransactionsAssumption`:

| Theorem | Property |
|---|---|
| `TypeCorrect` | `TypeOK` |
| `AnswersAreTrue` | `AnswerTellsOrder` |
| `StockIsAccountedFor` | `StockAccounted` |

`OrderKnown` says at each place of a request whether its order is there: not
until COMMIT, after that as its exception and its verdict tell, unless the
outcome is unknown. It needs `WellFormed` (a transaction is open from BEGIN to
disposal, and what was sent is what the order names), and a step of one request
leaves this of the others (`Same`).

Of the constants `TransactionsAssumption` wants types only: quantities and
stock are any integers, and `most` is at least `quantity`, being a maximum that
includes the sum.

`StockIsAccountedFor` adds three facts (`StockInv`): an open transaction's snapshot
is what the stock still is, except for products that others sold since
(`Current`), which a COMMIT that succeeds has none of; what `SaveChanges` sent is
the snapshot lowered once (`Lowered`), whatever earlier attempts left in memory;
and, of every product, that stock and sales add up (`Accounted`). The sales are
a fold over the orders, that is, a recursive function; that one order more adds its quantity
(`SoldToOneMore`) is proved from a minimal counterexample among the subsets,
since the library's induction theorems are out of reach.

`MigrationToolsProofs` proves, for any files, scripts, hosts, releases of dsql-lint
and bounds, all safety properties of the command lines:

| Theorem | Property | From |
|---|---|---|
| `TypesAreRight` | `TypeOK` | `TypeInv` |
| `ExitCodeIsTheWorst` | `ExitIsWorst` | `ExitInv` |
| `SuccessLeavesNothingToFix` | `SuccessMeansFixed` | `FixedInv` |
| `TransformedWholeOrNotAtAll` | `AllOrNothing`, when `AuthorsDoNotMix` | `FixedInv` |
| `NoStatementIsLost` | `NothingLost` | `OneChunk`, `SaysInv` |
| `AsyncIndexesAreWarnedOf` | `WarnedBeforeWritten` | `WarnInv` |
| `TransformingAgainChangesNothing` | `RerunChangesNothing` | `OneChunk`, `SettledInv` |
| `ValidatedSchemasMigrate` | `ValidSchemaMigrates` | `OneChunk`, `ValidInv` |
| `ScriptsAreOneQuery` | `OneDdlPerTransaction` | `ValidInv`, `AloneInv`, `QueryInv` |
| `SettingsHoldForTheSame` | `SettingsKeepTheirStatements` | `OneChunk`, `KeepInv` |

Each invariant says of the command in hand what its property says of its end.
`ExitInv` carries the worst of the codes through chunks and files, because the
merge ignores order and repetition (`WorseExitCodeOfOneMore`,
`WorseExitCodeAssociates`). `FixedInv` says that chunks under a code that writes
are finished, and so is every file that generate has left, as long as its worst code
writes. `SaysInv` is drizzle's loop: what was transformed, followed by what is
still to do, says what was read; for prisma it takes `OneChunk`, that a script is
never split by markers. `WarnInv` says where the warning is, shown or
reported, once an asynchronous index has come up. `SettledInv` says that of an
input that needs nothing, chunk by chunk, nothing was changed. `ValidInv` relates
the run on the wrapped script to the one on the plain script, whose findings are
the same (`WrappedFixes`, `WrappedRefusal`) but for splits. `QueryInv` and
`KeepInv` speak of the script about to be written, and the file it was written to.
`OneDdlPerTransaction` names an exclusion: `README.md:116-118` has the author put
each CREATE ROLE, CREATE DOMAIN, GRANT and COMMENT ON in a block of its own, for
dsql-lint does not split them. Where the author did (`GrantsAlone`), they
count, and `AloneInv` says that the tools keep them alone: `transform` wraps no
script that has a COMMIT, and a split brackets other statements only. Where not,
the output may hold a `grant` next to other DDL, with nothing reported; with
them counted as well, TLC finds the property violated at once.

What these rest on is in `DsqlLintProofs`: what the linter's output is, for
every script. The output is a piece for each statement, joined (`FixedSqlIs`,
`FlattenSeq`), and each lemma about it is one about a piece and one about
joining. Joining is a recursive function, of which the lemmas say that it is the
only series of sequences that takes up one after the other (`FlattenSteps`,
`FlattenUnique`), by a counterexample that is minimal (`MinimalNumber`); that it
respects concatenation and nesting follows (`FlattenConcat`, `FlattenTwice`).
For transactions each statement of the output has an origin in the input
(`FixedSqlOrigins`), and two that one transaction may not hold are kept apart,
by a COMMIT of the split or of the author (`SplitSeparates`); for settings the lemmas go
along the output and keep, for an origin, what followed it so far
(`FixedSqlTracks`).

Two properties had to be corrected before they could be proved.
`SettingsKeepTheirStatements` spoke of every setting outside a block; but in
`SET LOCAL ..; CREATE ..; BEGIN; CREATE ..; CREATE INDEX ..; COMMIT;` the `BEGIN`
joins the implicit transaction of the setting, and dsql-lint, which splits blocks,
ends it. It now speaks of transactions that the author left implicit altogether
(`IsImplicit`), and this script is among those TLC runs on.
`WarnedBeforeWritten` spoke only of inputs that hold an index to be made
asynchronous; it now speaks of any that comes to hold an asynchronous one.

Model-checked only: the liveness properties `RunsEnd`, `EventuallyMigrated`,
`CallsSettle`, `CommandEnds` and `RequestsEnd`, because fairness is out of the
prover's reach.

## Plan

1. Done: the migrator with its abstract log and proofs.
2. Done: the session and its proofs.
3. Done: the command lines, with dsql-lint as the tests show it.
4. Done: `AerichMigrations` and its proofs. Left: `init_db`, and two processes at
   once.
5. Done: `EfMigrations`, `EfTransactions` and their proofs. Left: transactions
   that a user begins, with EF's savepoints and the retry inside them.
6. Left: scripts that are edited between two runs of the drizzle migrator (its
   rows are keyed by position), and callbacks of `transaction()` that swallow
   an error.
7. Done: every safety property that a run checks is a theorem.

## Not modelled

- What characters make of a script: the tokens of `sql-statements.ts`, `codeOf`
  of prisma's `transform.ts`, the patterns of `DsqlSqlTransform`. The scripts of
  the models are sequences of statements.
- Argument parsing beyond the choice of a command, message texts, configuration
  and dependency injection, IAM tokens, connection strings.
- EF: transactions that the user begins and ends, with savepoints;
  `DsqlDatabaseCreator`, the batching of statements for dsql-lint; `CREATE INDEX
  ASYNC IF NOT EXISTS` as raw SQL, into which `CreateIndexRegex` inserts IF NOT
  EXISTS a second time, when it backtracks over the optional ASYNC. The overflow of
  the numbers of an order.
- Aerich: `init_db` and the text that `add_fk` writes; Tortoise's clients and
  schema generator, which are text.
- Django: which deferred statements survive a later operation is decided by
  Django's own code, which is not in the repository; the same holds for the
  transaction that SQLAlchemy keeps. The rest of these dialects and of the
  hibernate dialect is the text of SQL.
- The other example applications, and the GET endpoints of InventoryApi, which
  only read.
