# migratekit: models, checks and proofs

migratekit applies numbered SQL files to PostgreSQL (and ClickHouse) databases and keeps
a ledger of what it applied in `public.migrations`. Several processes run it against one
database at the same time: the replicas of a service that boot together, rollouts that
carry different releases, lanes of development that disagree about a number, an operator
at a terminal. This directory holds TLA+ models of that protocol, the TLC runs that check
them on small instances and TLAPS proofs about them for every instance.

Line numbers below are those of the source files of the repository.

## 1. The system

| Part | Source | State | Operations |
|---|---|---|---|
| Apply path | `postgres.go`, `strict.go`, `notx.go` | ledger rows, the schema, the advisory lock, the session it is pinned to | `ApplyMigrations`, `ApplyWithOrderingException` |
| Startup gate | `postgres.go:171-199, 435-474` | none (one read) | `Applied`, `ValidateAllApplied` |
| Identity check, status | `strict.go:164-349`, `status.go` | none (pure) | `analyze`, `Status`, `HasErrors` |
| File chains and their gate | `common.go`, `loader.go`, `strict.go:377-411`, `repairtotality.go`, `main.go:333-357` | none (pure) | `Prefix`, `Sequence`, `Load`, `ValidateSequences`, `CheckChain`, `CheckRepairTotality`, `migratekit check` |
| Ledger repairs | `repair.go`, `notx.go:184-273` | ledger rows, the audit trail `public.migration_repairs` | adopt, adopt --all-unmatched, accept-content, resolve --applied / --rerun |
| Baseline | `baseline.go` | the same, under the migration lock | `PlanBaseline`, `Baseline` |
| Sessions and pool | `postgres.go:201-268`, `tracker.go:95-150` | pooled sessions, their advisory locks, their search_path | `lock`, `unlock`, `discardMigrationConn` |
| Conversions, strict integrity | `conversion.go`, `fingerprint.go` | ledger rows, the live schema, a scratch schema | `reconcile`, `convert`, `settleDrift` |
| ClickHouse migrator | `chmigrate/`, `tracker.go` | the ledger in Postgres, the tables in ClickHouse, replicas in Keeper | `ApplyMigrations`, stale replica repair |
| Text conversions | `splitsql.go`, `digest.go`, `repairtotality.go:85-131`, `coremigrate.go:81-162` | none (pure) | `SplitStatements`, `sqlTokens`, `rtStripComments`, `SubstituteTemplates` |
| Command line | `cmd/` | none of its own | flags and printing around the rest |

The parts meet in the database. An apply (1) validates the chain of files, (2) creates
the tracking tables under the advisory key, (3) back-stamps semantic digests without a
lock, (4) runs the opt-in reconcile step, (5) reads the ledger without a lock and stops on
an error or when nothing is pending, (6) takes the session advisory lock, (7) reads and
decides again on that session, (8) creates the schema, (9) lands its files one at a time
and (10) unlocks. A transactional file lands with its ledger row and, under an ordering
exception, its audit row in one transaction. A no-transaction file claims its row
(`running`), runs its statements one by one, and marks the row `applied` or `failed`.
The repair verbs write the same rows without the lock; a baseline takes it.

What is hard here: the decision of step 5 is stale at step 6; a connection may drop
during a COMMIT; a process may die between the statements of a no-transaction file; a
session may lose its lock while its process goes on; trees disagree about numbers,
contents and order; repairs read in one transaction and write in another. The full list,
each hazard at its line with the properties that watch it, is in `PROJECT.json`.

What makes each part correct:

- *Apply path*: a row says exactly what is in the schema; success means the caller's files
  are there; nothing lands twice, below an applied file, before its schema exists, or next
  to an unfinished migration; every exception is on record; every call returns.
- *Startup gate*: an accepted tree is complete in the schema.
- *Repairs*: no number is rebound or forgotten without an audit row saying so; dirty rows
  end only by their own run or on the record; the two digests of a row are of one file.
- *Baseline*: what it recorded is never run by an applier that decided earlier.
- *Conversions*: whatever was converted, settled, refused or cut off, the rows name files
  whose fresh build is what lives in the schema; every row replaced is on record.
- *Chains*: a key read from a file name is the key its row has; a chain that passed the
  merge gate needs no exception when deployed; a constraint meets repaired rows.
- *Text conversions*: the statements sent are those the semantic digest hashed; the value
  of a variable is data.
- *Status*: what it calls an error blocks an apply, and the other way round.
- *Sessions*: what returns to the pool carries no lock and no foreign search_path; one
  caller at a time works; nobody waits for what a waiter holds.
- *ClickHouse*: whatever ran there is of a file whose identity the ledger has; a row reads
  applied only if all of it ran, and stays so; retries end.

## 2. Modules

| Module | Models |
|---|---|
| `Ledger` | rows, chains and the pure judgements on them: `Analyze`, `Pending`, `Stampable`, `ValidateSequences`, `AppliedKeys`, `StatusDiscrepancies` |
| `Migrator` (extends `Ledger`) | the Postgres apply path and the startup gate, for any number of processes |
| `Rollout` (extends `Ledger`) | the abstract specification of the apply path: numbers that go from absent to applied |
| `Conversion` (extends `Migrator`) | reconcile: conversions of retired chains and strict integrity, before the apply |
| `Repairs` (extends `Migrator`) | the operator's verbs and baseline, interleaved with live migrators |
| `Sessions` | pooled connections, the session lock, `lockMu` and `lockConn`, the search_path |
| `ClickHouse` (extends `Ledger`) | the ClickHouse migrator: rows and lock in Postgres, statements elsewhere |
| `Scanner` | the text conversions, character by character |
| `Chain` (extends `Ledger`) | file names, `Load`, `CheckChain`, the repair-totality lint |
| `Check` (extends `Chain`) | `migratekit check` at the merge boundary, and the deployments of what it let through |
| `LedgerProofs` | lemmas about rows, chains and numbers that several proofs use |
| `MigratorProofs`, `RepairsProofs`, `ConversionProofs`, `SessionsProofs`, `ClickHouseProofs`, `CheckProofs`, `ScannerProofs` | the theorems |
| `MCMigrator`, `MCConversion`, `MCRepairs`, `MCSessions`, `MCClickHouse`, `MCScanner`, `MCCheck` | instances for TLC |

**Ledger.** A migration file is a record of its name, parsed number, bytes, SQL tokens,
directive, and the number of pieces of it that become visible separately. SHA-256 is
injective, so a digest is the thing digested. There are finitely many files. NULL file names and digests, and keys with
no row, are values of their own.

**Migrator.** State and code correspond like this:

| Variable | In the code |
|---|---|
| `ledger[s][q]` | the row of `public.migrations` with scope s = (app, schema) and sequence q |
| `landed[s][q]` | what DDL of number q is in the schema: the pieces, in the order they ran. The library never sees it; the properties compare the ledger with it |
| `namespace`, `tracker` | schemas that exist; whether the tracking tables do |
| `repairs` | `public.migration_repairs` |
| `lock` | whose *session* holds the advisory lock |
| `pc`, `call`, `todo`, `stmt`, `outcome` | where a process is in `applyMigrations`, its arguments, `toApply` (and before it the rows to stamp), the next statement of a no-transaction file, the value to return |

One action per statement of the protocol: `Begin`, `EnsureSetup`, `ReadForStamps`, `Stamp`,
`CheckUnlocked`, `AcquireLock`, `CheckLocked`, `EnsureSchema`, `ApplyOne`, `ClaimNoTx`,
`ExecNoTx`, `FinishNoTx`, `MarkFailed`, `Unlock`, `Validate`. What a statement changes in
the database is an operator of its own (`CommitMigration`, `ClaimRow`, `StampRow`, ...),
because failures use it too: `StatementFails` (an error, no effect), `ConnectionLost` (an
error, with or without the effect, and the session's lock is gone) and `Crash` (the same,
and the process starts over).

Modelling decisions a reader should know:

- A process whose session died keeps running the code, but cannot reach the database:
  every later statement fails (it is pinned to that session, `postgres.go:391-393`).
  A statement in flight when its session ends takes effect before the lock is given up,
  never after: Postgres releases session locks when the backend ends, and the backend that
  runs the statement is the one that holds the lock. A session the server keeps after its
  client died only delays the others.
- `search_path` failures, template failures and the refused `$$` body are statement
  failures before any effect. A no-transaction file has at least one statement.
- Conversions and strict integrity are off here (the default), so `reconcile` does
  nothing; `Conversion` switches them on.
- Histories are sets of files an older release applied, with or without recorded
  identities, always without a semantic digest.
- Any file may be shipped by any tree; a tree may be out of order or badly named, and is
  then refused by `ValidateSequences`.

**Rollout.** What a caller is promised who sees neither processes, locks nor retries:
`status` of each number (absent, running, failed, applied), the pieces of DDL it left, and
the one number that is `active`, being run statement by statement. `Land` is a
transactional file, `Claim`, `Progress`, `Fail`, `Finish` and `Abandon` the life of a
no-transaction one. `Migrator` implements it under the mapping `Statuses` (a row's
status), `landed`, `Running` (the number whose file the owner of the lock runs);
`ImplementsRollout` is checked by TLC and proved.

**Conversion.** `schema[s]` is what lives in the schema of a scope, as a set of lines of
its fingerprint; `stray[s]` is what no row accounts for (a database without a ledger, an
object made by hand); `recon[p]` is where a process is in `reconcile`. `Shape` says which
lines each statement of a file makes, so a scratch build is a union, and a conversion's SQL
drops some lines and adds others. `reconcile` runs while `Migrator` has the process at its
first check: `Consider` and `LookForTables` read without the lock, `LockForReconcile`
takes it, `Reread` reads again and chooses (the first conversion whose chain the ledger
records; without rows each conversion by shape; drift otherwise), `Convert` and `Settle`
are the two transactions, `TryNext` the next shape, `RefuseConversion` and `RefuseDrift`
the errors, `UnlockReconcile` the deferred unlock. `ReconcileFails` and `ReconcileCut` are
failures, crashes and lost COMMITs of each step; a transaction's writes (`ConvertWrites`,
`SettleWrites`) are operators so that a cut-off COMMIT can land. `Migrate` is every step of
`Migrator`, with its effect on the schema. Every scope has a schema of its own; without one
(`WithSchema` not called) there is nothing to fingerprint. No operator repairs rows
meanwhile. Two lanes that disagree about the bytes of a baseline re-stamp each other's
digests for ever, so a bound (`MaxAudits`) ends the calls of the model.

**Repairs.** `desk[p]` holds what an operator's call read and is about to write.
`RepairRead` and `RepairWrite` are separate steps, as in the code, and everything else may
happen between them. `adopt --all-unmatched` writes row by row, one transaction each.
`Baseline` plans and commits under the lock; the commit is one transaction that fails when
a row it means to insert has appeared. Operators run outside CI and give a reason
(otherwise `validate` refuses before anything happens); a dry run is a repair given up
before its write.

**Sessions.** `Migrator` says only whose session holds the lock; this module opens that
up. `session[s]` is what a connection of a pool is: idle, lent, closing (dropped by the
client, still alive at the server, with its lock) or gone. `holder` and `depth` are the
server's advisory locks: one session may take the same lock again. `mu` and `lockConn` are
the fields of a `Postgres` or `Tracker` object, `uses` the connection a goroutine has.
The actions follow a call: `SetupConn`, `Setup`, `Check` (statements that borrow a
connection), `EnterLock`, `LockConn`, `Granted` or `LockFails` (`lock()`, inside the
mutex), `Work` or `SetPath` and `RestorePath` (the files, on the pinned session),
`Unlocked` or `UnlockFails`. A lock that failed may have been granted; an unlock that
failed may have released. `Dispose` is where a Postgres and a Tracker differ: the first
discards the session, the second closes its `sql.Conn`, which pools it. A call runs at
most one no-transaction file, as its last (a second one would repeat the same steps on the
same session).

**ClickHouse.** `ledger` and `lock` are in Postgres, `effects` (statements that took
effect) in ClickHouse, `ghosts` (replicas registered in Keeper that no table owns) in
Keeper. The tracker writes on the lock session only (`Executor`), so a process that lost it
writes no row any more; its statements still reach ClickHouse. A statement whose client is
gone is an `orphan`: it may take effect later or never. `retry` is the state of
`execStatements`: the statement, the backoffs so far, `droppedStaleReplica`. Whether an
error is transient, permanent or a replica collision is the server's choice; a process
that may not read `system.replicas` takes the answer "no owner". `leaked` says that a
failed unlock (or a failed lock that was granted) left the lock with a pooled session, as
in `Sessions`; that process may be granted it again, others wait. Statements are
idempotent, as README.md:478-482 asks, so `effects` is a set.

**Scanner.** A text is a sequence of characters; the alphabet has one member for each
class the scanners tell apart. `SplitStatements`, `SqlTokens` and `StripComments` are recursive functions
over positions with the branches of the Go loops, in their order; `SubstituteTemplates`
follows the index arithmetic of the original. Texts grow piece by piece (`Write`).

**Chain, Check.** A file name is its digits (with leading zeros) and whether it ends in
`.up.sql`; a body is a sequence of lines, each with a waiver or one statement over a table.
The lint matches regular expressions, so a line also says how it is written: whether the
table has its schema, is quoted behind it or from the start, and follows a word the pattern
may take for a name (`IF EXISTS`, `ONLY`); whether the clause is in the words a pattern asks
for (`plain`); and whose `NOT VALID` stands behind it. `Reading` is what `[\w.]+` captures:
nothing of `"users"`, `app.` of `app."users"`, `IF` of `IF EXISTS "users"`. In `Check`
a draft grows line by line, is discarded or merged (when `runCheck` of the directory with
it passes), and is deployed; one file waits for deployment at a time. Every table that was deployed has rows that comply with no new constraint.

## 3. Runs

| Run | Instance | What it shows |
|---|---|---|
| `safety` | two processes, one scope, five trees, three numbers, strict ordering on | the properties of the apply path, and that it implements `Rollout` |
| `conversion` | two processes, one scope; an older release, the rebaselined one, a lane with an edited baseline; with and without a ledger | the properties of conversions and strict integrity |
| `live` | two processes, two scopes, conversions, drift and a no-transaction file | every call returns |
| `repairs` | two processes that boot or repair, two trees, one legacy row | the properties of repairs and baseline |
| `sessions` | two goroutines on one migrator, a third with its own, all on one connection | the pool stays clean, one of them works at a time, every call returns |
| `clickhouse` | two processes, four trees, a file of two statements of which one creates a replicated table, one backoff | the properties of the ClickHouse migrator |
| `scanner` | all texts of at most five pieces over two alphabets | the three scanners agree; values are data |
| `check` | ten file names, bodies of at most three lines over twenty-three ways to write one | the properties of the merge gate |
| `finish`, `tracker`, `strict`, `dollar` | the same instances | four places where the code does not do what its documentation says (section 6) |

Why these bounds are enough. Two processes give every pair of conflicting steps; a third
could only wait for the same lock or repeat one of them. Three numbers give a file below,
at and above another one. The five trees are the five relations a tree can have to the
ledger: complete; missing a number in the middle (and with an edited comment); claiming
the number of another file; out of order; misnamed. The no-transaction file has two
statements, so there is a state in which it is half done. In `repairs`, `MaxRepairs` = 1
bounds the trail when a repair begins: one repair is recorded when another one starts, and
repairs that began earlier still write after it, so verbs race each other as well as
migrators; the edited file there has other SQL, so drift is real. Symmetry of the two
processes is used in the safety runs only. In `conversion`, three audit rows let a
conversion of two files be followed by a re-stamp and that by another lane's; in `live`,
one: a second conversion of a scope is not possible. In `scanner`, five pieces are an
opening, a hidden delimiter, a closing, a delimiter and what follows it; pieces of two or
more characters (`--`, a comment that hides a semicolon and a quote, a template) make the
texts longer. In `check`, three lines are a repair, a creation and a constraint in every
order, over two tables, each of them written plainly or in a way the scan reads short; the numbers include two spellings of zero, one and two, two-digit numbers that sort
otherwise as text, and `MaxInt64` = 20 puts one of them out of range.

Properties of `safety`:

- `LedgerTellsTheTruth`: a row that reads applied stands for exactly one complete run of
  the file it names; no row, no DDL; a dirty row, a prefix of one run. Violated by any
  repetition, any forgotten landing, any landing under another name.
- `SuccessMeansApplied`: after a call returned nil, and for good, every file it shipped is
  complete and landed under its name (unless the row predates names).
- `ValidatedMeansComplete`: the same for the startup gate, number by number.
- `SchemaBeforeDDL`: no DDL before the schema exists.
- `DirtyRowBlocks`: an abandoned half-run stops the scope: no DDL lands there and nobody
  touches the row, whatever tree they ship and whatever they had read.
- `LandsInOrder`: strict ordering holds at the moment DDL lands, not only when checked.
- `ExceptionsAreAudited`: the audit trail only grows, and a step adds exactly one row for a
  number, with the identity its row now has, if it makes an exempted migration applied there,
  and none otherwise.
- `ImplementsRollout`: every step of processes, locks, failures and retries is a step of
  `Rollout` or no step at all.
- `StatusErrorsBlock`: an apply that holds the lock and is past its check is never about to
  start a file while `Status` would report an error for its tree (unless an ordering
  exception was asked for); the apply and the report find a dirty row without a file in
  different branches of `analyze`, and rows go on changing after the check.

Properties of `conversion`:

- `RowsExplainSchema`: unless a no-transaction file is half done, the live schema is the
  fresh build of the files the rows record, plus what was there without a ledger. A
  conversion that makes something else, a crash between its statements, a stale look
  before the lock, a re-stamp of an edit that was not behaviour-preserving: each would
  break it.
- `RestampsOwnFiles`: drift is not settled on the strength of a file whose number another
  file took. True of this instance, where three trees disagree about number 2; what it
  depends on is said in section 6, what depends on it in section 4.
- `ReplacementsAreAudited`: a row that is rebound or forgotten has exactly one audit row in
  that step, from the identity it had to the one it has. (Repairs do not promise the first:
  they read the old identity before their transaction.)

The lane of the instance declares a conversion with a defect (it forgets to drop a table),
the new release's own is right; both must end in a truthful ledger.

Properties of `scanner` and `check`:

- `SplitKeepsTokens`: where no quote is left open, the tokens that are hashed, cut at their
  semicolons, are those of the statements sent. The splitter and the tokenizer disagree
  about nested comments, backticks, and comments that touch an operator or stand alone
  between two words; the alphabet leaves those out, and section 6 lists them.
- `StripKeepsCode`: over the text the lint strips of its comments, the tokens are those of the
  file and lines stay lines: no constraint is hidden, no commented DELETE is a repair. Quoted
  names, backslashes and dollar bodies are excluded by the formula: the stripper does not
  know the first two, and blanks the third on purpose.
- `ValuesAreInert`: filling in a value and filling in a mark that is replaced later give the
  same text, though the value of the run looks like a template.
- `KeysAreNumbers`: in a directory that `Load` accepts, `Prefix` of every name is the decimal
  form of its number, and the chain is one `ValidateSequences` accepts.
- `CheckedChainsDeploy`: after any sequence of merges and deployments, the identity check in
  strict order has no error.
- `LintedFilesDeploy`: in a file that passed without a waiver, no `Legible` constraint meets a
  table that was there before and that is not repaired by that line, however the other lines
  are written: a quoted CREATE TABLE does not exempt it, DML over another quoted table does not
  repair it. Legible is a clause in the words of a pattern over an unquoted table, or an
  ALTER TABLE over a name quoted from the start, which the lint reports as UNKNOWN. Of anything
  else the code keeps no promise (section 6): TLC finds the property violated when any one
  part of `Legible` is dropped.

Properties of `repairs`:

- `DigestsAgree`: content and semantic digest of a row are of one file. The back-stamp runs
  without the lock; its conditional UPDATE is what keeps this.
- `DirtyEndsOnRecord`: an unfinished row ends by its own run or by a recorded resolve.
- `RebindingIsAudited`: a number that changes its file, or loses its row, has an audit row
  in that step naming what it is bound to now.
- `BaselineStopsApply`: what a baseline recorded is never run.

Properties of `sessions`:

- `PooledSessionsAreClean`: no idle connection holds an advisory lock or the search_path of
  a schema, whatever failed before it was returned.
- `WorkIsExclusive`: the server would grant a shared session its own lock again; pinning
  the connection is what keeps two callers apart.
- `EveryCallReturns`: with one connection for three goroutines, nothing waits in a circle
  of pool, mutex and lock. Everything under the lock runs on the pinned session; `lock()`
  waits inside `lockMu`, but never while its own object holds the lock.
- `SessionsOK` includes that `lockConn` is the connection of the one caller past `lock()`,
  and nil otherwise: an object stays usable after any failure.

One connection is the hardest size for waiting. Two goroutines on one object are needed
for `lockMu`, a third caller for the lock. A pool may have one session more at the server
than it may open, so that a dropped session can still hold the lock. For safety in larger
pools, see the proofs; `tracker` runs in two pools, one per process.

Properties of `clickhouse`:

- `EffectsAreRecorded`: whatever ran, even late or by a migrator that lost its lock, is of
  the file whose name and digest the row has.
- `AppliedMeansComplete`, `SuccessMeansApplied`: as for Postgres, row by row and call by
  call.
- `AppliedIsFinal`: a migrator cut off half-way cannot put a finished row back to running.
- `RetriesEnd`: the loop of `execStatements` ends, also when a replica comes back after it
  was dropped or a table never appears.

What does *not* hold there: that only the holder of the lock runs statements. A migrator
whose lock session died goes on with the statements of its current file next to its
successor (`Ran` has no guard on the lock). They are of the same file, recorded with the
same digest, and idempotent by contract; nothing in the code fences them off. The backoffs
are bounded by `MaxWaits` (five in the code: 1+2+4+8+16 s exceed the 30 s), one in the run:
a second wait repeats the first.

Fairness of `sessions`: strong fairness of each caller's next step, because a connection, the
mutex and the lock are handed to those who queue for them; no caller is obliged to fail or
to be cancelled, only to notice that its own connection is dead; the server ends dead
sessions (weak). `clickhouse` assumes weak fairness of statements and waits only.

`live` assumes fairness: weak fairness of the steps of a process, those of reconcile
and those of the apply (a process that is not
dead goes on executing its code; a crash is an action of its own, never forced), and strong
fairness of the three steps that wait for the advisory lock (PostgreSQL serves waiters of a
heavyweight lock from a queue, so a waiter is not overtaken for ever). Failures, crashes
and new calls are not fair: they may or may not happen, any number of times.

Every property has a mutant: a change to the modelled code, of the kind a real edit could
make, under which the run finds the property violated (`PROJECT.json`, "mutants").

## 4. Proofs

Every property of `safety`, `repairs`, `sessions`, `clickhouse` and `check` that is not a liveness
property is proved; so are those of `conversion`, two of them under a condition on the trees, and
those of `scanner`: the one about templates as it stands, the two about the scanners under a
condition on the text.

### The apply path

`MigratorProofs` proves about `Migrator`'s `Spec`, for every set of files,
trees, processes, scopes, histories and exemptions that satisfies the named assumptions:

| Theorem | States |
|---|---|
| `TypeOKAlways` | `[]TypeOK` |
| `Invariance` | `[]IInv`, the inductive invariant |
| `LedgerTruthAlways` | `[]LedgerTellsTheTruth` |
| `SchemaFirstAlways` | `[]SchemaBeforeDDL` |
| `SuccessMeansAppliedAlways` | `[]SuccessMeansApplied` |
| `ValidatedMeansCompleteAlways` | `[]ValidatedMeansComplete` |
| `DirtyRowBlocksAlways` | the action property `DirtyRowBlocks` |
| `LandsInOrderAlways` | the action property `LandsInOrder` |
| `StatusErrorsBlockAlways` | `[]StatusErrorsBlock` |
| `ExceptionsAreAuditedAlways` | the action property `ExceptionsAreAudited` |
| `ApplyImplementsRollout` | `Spec => ImplementsRollout` |

The argument. `LedgerTellsTheTruth` is not inductive: that `CommitMigration` may append the
pieces of a file depends on there being no row for it, which `CheckLocked` saw some steps
earlier. `IInv` says why that still holds when the file lands:

- `TypeInv`: the types, and that every tree in use is a valid chain;
- `LockInv`: the lock names at most one process, and only one that is past `AcquireLock`.
  A process past it owns the lock session, or is cut off and on its way out (`unlock`,
  `markFailed`), so all *writes* of rows,
  save the stamps, are by one process;
- `WorkInv`: for the process that owns the lock, the files left in `todo` have no row (or,
  while a no-transaction file runs, the row it claimed and exactly the pieces its statement
  counter says);
- `VerdictInv`: what a successful call concluded about its files stays so;
- `LedgerTellsTheTruth` and `SchemaBeforeDDL`.

Stamps are the only writes without the lock; lemmas show that they change nothing but the
semantic digest, so no judgement of `IInv` moves. `DirtyRowBlocks` needs one more
invariant (`DirtyStampedAlways`): a dirty row always has its semantic digest, so not even a
stamp touches it. `LandsInOrder` needs `OrderInv`: of what is left in `todo`, nothing that is
not exempt lies below a recorded file of the tree. `CheckLocked` establishes it, because
`analyze` compares with the highest recorded file (`HighestRecorded`: a non-empty finite set
of numbers has one); it stays so because files land in ascending order and all other rows
stand still under the lock. `StatusErrorsBlock` follows from both: the rows that changed since
the check are those of files of the tree, recorded under their own names, or stamps; none of
them is a discrepancy (`NoErrorsAtWork`). For `ExceptionsAreAudited`, a lemma counts the new
audit rows of each effect: one for an exempted landing, none for anything else. The proof of
each step lists the actions one by one, and a failure that
hides an effect reuses the lemma of that effect (`Writes`).

The assumptions are those the code or Go's types justify: names determine numbers, equal
bytes mean equal tokens and directive, NULL is not a name or a digest, and an older
release applied one file per number. TLC evaluates them on every run.

The refinement (`ApplyImplementsRollout`) follows from `IInv` and one conjunct more, that
the row of the file being run reads `running`: `IInv` says what the owner of the lock is
about to do, hence which phase the number is in; each action maps to one step of `Rollout`
or to none, a stamp or another process's step to none, and a failure that hides an effect
to the effect's step with `active` given up.

### Sessions

`SessionsProofs` proves about `Sessions`, for any number of pools, objects, callers,
connections and keys:

| Theorem | States |
|---|---|
| `SessionsInvariance` | `[]SInv`, the inductive invariant |
| `SessionsOKAlways` | `[]SessionsOK` |
| `WorkIsExclusiveAlways` | `[]WorkIsExclusive` |
| `PooledSessionsAreCleanAlways` | `[]PooledSessionsAreClean` where no object is a Tracker |

`SInv` adds to `SessionsOK` that two callers never use one connection and that who works
holds the key on its own: mutual exclusion then rests on the server granting a key to one
session only, and on two callers never having one session. The last theorem needs that no
object is a Tracker; with one, the run `tracker` shows it false.

### ClickHouse

`ClickHouseProofs` proves about `ClickHouse`, for any files, trees, processes, statements and
bound on backoffs:

| Theorem | States |
|---|---|
| `ClickHouseInvariance` | `[]CInv`, the inductive invariant |
| `ClickHouseOKAlways` | `[]ClickHouseOK` |
| `EffectsAreRecordedAlways` | `[]EffectsAreRecorded` |
| `AppliedMeansCompleteAlways` | `[]AppliedMeansComplete` |
| `ClickHouseSuccessAlways` | `[]SuccessMeansApplied` |
| `AppliedIsFinalAlways` | the action property `AppliedIsFinal` |

Here the lock does not protect the statements, so the argument cannot be "only the owner
acts". What `CInv` says instead:

- of every process, on or off the lock: the file at hand, if its row was written, is
  `Identified` by that row, and the statements before its counter took effect (`WorkOK`);
- of the owner of the lock only: the row of the file at hand is unfinished, so that marking
  it running or applied overwrites nothing that is final (`ClaimOK`);
- of every process: the files it is done with read applied under their names (`DoneOK`), which
  no later step can change;
- of every statement that took effect or is an orphan: the row of its number identifies its
  file (`EffectsOK`). An orphan is therefore harmless whenever it lands.

All of it rests on rows never changing the identity they have, which `Identified` carries from
step to step. The assumption is that a file is known by its name and its content, as Go's
`Migration` is. That `apply` takes the first file left needs a least number
(`LeastNumber`, from well-foundedness of the naturals by a minimal counterexample).

### Repairs and baseline

`RepairsProofs` proves about `RepairSpec`, operators and migrators interleaved, for any
number of each, any files, and any bound on repairs:

| Theorem | States |
|---|---|
| `RepairsInvariance` | `[]RInv`, the inductive invariant |
| `DeskOKAlways` | `[]DeskOK` |
| `DigestsAgreeAlways` | `[]DigestsAgree` |
| `DirtyEndsOnRecordAlways` | the action property `DirtyEndsOnRecord` |
| `RebindingIsAuditedAlways` | the action property `RebindingIsAudited` |
| `BaselineStopsApplyAlways` | the action property `BaselineStopsApply` |

`IInv` is not an invariant here: an operator may bind a row to another file, or mark applied
what never ran, so the truth about the schema is given up and what is left is what locks and
transactions guarantee whatever operators claim:

- `AtMigration`: for the owner of the lock, files it has yet to start have no row, and no file
  it may still land was last recorded by a baseline. Verbs without the lock insert no rows, and a
  baseline has the lock;
- `AtDesk`: what a call at its desk read and holds: which files, in which order, under which
  lock;
- `BaselinesStand`: a number that a baseline recorded has a row until something else is
  audited about it;
- `DigestsAgree` is inductive with the types: the stamp compares the content digest in the
  statement that writes, and every other writer sets both digests.

A baseline commits row by row in ascending order in one transaction; the audit rows and the
ledger it leaves are described for any finite set of numbers (`InOrder` is *the* ascending
enumeration; `Enumerates` and `Ascending` show that it exists and meets each number once).

### Conversion

`ConversionProofs` proves about `ConversionSpec`, processes that reconcile and migrate
interleaved, for any number of each, any files and what they make, any declared conversions:

| Theorem | States |
|---|---|
| `ConversionInvariance` | `[]KInv`, the inductive invariant |
| `ConversionOKAlways` | `[]ConversionOK` |
| `ReplacementsAreAuditedAlways` | the action property `ReplacementsAreAudited` |
| `RowsExplainSchemaAlways` | `[]RowsExplainSchema`, of behaviours with `[]RestampsOwnFiles` |
| `RestampsOwnFilesAlways` | `[]RestampsOwnFiles`, if `DisputedFilesShow` |
| `SchemaIsExplained` | `[]RowsExplainSchema`, if `DisputedFilesShow` |

`IInv` does not survive here either: a conversion rebinds rows to files that never ran, and
settling drift gives a row the digest of an edition that never ran. `KInv` is what remains:

- `Visible`: whatever piece of a file landed, what it makes is in the schema;
- `RowsOK`: a row without a name has no digest, and two digests of a row are of one file;
- `ReconOf`: what a reconcile read after it took the lock is still in the ledger while it
  holds it, up to a semantic digest stamped meanwhile (`SameRow`). The lock is what makes the
  second read (`conversion.go:113-115`) worth more than the first;
- `AtWork`: the owner of the lock that applies knows of no unfinished row but its own
  (`Claim`), and of no row for what it has yet to start.

`ReplacementsAreAudited` follows from `ReconOf` and from what the audit trail of one
transaction contains: `AuditSeq` has one row for each key, with the identity that was read
(the old one), and the keys of forgotten rows and of replaced rows have none in common.

`RowsExplainSchema` needs an account that is kept from step to step. `Explained(s)` says that,
unless a row is unfinished and nobody attends to it, one file can be chosen for each applied
row so that these files, what has no row, and the statements of the file under way make
exactly what is there. Then:

- a commit adds its file to the choice, a claim or a statement only changes what is under way,
  and the last statement of a file outside a transaction turns it into a file of the choice;
- a conversion replaces the choice by the leading files of the tree: `Verified` compared the
  schema it leaves with their build;
- settled drift keeps the chosen file of a row that is not the tree's, and takes the tree's for
  those that are; `BuildUnchanged` compared the schema with the build of the tree's recorded
  files. That these are the files their rows name is `RestampsOwnFiles`.

`RestampsOwnFiles` cannot be had from the code alone, which matches files and rows by number:
section 6 says what goes wrong without it. `DisputedFilesShow` is a condition on the files under
which it can be had: a file whose number another one claims too makes something that nobody made
by hand and no other file makes. Then a file that did not run shows in every comparison, because
what it makes is missing. The invariant behind this is `Traced`: every line of the schema was
made by hand or by a file whose row, of that number, does not name another file. A conversion
takes the rows along with what their files made, settled drift renames no row, and a landing
adds its own. The files of both conversion
instances meet it (`2_more` and `2_posts` dispute number 2, each makes a table of its own), and
with no strays, as in `live`, the instance does. In `conversion` a database without a ledger
holds those very tables: TLC checks there what the theorem leaves open.

### The merge gate

`CheckProofs` proves about `Check`, for any set of files with any names, bodies of any length
and any largest integer:

| Theorem | States |
|---|---|
| `KeysAreNumbersAlways` | `[]KeysAreNumbers` |
| `CheckedChainsDeployAlways` | `[]CheckedChainsDeploy` |
| `LintedFilesDeployAlways` | `[]LintedFilesDeploy` |

`KeysAreNumbers` is about text and arithmetic: `Value` reads digits as a number, `Decimal`
writes a number as digits, and `Prefix` strips zeros. `DigitsAreDecimal` says that digits
without a leading zero are the decimal form of their value, by a minimal counterexample in the
length of the text; `KeysTellFiles` that two files of one number have one prefix, which is what
`Load` refuses; `LoadOrders` that what `Load` returns is an ascending enumeration of the files.

`CheckedChainsDeploy` needs `ChainInv`: the merged files are a chain without a gap or a
duplicate (`CheckChain`), every row is one of theirs, and at most one file is not deployed yet,
the last one. The highest recorded file is then never above a file that is waiting
(`NextNumber`: a new last file of a checked chain has the next number). `LintedFilesDeploy`
needs `LintInv`: what waits was linted with the very body it is deployed with. A legible
constraint is read as it is meant or not at all (`LegibleReading`); whatever line the scan takes
for a creation or repair of that name is one, because no short reading is the name of a table
(`ReadAsNamed`). The assumptions are that a file's number is read from its name
(`NamesAssumption`), and of the lines, which are otherwise arbitrary, that no table is called
`if` or `only` and that a name quoted behind its schema has one (`LinesAssumption`).

### Text conversions

`ScannerProofs` proves about `Scanner`, for texts of any length over any characters:

| Theorem | States |
|---|---|
| `ValuesAreInertAlways` | `[]ValuesAreInert`, for any values |
| `StripKeepsLines` | the stripped text is as long as the text and has its line ends, whatever opens or closes in it |
| `StripKeepsCodeAlways` | `[](Tidy(text) => StripKeepsCode)` |
| `SplitKeepsTokensAlways` | `[](Orderly(text) => SplitKeepsTokens)` |

The assumptions (`TextsAssumption`) are those of the proof idea of the first: the mark and the
refusal are not characters of a text. The conversions are recursive functions over positions.
That each is defined, and by what equation at each position, is shown by constructing it from the
end of the text (`BackwardRecursion`, again a minimal counterexample); `FillUnfolds`,
`StripUnfolds`, `LexUnfolds`, `NestedUnfolds`, `QuotedUnfolds`, `SplitUnfolds`, `GroupsUnfold` and
`NonEmptyUnfolds` do so.

`FillsMirror` goes backwards over the positions: what has become
of the rest of the text with a mark and with the value either are both refused, or the second is
the first with its marks replaced, because the scan goes on at the same position in both and
replacing marks distributes over concatenation (`ExpandConcat`).

For the stripper, `Code(t)` is the set of positions it stops at: the least set that has the
first one and is closed under where the scan goes on. What stands in the stripped text from
such a position on is known (`CodeIsShown`). `CodeStays` goes backwards over these positions: the
tokens of the text and of the stripped text are the same from each of them on. At a comment the
tokenizer of the text goes on where the stripper does, and that of the stripped text reads over
blanks up to there (`BlanksPass`); anywhere else both find the same token, and the stripper stops
where it ends (`TokensStand`). That last part is the crux: the tokenizer passes a word, a run of
operators or a literal with doubled quotes at once, the stripper stops in it several times
(`WordsStand`, `OperatorsStand`, `LiteralsStand`).

`Tidy(t)` says that where the stripper reads code, no comment holds another one's opening or
closes on the star that opened it, and no comment touches an operator before it. None of these
can be dropped: `sqlTokens` nests comments, does not let one close on its own star, and takes
`--` after `=` for more of the operator (section 6). Every text of `scanner` that `StripKeepsCode`
is about is tidy.

For the splitter, `Stops(t)` is the set of positions *it* stops at. A piece is a stretch of the text
with its comments cut out, so sqlTokens reads it out of context: what it makes of a piece must
not depend on what stands around it. `Matches(h, tokens)` says so: wherever `h` ends some text,
up to the blanks at its ends, the tokenizer reads `tokens` from its first position on.
`RestMatches` goes backwards over `Stops(t)`: the pieces of the rest match, one by one, the groups
its tokens make when they are cut at semicolons. A token goes in front of the first piece
(`TokenMatches`), a blank changes nothing (`SpaceMatches`), a semicolon opens a new pair
(`NewMatch`). Here too the crux is what one scanner passes at once and the other in steps: the
splitter copies a word or a run of operators character by character (`RunCut`), and a quote ends
in one place for both (`QuotesAgree`). Trimming a piece leaves its match (`TrimmedReads`), and the
statements dropped as empty are those without tokens (`KeptTogether`).

`Orderly(t)` says that there is no dollar sign in the text and that, where the splitter reads code,
there is no backtick, every quote is closed, no comment holds another one's opening, a block
comment is followed by a blank, a semicolon or the end of the text, and no comment touches an
operator before it. Each names one of the disagreements of section 6 (dollar-quoted bodies are
`dollar`'s). A comment that is followed by anything else is excluded although only one between
two words matters. Every text of `scanner` without dollar signs whose quotes are closed is orderly.

### Only model-checked

Liveness (`EveryCallReturns` in both forms, `RetriesEnd`), which needs ENABLED. And
`RestampsOwnFiles` where `DisputedFilesShow` does not hold.

## 5. What is not modelled

- The catalog queries of `fingerprint.go` and the canonical form of expressions: what
  PostgreSQL prints. A fingerprint is the set of its lines.
- A migrator without a schema of its own under strict integrity (it refuses at once).
- Operators at work during a conversion; each is composed with the apply by itself.
- Several apps on one ClickHouse target: they share the lock, not the rows. `Applied()`
  there is the setup and a read.
- Which rows a baseline may retire is modelled as the code does it (below the tree's last
  file, its gaps included); no property judges the operator's claim behind it.
- `rewriteSchemaRefs` (a regular expression over whole words). The lint's regular expressions
  character by character: they are modelled by what they capture of a name and by which
  wordings they know, and the words they look for stand nowhere else (in a string, say, or
  in `ON CONFLICT DO UPDATE SET`, where SET is read as a table).
- The rendering of the status report, the command line other than `check`, build files and
  test helpers: no protocol of their own.

## 6. Where code and documentation disagree

Each of these is a run that TLC must find violated.

- `finish`: a no-transaction run (notx.go:36-37) whose row was deleted meanwhile returns
  nil and records nothing.
- `tracker`: closing the tracker's connection is said to release the lock even when
  `pg_advisory_unlock` failed (tracker.go:121-122); `Close` of a `sql.Conn` returns the
  session to the pool with its lock, as postgres.go:227 says.
- `strict`: strict integrity refuses to apply over an applied migration that was edited
  (conversion.go:79-81), but decides before the apply takes its lock; under the lock, drift
  is a warning. A lane that lands its own edition of a file in between is applied over.
- `dollar`: callers that can meet a dollar-quoted body must reject it (splitsql.go:15-16);
  the no-transaction path looks for `$$`, and a tagged body is cut at its semicolons.

Also seen while modelling; no run of its own:

- Strict ordering (README.md:231) overlooks an applied row whose file the tree does not
  carry (`strict.go:289-295`), and `ValidateAllApplied` compares numbers only, so another
  file claiming an applied number (README.md:276) passes it (`postgres.go:461-467`).
- `RepairResolve` (notx.go:198) and accept-content (repair.go:244-245) check a row before
  their transaction and do not ask again in it: a resolve can delete a row that reads
  applied by then, an accept can rebind one that an adopt gave to another file. An adopt
  renames a running row too (repair.go:305), and its run finishes with digests of its own.
- The lint is said to still SEE a statement it cannot understand, and never to assume that
  there is nothing (repairtotality.go:27-32). `Legible` is where the code keeps that. It does
  not see: ADD CHECK, FOREIGN KEY, UNIQUE or PRIMARY KEY without a name or with a quoted one;
  `UNIQUE NULLS NOT DISTINCT`, `UNIQUE USING INDEX`; ADD of a NOT NULL column without the word
  COLUMN, with a quoted name, or with a comma before NOT NULL (`numeric(10,2) NOT NULL`); SET NOT
  NULL and TYPE of a quoted column; VALIDATE of a quoted constraint; a validating constraint followed by another clause's NOT
  VALID in the same ALTER TABLE; a unique index without a name, with a quoted one or with USING,
  or over a quoted table. It reads `app."users"` as a table `app.`, so CREATE TABLE `app."x"`
  exempts it and DML on `app."orders"` repairs it; `IF EXISTS "users"` is table IF and
  `ONLY "users"` table ONLY, with the same effect. It also takes `CREATE TABLE IF NOT EXISTS`
  of a table that exists for a new one, and unqualified DML for DML on the table of any schema.
- String literals are skipped "so their contents cannot look like DDL" (repairtotality.go:122),
  but they stay in the text the regular expressions search: `DELETE FROM users` in a string
  counts as a repair.
- `rtStripComments` takes `/*/` for a whole comment and the text after it for code, so a
  commented DELETE may count as a repair (repairtotality.go:85-87); it does not know quoted
  names, so `--` in one hides the rest of the line.
- Settling drift rebuilds "the tree's applied migrations" (conversion.go:79-82), but takes
  for them every file of the tree whose *number* has a row (`conversion.go:298-304`), also one
  whose number another file took. An edit that lost an object is then re-stamped if a file that
  never ran happens to make it, and the rows no longer explain the schema. The instance of
  `conversion` has no such file: a number of its trees that another file took makes nothing
  an edited file lost.
- `SplitStatements` glues two words when the comment between them has no blank beside it;
  `sqlTokens` takes a comment that follows an operator for part of it; the two disagree on
  nested comments and on backticks.

## 7. What could come next

1. `Repairs` composed with `Conversion`: the same rows, the same audit trail.
2. The lint from the text up, on `Scanner`'s alphabet.
