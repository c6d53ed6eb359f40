# Verification of yoyo-database-migrations

TLA+ models of yoyo's locking, of the upgrade of its own tables, of the commands
that change a database, of how the steps of one migration are applied and
undone, of the order in which migrations are applied, and of how new ones are
created; TLC checks them on small instances and TLAPS proves the central results
for every instance. Paths are those of the repository
(`src/yoyo/...` is written `backends.py`, `migrations.py`, `migrate.py`).

## 1. Inventory

| Component | State | Operations | Correct when |
|---|---|---|---|
| Migration lock (`backends.py:285-345`) | the row of `yoyo_lock`, `_is_locked` of each backend object | `lock()`, `_insert_lock_row`, `_delete_lock_row`, `break_lock` | bodies of `lock()` exclude each other; nobody deletes a foreign row; a row that nobody stands behind stays until the operator removes it; every call ends |
| Sessions (`migrate.py:135-262`, `backends.py:399-552`) | the migrations table, the log table, the schema itself, the list a command works through | `apply`, `rollback`, `reapply`, `mark`, `unmark`, post-apply hooks | only the holder of the lock writes; table, log and schema agree; dependencies stay recorded; what was selected is applied, in order |
| Steps (`migrations.py:113-325`, `backends.py:36-140, 221-283`) | transaction and savepoints, `executed_steps`, nesting of wrappers and groups | `process_steps`, `TransactionWrapper`, `Transactionless`, `StepGroup`, `MigrationStep` | a failure leaves no trace; an ignored error loses the steps under its wrapper, no others, and does not stop the migration; rollback undoes |
| Dependency order (`migrations.py:506-618`) | none | `ancestors`, `descendants`, `topological_sort` | dependencies first, a permutation, raises on cycles only |
| Transaction flag (`backends.py:36-140, 186-283`) | `_in_transaction`, autocommit of the connection, `has_transactional_ddl` | `begin`, `commit`, `rollback`, `disable_transactions`, the DDL probe | the lock row goes with the command, and stays just where the flag or autocommit keeps its DELETE from being committed, or the command dies |
| Internal schema (`internalmigrations/`, `backends.py:374-397`) | the version table, yoyo's own tables | `needs_upgrading`, `upgrade` | no history is lost, whoever upgrades and wherever it stops; nobody works on an old schema |
| Loading (`migrations.py:54-111, 327-486`) | the registry `__all_migrations`, steps of a collector | `Migration.load`, `read_migrations`, `StepCollector`, `MigrationList` | `__depends__` means the migration that is in the list |
| Prompt (`migrate.py:270-380`) | position in the list, choices | `prompt_migrations` | what the user confirmed is what runs |
| New files (`newmigration.py`) | the directory, a temporary file | `make_filename`, `heads`, the editor loop | a new migration comes behind what its author had read; what it depends on is there |
| Connections, drivers, configuration, command line, terminal | connection parameters, ini file | parsing, I/O | no protocol; not modelled |

A command line becomes a session: `main` opens a backend and the command runs
under `lock()`. Its first question about applied migrations goes through
`ensure_internal_schema_updated`, which may upgrade the schema under a nested
`lock()`. Then `get_migrations` reads the table of applied migrations and sorts
(`to_apply`, `to_rollback`), and then every migration is processed in two
transactions, one for its steps and one for its row, with the log row in
between. Processes share nothing but the database, and those of `yoyo new`, which
opens no database, nothing but the directory of migrations.

What is hard about it: any number of processes in any interleaving, each of
which may raise, time out or be killed between any two statements; an operator
who removes the lock row; three transactions for what should be one; the undo
of half a migration, by savepoints, by the transaction or by running rollback
code, on databases with and without transactional DDL; and lists that pass
through several sorts, filters and reversals. `PROJECT.json` lists the hazards,
each at its line.

## 2. Modules

| Module | Models | Used by |
|---|---|---|
| `MigrationLock` | the lock, statement by statement | `MigrationSession`, `InternalSchema` (INSTANCE) |
| `MigrationLockProofs` | theorems about the lock | `MigrationSessionProofs`, `InternalSchemaProofs` (INSTANCE) |
| `SchemaHistory` | abstract: the table of applied migrations stays closed under dependencies and no migration is recorded twice | refined by `MigrationSession` |
| `MigrationSession` | the commands of several processes, down to each commit | |
| `MigrationSessionProofs` | theorems about the commands | |
| `InternalSchema` | several programs bring yoyo's own tables up to date | |
| `InternalSchemaProofs` | theorems about the upgrade | |
| `MigrationSteps` | a command that applies or rolls back one migration, from the lock row to its DELETE, called repeatedly | |
| `MigrationStepsProofs` | theorems about the steps, lemmas about the tree of steps | `MigrationProgressProofs` |
| `MigrationProgressProofs` | theorems about what `process_steps` leaves behind | |
| `DependencyOrder` | `ancestors`, `descendants`, `topological_sort` as operators | `MigrationSession`, `TopologicalSort`, `NewMigration` |
| `DependencyOrderProofs` | lemmas about these operators, and about recursive functions over lists | `TopologicalSortProofs`, `MigrationSessionProofs`, `NewMigrationProofs` |
| `TopologicalSort` | `topological_sort`, one action per turn of its loops | |
| `TopologicalSortProofs` | theorems about it | |
| `NewMigration` | `yoyo new` by several developers in one directory | |
| `NewMigrationProofs` | theorems about it | |
| `MC...` | the instances for TLC | |

Definitions named `...` behind a comment "Mutant:" are plausible errors in the
definition that follows them. Nothing uses them; replacing the definition by
its mutant makes TLC report the property that `PROJECT.json` pairs them with.

### MigrationLock

`pc[b]` is where the backend `b` is in `lock()`: not in it (`idle`), in the
polling loop of `_insert_lock_row`, in the body with a row of its own
(`holding`) or without (`borrowing`, when `_is_locked` was set on entry), in the
finally clause (`deleting`), or finished. `lock_table` is the backend whose row
is in the one-row table; the row holds its pid, and pids may coincide
(containers). `Borrow` is line 292: a set `_is_locked` lets the call through.
`BodyReturns` clears the flag, `BodyRaises` does not, as on line 301. The
deletes are by pid. `EnterNested` and `LeaveNested` are a `lock()` call inside
the body. The clock is a number of polls: after `MaxPolls` unsuccessful INSERTs
the time is up. `BreakPolicy` says what the operator does: never break, break a
row nobody stands behind ("stale"), or break any row. `Retrying` are the
programs that catch what `lock()` raises, of its body or of its DELETE, and go
on; yoyo's own commands do not. Such a program is let in by the flag without a
row (`Borrow`) when its body had raised, and is behind its own row when only the
DELETE had failed; `MutualExclusion` names the first as the one way in which
bodies overlap, `NoConcurrentMigrations` is the docstring without it, and
`StaleRowStays` is about rows of the second kind and of crashed processes.

### MigrationSession

A process calls `lock()` (actions of `MigrationLock`), `Select`s its list by
`get_migrations` and works through `job[s].todo`. The step of a script is
`steps` (its transaction), then `log` (the row of the log, outside any
transaction) then `table` (the row of the table). `effect` is the set of scripts
whose changes are in the schema. `SkipBroken` is the `except BadMigration`
around the loop body. `uncommitted` are log rows that an open implicit
transaction of the driver still holds (PostgreSQL, `LogAutocommit = FALSE`). The
next commit of the connection makes them durable: that of the row of the table,
of the DELETE of the lock row, or of the query by which
`ensure_internal_schema_updated` asks for the version before the next script
(`CommitSteps`, `FailSteps`, `LogLeft`). `interrupted` is a history variable. A
hash is its migration; `--match` only changes `Files`. That no two files have
the same id (`IsInjective(Files)`) is what `MigrationList` makes sure of:
`check_conflicts` raises `MigrationConflict` (`migrations.py:376-380`).
`prompt_migrations` is modelled by its result (`Prompted`): the user moves back
and forth, and what remains is the part of the list that was answered with y, in
its order.

### InternalSchema

A database is the set of yoyo's tables with their rows: `v1` and `v2` are the
two layouts of the table of applied migrations, which share a name. `stage[p]`
is where the program `p` is: it asks for the version by two queries (`list` the
tables, read the `row`), enters the lock if the answer is too old, asks again,
and executes `todo[p]`, the statements of `v1.upgrade` and `v2.upgrade` that are
left (`upgrade`). `work[p]` is the database as its transaction sees it, `stable`
as everybody else and a crash see it; where DDL commits at once the two become
one at every CREATE and DROP (`CommitsImplicitly`). `Locked` are the programs
that call it in a `lock()` block, as the commands do, so that the lock of the
upgrade is nested (`EnterNested` of `MigrationLock`); the others take a lock for
the upgrade only, as a program does that calls `get_applied_migration_hashes` by
itself. Any query or statement may raise, and does when it contradicts what is
in the database (`Contradicts`): a table is there already, or the version
table is empty (the assertion of `internalmigrations/__init__.py:58`). Behind
the upgrade a program reads the table (`ReadApplied`), and a command adds to it
(`Record`). `recorded` and `interrupted` are history.

### MigrationSteps

A statement is its effect: applying step `a` puts `a` into the database, rolling
back takes it out. `work` is the database as the connection sees it, `stable`
what a crash leaves. `frames` is the stack of wrappers that are open with their
savepoints, `loop` the main loop of `process_steps` or its undo loop, or where
the command is outside of it: `locked` (its row is in `yoyo_lock`), `returned`
(the migration has still to be recorded), `leaving` (the DELETE of the lock row
is left). The caller applies and rolls back in turn, by a process of its own
each time. Migrations are records (tree of steps and groups, `ignore_errors`,
reversible, idempotent and DDL steps, `__transactional__`). That they are trees
(`IsTree`) is what `add_step_group` makes sure of: it deletes its items from the
list of the collector, and fails where one is not there any more, so nothing is
listed twice and no group is in itself. What is under a node (`Below`) is the
least set that has the node and the items of its groups.

The three drivers differ in what is durable when. SQLite and PostgreSQL can roll
back DDL; MySQL commits at every DDL statement and forgets its savepoints
(`ImplicitCommit`). Outside a transaction SQLite commits every statement, and so
does PostgreSQL, whose `disable_transactions` sets autocommit, while on MySQL
statements wait for the next commit (`DurableAtOnce`). `in_transaction` is the
flag of the backend, which decides between BEGIN and SAVEPOINT: behind a BEGIN
or a COMMIT that raised it is still set (`FailBegin`, `FailCommit`, and
`FailRecord` for the transaction of the migration's row), and the DELETE of the
lock row is then not committed by anybody (`Release`). The same happens behind a
failed migration outside a transaction on PostgreSQL, where autocommit is left
on. Where the log row fails (`FailLog`) there is no transaction to roll back, and
PostgreSQL refuses the DELETE (`Refuses`). `LockRowReleased` says that the row
stays in these cases and in no others.

`error` distinguishes a `DatabaseError` from any other exception, which passes
through every wrapper, ignored or not, and skips the undo loop. Where a
savepoint is gone, ROLLBACK TO raises a `DatabaseError` in its place.

### DependencyOrder and TopologicalSort

`Ancestors` and `Descendants` are least sets with what a migration depends on
and what depends on it; the second one stays in its population, as the code
does. `Only` is a filter that keeps the order of a list, which is what the
comprehensions of `get_migrations` and `topological_sort` do. `Visit` is a turn
of the while loop, and `Visited` the function that repeats it until the queue is
empty. `TopologicalSorts(D, list)` is the set of results, because the initial
queue is built from a Python set. `TopologicalSort` has the loops;
`AgreesWithOperator` ties the two together.

### NewMigration

`files` is the directory; a file has its dependencies, its state (`empty` while
`--batch` has created but not filled it, `complete`, or `broken`: it cannot be
executed), and as history what its author had read. A developer reads the
directory, computes `heads` file by file, fills in the template, edits a
temporary file there, as often as wanted, and then takes a name and renames the
file to it; with `--batch` the file is created under its name and then written.
Each of these is a step, so that others save their files in between, and each
program can be killed behind any of them. A name is its number and the random
part, whose order is open; numbers are compared as strings, as `make_filename`
and `sorted` do, so that "100" is less than "99" (`StringLeq`, `NameLess`).
`NewNumbers` has a result for every order in which `glob` may list the files
(`NumberBehind`), and `Sorted` lists them by the number of names that come before
their own. The developers and the files that are there at first are finitely
many (`NewAssumption`): a list of files has an end, and a new random part is one
that nobody has.

## 3. Runs

| Run | Instance | Shows |
|---|---|---|
| `MCLockStaleBreaks` | 3 backends with one pid, two of which go on after exceptions, 2 polls, 1 nested call, stale rows broken | `TypeOK`, `MutualExclusion`, `StaleRowStays` |
| `MCLockAnyBreaks` | 3 backends with own pids, all retry, any row broken | `NoForeignRelease`, `LockCallEnds` |
| `MCLockRetry` | 2 backends, one retries | violation of `NoConcurrentMigrations` (finding) |
| `MCSessionBatch` | 3 processes, 3 migrations (m2 needs m1, m3 free, m3 not atomic), all commands with `--batch`, with and without `--revision`, SQLite-like log | `TypeOK`, `EffectMatchesTable`, `SelectionStaysTrue`, refinement of `SchemaHistory` |
| `MCSessionAllCommands` | 2 processes, also prompts and `--all`, a broken file, a hook, PostgreSQL-like log | `AuditTrail`, `FilenameOrder`, `SelectedGetApplied`, `WritesUnderLock` |
| `MCSessionRollbackAll` | `apply` and `rollback --all` | violation of `DependencyClosed` (finding) |
| `MCSchemaUpgrade` | two commands and a program without a lock, two migrations, tables of any version, with and without transactional DDL, stale rows broken | `TypeOK`, `HistoryIsSomewhere`, `UpgradeIsAtomic`, `NoConflict`, `CurrentStaysCurrent`, `ReadsWholeHistory`, `CallEnds` |
| `MCStepsSafety` | step, group in a group, step without rollback code, with each of 243 choices of `ignore_errors` on SQLite and MySQL, one of them on PostgreSQL too; four steps outside a transaction, and the groups with 9 choices, on all three; with and without `--force` | `TypeOK` and six safety properties |
| `MCStepsGroupRollback` | a group of idempotent steps | violation of `RollbackUndoes` (finding) |
| `MCStepsPreexisting` | steps outside a transaction that may ignore errors | violation of `FailureKeepsWhatWasThere` (finding) |
| `MCSortAll` | all graphs on four migrations | the sort is correct, and agrees with its operator |
| `MCNewFiles` | a developer with an editor and one with `--batch`, a file with the number 97, four files at most | `TypeOK`, `CreationOrderKept`, `DirectoryIsClosed`, `NeverCircular`, `NamesRise` |

Why the bounds are enough. Lock: two backends compete and a third can take
what one of them loses to a break; `MaxPolls` 1 or 2 has the first poll, the
last one and, at 2, one between; `MaxNested` 1 has a nested block, and deeper
ones do nothing new to the flag. A process that ended does not come back, so
at most as many commands fail or crash in a behaviour as there are backends:
three in `MCSessionBatch`, which is a failure, the session that meets its
result, and one that meets that session's. A process that succeeds may run
commands without end. Three migrations are the least with a dependency and an
independent one. Schema: one upgrades while another one waits with an old answer
and a third asks from outside the lock; an upgrade that stops is met by two later
programs, the second of which meets what the first has made of it. Two migrations
are a row that was there and one that is added. `MaxPolls` 0 is a lock that is
tried once, which is enough where waiting itself is not the question. Steps:
nesting depth two has an inner, a middle and an outer wrapper with savepoints;
calls alternate without bound, only savepoint numbers restart with each call.
New files: numbers go from 97 over 98 and 99 to what comes behind, and two
developers save behind each other's reading. Sort: four nodes have all diamonds,
chains with a branch and cycles with a tail.

`CHECK_DEADLOCK FALSE` stands where programs end: all processes may have
crashed behind a lock row that nobody breaks, the programs of `MCSchemaUpgrade`
run once, developers are killed or have filled the directory, and a sort returns.
The runs of the steps check deadlock: `process_steps` can always go on, and
the next command finds no lock row or one that can be broken.

Symmetry is used in the processes (`MCSessionBatch`, `MCSessionRollbackAll`, and
in `MCLockStaleBreaks` those that go on after an exception), which differ in
nothing there, and never together with liveness.

### Fairness

`LockCallEnds` assumes weak fairness of `Poll`: the polling loop executes one
statement after the other, and each returns or raises. `SelectedGetApplied`
assumes the same of a session as a whole (`WF_vars` of the disjunction, not of
single actions): the program is sequential, so when it can continue it does,
in whichever way the database answers. Crashes, exceptions, the operator and the
start of commands are never assumed to happen. `CallEnds` assumes it of `Work(p)`
for each program of `InternalSchema`, for the same reason.

## 4. Proofs

`MigrationLockProofs` proves, for every set of backends and all bounds:

- `TypeCorrect`: `Spec => []TypeOK`.
- `MutualExclusionHolds` and `StaleRowStaysHolds`, from `BreakPolicy # "any"` (an
  operator who looks before breaking), for any set `Retrying`; and
  `NoConcurrentMigrationsHolds`, from `Retrying = {}` too. `MutualExclusion` alone
  is not inductive. `LockInv` says what a backend knows of the lock table from
  where it is: from its INSERT to its DELETE the row is its own (`OwnsRow`), and
  the flag of a program that does not go on after an exception is down while it
  is outside or polling (`OutsideClean`), so that it never enters without a row
  (`NeverBorrows`). `OwnsRow` is also why a shared pid does no harm to a row that
  nobody stands behind: whoever gets to a DELETE has the one row of the table
  itself. Each assumption is needed: without `Retrying = {}` `MCLockRetry` is the
  counterexample, without the other an operator lets a second backend in.
- `NoForeignReleaseHolds`, from distinct pids only: a row with the pid of `b`
  is `b`'s, whatever the programs and the operator do.

`MigrationSessionProofs` proves, for all processes, lists of migrations and
command lines:

- `CommandsExclude`, `WritesUnderLockHolds`, `EffectMatchesTableHolds` and
  `AuditTrailHolds`, from `BreakPolicy # "any"`. As every step of a command is a
  step of `MigrationLock` or leaves the lock alone, the instance of
  `MigrationLockProofs` gives `LockInv` for the commands, hence `RowHeld`: a
  session in the body is alone. So whoever writes has the row (`WriterHasRow`),
  and relative to it `SessionInv` is inductive. It adds to the last two
  what a session knows from where it is: where nothing is processed no migration
  is half done and only hooks are processed as hooks (`StageKnown`), outside the
  body there is no job (`NoJobOutside`), between the two commits the steps are
  in the database in the direction of the command and the row of the log is
  written or waits in the connection (`WindowKnown`), and rows wait for no other
  reason but an interrupted session that has still to delete its lock row
  (`WaitingKnown`). Without the last part a commit could make a row durable that
  belongs to an earlier migration, and `AuditTrail` would break one step later.
- `TypeCorrect` and `FilenameOrderHolds`, without further assumptions. `JobKnown`
  says what a list is, wherever a command is in it: a part of the files, each
  once, in the order of the files as far as migrations without relatives are
  concerned. It is a statement about `Candidates`, the sort, `--revision` and the
  prompt, one after the other (`CandidateList`, `SortedPart`, `RevisionPart`,
  `ChosenPart`).
- `SelectionStaysTrueHolds`, from `BreakPolicy # "any"` and no `--all` with
  `apply` or `mark`. `AllFresh` says the same of the job; that it is inductive
  needs that whoever changes the table is alone in its body (`Alone`), and that
  what a command has recorded is not in the rest of its list a second time.
- `CommandsKeepHistory` and `DependencyClosedHolds`, from `BreakPolicy # "any"`
  and `Unattended`: all commands run with `--batch` and without `--all`, so that
  nobody picks migrations by hand. `HistoryInv` says what a command relies on
  when it goes through its list: each migration can be recorded when those
  before it have been (`CanRecord`), or removed (`CanRemove`), and what
  `reapply` has rolled back and is going to select from depends on nothing else
  that is missing. `CanRecord` comes from the order of the sort and from
  `Ancestors` being closed, `CanRemove` from the reversed order and from
  `Descendants` being closed among the applied ones. Both need that a migration
  whose file cannot be executed is never in such a list, because it would be
  skipped without those that depend on it: `get_migrations` loads all it lists
  and raises. Without the assumption on `--all` `MCSessionRollbackAll` is the
  counterexample.

`DependencyOrderProofs` has the lemmas these proofs rest on, for every list
without repetitions and every graph. What a recursive function over the positions
of a list returns is proved from its defining equation (`Recursion`) and an
induction that is a set of numbers without a least counterexample (`LeastNumber`,
`UpTo`), which takes no operator as a parameter. `OnlyMembers` is what a filter
keeps; `VisitedFacts` is the loop invariant of the sort, turn by turn, and that
the queue is empty after as many turns as there are migrations; `SortedList` what
any result has: the same members, dependencies first, the rest in the order it
had, when the graph has no cycle (`NotCircular`, and `PartIsAcyclic` for a part of
the list). `AncestorsClosed` and `DescendantsClosed` are about `--revision`.

`TopologicalSortProofs` proves, for every list without repetitions and every
graph (`SortAssumption`): `TypeCorrect`, `DependenciesFirstHolds`,
`PermutationHolds` and `RaisesOnCyclesHolds`. `SortInv` is about the edges that
are left: an edge is removed only behind its source (`RemovedBehindSource`),
what is queued or placed has no edge into it (`NoEdgeIn`), and a
migration in the list has an edge out of it only during its own turn
(`SourcesDone`). `ListInv` says that nothing is queued or placed twice
(`Once`), that what has an edge is placed, queued or waits for one
(`Accounted`), and what the loop that appends the rest has reached
(`RestReached`). When the queue runs empty with edges left, the sources of
those edges form a set in which each depends on another: a cycle.

`AgreesWithOperatorHolds` ties the loops to the operator `TopologicalSorts`, turn
by turn. `AgreeInv` has three parts. `InLoop`: between two turns `L` and `S` are
what the function `turn` of `Visited` has there, for the roots the loop started
with, and within one they are that, with the current migration at the end of
`L` and, at the end of `S`, some of those that the turn frees. `RemovedInOrder`:
the inner loop has come to a place in `input`, and has removed the edges to what
is before it and none behind, so that those freed already are a first part of
the list that `Visit` appends. `AfterLoop`: behind the loop `L` is `Visited`
followed by the part of the rest that was reached. That the operator says
`Circular` exactly when the loop raises rests on `NoCircle` and `WholeGraph`,
which relate both to `Acyclic`: whether the loop gets to all of the graph does
not depend on the order of the roots.

`InternalSchemaProofs` proves, for all programs, with and without a lock block
around them, all migrations and both kinds of database:

- `TypeCorrect`, `HistoryIsSomewhereHolds`, `UpgradeIsAtomicHolds`,
  `NoConflictHolds`, `CurrentStaysCurrentHolds` and `ReadsWholeHistoryHolds`, from
  `BreakPolicy # "any"`. The invariant of the lock says that an upgrade is
  alone. `SchemaInv` lists what the database can look like (`Legal`: the three
  versions, the six states between 1 and 2 where an upgrade may stop, and one
  that restarting from there makes), says when it is whole (`WholeBetween`), and
  what a program knows: before the remaining statements of an upgrade the
  transaction looks as they need it (`Upgrading`), and who is past the upgrade
  has the current tables (`Informed`). What none of the properties says, and
  the induction needs (`Ready`), is that an upgrade which starts on the remains of
  another one raises before it gets to a DROP TABLE: the table might have the
  only copy of the history.

`MigrationStepsProofs` proves, for every tree of steps and groups, every choice
of `ignore_errors` and all three drivers (`StepsAssumption`):

- `TypeCorrect` and `LockRowReleasedHolds`. The latter is not inductive alone:
  `RowInv` says that the row is durable while the command runs, and that the
  connection and every savepoint have it, too; `PhaseInv` what the flag,
  autocommit and the outcome are where the command is. That the flag is set
  behind a BEGIN or a COMMIT that raised, and only there, is the heart of it.
- `CrashLeavesNoTraceHolds` and `TransactionLeavesNoTraceHolds`, which is
  `FailureLeavesNoTrace` for migrations in a transaction on databases with
  transactional DDL. `TraceInv` has to follow a failed command beyond its
  ROLLBACK: as the connection and the durable contents agree there, unless the
  flag is still set, the commit of the DELETE brings nothing back.
- `IgnoredErrorsDoNotStopHolds`. An error that somebody ignores meets on its way
  out wrappers that do not, each of which goes back to its savepoint, and a
  savepoint that is gone would replace it by a new error. So the proof needs
  `SavepointsKnown`: the savepoints of all open wrappers are known in the order
  of the wrappers, and going back to one leaves those outside; with it
  `ErrorKnown`, that there is a wrapper ahead of such an error that ignores it,
  is inductive.

`MigrationProgressProofs` proves, from the same assumption:

- `OnlySkippedAreMissingHolds` and `RollbackUndoesTopLevelHolds`. `StepsLeft` are
  the steps whose statement is still to come: below what the open wrappers and
  the loop have left of their lists. Contents are `Reached` by a call when
  nothing is lost that was there before, nothing of a skipped step is there, and
  all that is neither skipped nor left is applied. `ProgressInv` says that the
  connection sees such contents (`WorkInv`), unless an error is on its way out;
  that each savepoint of an open wrapper holds such contents for the moment when
  the wrapper was entered (`SavedInv`), so that going back to it makes the steps
  under the wrapper missing and no others; and that the wrappers lie in the tree
  and share nothing with what is left of the lists around them (`ShapeInv`). The
  last part is why the tree is needed: a step that were in two groups could be
  applied once and skipped once. `EndInv` carries this to the row of the
  migration, whose transaction makes durable what waited for it.
- `FailureLeavesNoTraceHolds`. In transactions it is `TraceInv`; outside of
  them `UndoInv`: the database differs from what it was by exactly the steps in
  `executed_steps` (`MainInv`), then by what the undo loop has still before it or
  in its wrapper (`BackInv`), and what the connection sees is durable but on MySQL
  (`DurableInv`), where the undo waits for the commit of the DELETE of the lock
  row. `ForcedInv` takes `--force` out: with it no error that reaches
  `process_steps` starts an undo loop.

Two of these properties have a scope that the code gives them.
`OnlySkippedAreMissing` is about wrappers that take back everything under them
(`SkipsWhole`): outside of transactions there is no savepoint, and a group that
ignores an error keeps the items before it. `FailureLeavesNoTrace` is about
migrations that can be undone (`Undoable`): outside of transactions those
without groups, whose steps all have rollback code, fail where they would change
nothing, and ignore no errors of the direction in which they are executed.

`NewMigrationProofs` proves, for any finite sets of developers and of migrations
that are there already (`NewAssumption`), and any number of new ones:

- `TypeCorrect` and `DirectoryIsClosedHolds`. `TypeInv` says that what a developer
  has read is still there, as no step removes a file, that a migration depends
  on some of what its developer had read (`Directory`), and that a name that is
  chosen stays a new one until the file is there (`NamesDiffer`, `Developer`): the
  random part is greater or less than all in use (`NewName`, `Extremes`).
- `NamesRiseHolds`. `NumberPasses` is the loop of `make_filename`: its number
  never decreases, passes each it meets, and stays at 99 where the others are
  below.
- `NeverCircularHolds`. `Ordered`: among any migrations there is one whose
  developer had read none of them, and one that no developer of another had
  read. A new file is the second kind in every set that has it.
- `CreationOrderKeptHolds`. The property is about what `__depends__` leads to,
  directly or not, and `heads` writes down only a part of what was read.
  `Reaching` closes the gap: a migration that is written has all that its
  developer had read among its ancestors. Of those it had not take the last one
  by `Ordered`; it is no head, so another migration that was read depends on it
  (`Developer`), which is an ancestor and makes it one, or is another of them
  and has it in what its developer had read (`ReadIsReached`). A file that
  `--batch` fills later only adds ancestors (`AncestorsGrow`). What
  topological_sort returns has the dependencies of each migration before it, and
  so its ancestors (`SortedList`, `AncestorsPrecede`).

`SortedMembers` and `NamesAreOrdered` are needed in between: the order of names,
in which "100_" is less than "11_" and greater than "09_", is a total one, and
`read_migrations` lists every file once.

TLC checks each proved property on the instances of the runs too, but for
`CommandsExclude` and `TransactionLeavesNoTrace`, which are stated for the
proofs only, and for `NoConcurrentMigrations`, which is what `MutualExclusion`
says where no program goes on after an exception. All safety properties of the
passing runs are proved; only model-checked is liveness, which is out of the
prover's reach (`LockCallEnds`, `SelectedGetApplied`, `CallEnds`). What a model
takes from recursive functions over lists (`Only`, `Visited`, `NumberBehind`) is
proved by induction over the positions of the list (`UpTo`, `Recursion`), not by
the library's induction theorems.

## 5. Findings

`PROJECT.json` gives each with its lines.

1. `backends.py:301`: an exception in the body leaves `_is_locked` set; the
   next `lock()` on that object does not lock (`MCLockRetry`).
2. `migrate.py:149`: `rollback --all` runs in filename order
   (`MCSessionRollbackAll`).
3. `migrations.py:324`: `StepGroup.rollback` applies (`MCStepsGroupRollback`).
4. `migrations.py:132`: steps whose error was ignored are undone as if they
   had been applied (`MCStepsPreexisting`).

Met while modelling, in the models, but without a run of their own:

- `migrate.py:240`: `reapply` passes the reversed list of `to_rollback` to
  `to_apply`, whose sort is stable: migrations without dependencies are applied
  again in reverse filename order (`FilenameOrder` is stated for `apply`);
  `docs/migration_files.md:33` promises filename order.
- `migrations.py:141`: on databases that commit at DDL the undo loop runs in
  the transaction that is then rolled back, so undone DML comes back
  (`FailureLeavesNoTrace` excludes these databases by `CommitsEarly`).
- `backends.py:109`: on such databases the savepoint of a wrapper that ignores
  an error of DDL is gone, and its `ROLLBACK TO SAVEPOINT` raises: the migration
  stops (`IgnoredErrorsDoNotStop` excludes them too).
- `migrations.py:133`: an exception that is no `DatabaseError`, of a Python step
  outside a transaction, skips the undo loop: what the steps before it did stays
  (`FailureLeavesNoTrace` excludes it by `not_undone`).
- `backends.py:697`: `disable_transactions` of PostgreSQL does not restore
  autocommit when a step raises. The DELETE of the lock row comes behind it in a
  BEGIN that psycopg2 does not commit in this mode, and the lock row is left
  (`LeavesAutocommit` in `LockRowReleased`).
- `backends.py:243` and `backends.py:255`: a COMMIT or a BEGIN that raises leaves
  `_in_transaction` set, so that the DELETE of the lock row runs in a savepoint of
  a transaction that nobody commits; again the row is left (`cut_off` in
  `LockRowReleased`).
- `backends.py:496`: the row of the log is inserted outside any transaction. When
  that raises on PostgreSQL nobody rolls back, and the connection refuses the
  DELETE of the lock row (`FailLog`, `Refuses`).
- `backends.py:303`: a program that goes on after a DELETE that failed has its
  own row in its way, and times out until the operator breaks it
  (`StaleRowStays`).
- `internalmigrations/__init__.py:33`: where DDL commits at once an upgrade that
  was interrupted is not resumed. The next one trips over the tables that are
  there, or, if only the row of the version is missing, over the assertion of
  line 58, and so does every later command; the history is still in one of the
  tables (`HistoryIsSomewhere`, `NoConflict`).
- `backends.py:397`: on such databases a program that asks without the lock may
  meet the tables in the middle of somebody's upgrade, and raises (`NoConflict`
  allows it); it never reads half a history (`ReadsWholeHistory`).
- `migrations.py:320`: outside of transactions a group that ignores an error
  keeps those of its items that were applied before it, where
  `docs/transactions.md` speaks of an individual step that is rolled back
  (`OnlySkippedAreMissing` excludes it by `SkipsWhole`); and such a group, a step
  without rollback code or a step that succeeds without changing anything is not
  undone, or is undone although it changed nothing (`Undoable`).
- `newmigration.py:151`: numbers are compared as strings. Behind the number 99
  comes 100, or 99 once more, and a file with the number 100 sorts before the
  others; its `__depends__` still puts it behind them (`NamesRise`,
  `CreationOrderKept`).
- `newmigration.py:103`: with `--batch` the file is there before its contents.
  Who runs `yoyo new` in between has it as a head although it depends on
  nothing yet; the order is kept for what was read complete.
- `migrations.py:616`: a migration that depends on nothing, but is depended upon,
  is sorted with those that have dependencies, before all others, whatever its
  filename is. So "in the absence of a `__depends__` attribute, migrations are
  applied in filename order" (`docs/migration_files.md:33`) holds for migrations
  that are in no relation only (`Unrelated`), which is what `FilenameOrder` says.
- `migrations.py:588`: the first queue of `topological_sort` comes from a set,
  so the order of migrations that depend on nothing but are depended upon is
  open, where the comments speak of a stable sort.

## 6. Not modelled

- Python steps that execute several statements, or commit or roll back
  themselves. What a step leaves behind is one element, there or not.
- A BEGIN that raises in the polling loop of the lock, where `MigrationLock` has
  no flag (`MigrationSteps` has those of the migration and of its row), and the
  probe `_check_transactional_ddl`, whose answer is
  a parameter: any `DatabaseError` of its last statement counts as a yes.
- Timeouts of zero or `None`, which no caller passes.
- A registry of migrations that is read from several directories one after the
  other; conflicts of ids in a `MigrationList` and its slices: no command of
  yoyo gets there with one directory.
- `--match` together with partially applied chains: `descendants` looks at the
  filtered list only.
- `upgrade(version=...)`, which only tests call. `show_migrations` and `list`
  write nothing.
- The text of statements and hashes, the formatting of migrations, slugs, the
  command that processes a new file, ini files, URIs, `connect()` of each
  driver, the terminal: data and I/O without protocol. The questions and
  defaults of the prompt, of which `Prompted` keeps the result.
- Isolation levels: all writes of a session happen under the lock, so no two
  of its transactions meet another session's, but for the lock table, where the
  primary key decides. In `InternalSchema` a program without the lock reads what
  is committed.

## 7. Plan

Modelled, checked and proved: the lock, the sessions, the schema upgrade, the
steps with their transactions, the sort, and new files. Left, in this order:

1. `MigrationLoading`: the registry, `__depends__` of migrations that are read
   from several directories, and `MigrationList` with its conflicts and slices.
2. A BEGIN that fails in the polling loop, in `MigrationLock`.
