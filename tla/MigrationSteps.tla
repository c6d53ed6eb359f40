--------------------------- MODULE MigrationSteps ---------------------------
(***************************************************************************)
(* A command that applies or rolls back one migration, on one connection:  *)
(* Migration.process_steps of yoyo/migrations.py with the wrappers, groups *)
(* and savepoints around the steps, and, from yoyo/backends.py, the        *)
(* transactions before and behind it: the row of the lock, the row of the  *)
(* migration, the DELETE of the lock's row.  What decides between BEGIN    *)
(* and SAVEPOINT is the backend's flag _in_transaction, and what a commit  *)
(* does is up to the driver.                                               *)
(*                                                                         *)
(* A statement is abstracted to what it leaves behind: applying a step     *)
(* puts its name into the database and rolling it back takes it out.  Any  *)
(* statement may fail.  The database keeps a working copy with savepoints  *)
(* for the connection and the contents that a commit has made durable.     *)
(*                                                                         *)
(* Python steps are statements too, and what they raise may be no          *)
(* DatabaseError of the driver.                                            *)
(***************************************************************************)
EXTENDS Naturals, FiniteSets, SequencesExt

CONSTANTS
  Cases,             \* the migrations to process, each on a database:
                     \* "sqlite", "postgresql" or "mysql"
  ForceChoices,      \* whether the option --force may be given
  Preexisting,       \* the steps whose effect may be there beforehand
  LockRow,           \* the row of yoyo_lock
  TableRow           \* the migration's row in the table of the applied ones

(***************************************************************************)
(* A migration is a tree of steps and groups.  Its fields are              *)
(*   items         the steps of each group, <<>> for a step                *)
(*   top           the steps and groups that are in no group               *)
(*   ignore        ignore_errors of every step and group                   *)
(*   reversible    the steps that have rollback code                       *)
(*   idempotent    the steps whose code succeeds a second time too         *)
(*   ddl           the steps whose statements are DDL, the others are DML  *)
(*   transactional __transactional__                                       *)
(***************************************************************************)
StepsOf(m) == {n \in DOMAIN m.items : m.items[n] = <<>>}

IgnoreValues == {"none", "apply", "rollback", "all"}

\* add_step_group takes its items out of the list of the migration, and fails
\* where one of them is not in it any more: everything is listed once, and in
\* a group that is created after it.
IsTree(items, top) ==
  LET nodes == DOMAIN items
  IN  /\ IsInjective(top) /\ \A n \in nodes : IsInjective(items[n])
      /\ \A n, o \in nodes : n # o => ToSet(items[n]) \cap ToSet(items[o]) = {}
      /\ \A n \in nodes : ToSet(items[n]) \cap ToSet(top) = {}
      /\ \A n \in nodes : \/ n \in ToSet(top)
                          \/ \E o \in nodes : n \in ToSet(items[o])
      /\ \A S \in SUBSET nodes \ {{}} :
           \E n \in S : \A o \in S : n \notin ToSet(items[o])

ASSUME StepsAssumption ==
  /\ \A m \in {pair[1] : pair \in Cases} :
       /\ IsFiniteSet(DOMAIN m.items)
       /\ m.items \in [DOMAIN m.items -> Seq(DOMAIN m.items)]
       /\ m.top \in Seq(DOMAIN m.items)
       /\ m.ignore \in [DOMAIN m.items -> IgnoreValues]
       /\ m.reversible \cup m.idempotent \cup m.ddl \subseteq StepsOf(m)
       /\ m.transactional \in BOOLEAN
       /\ IsTree(m.items, m.top)
       /\ {LockRow, TableRow} \cap DOMAIN m.items = {}
  /\ LockRow # TableRow
  /\ ForceChoices \subseteq BOOLEAN
  /\ \A pair \in Cases : pair[2] \in {"sqlite", "postgresql", "mysql"}

VARIABLES
  migration,    \* the migration that process_steps is called for
  driver,       \* the database and its driver
  work,         \* the database as the connection sees it
  stable,       \* the database as a crash leaves it
  savepoints,   \* the savepoints the database knows, the oldest first
  next_id,      \* SavepointTransactionManager.id_generator
  in_transaction,  \* DatabaseBackend._in_transaction
  autocommit,   \* the autocommit attribute of the connection (PostgreSQL)
  loop,         \* where the command is: the loops of process_steps are "main"
                \* and "undo"
  direction,    \* the direction process_steps was called with
  force,        \* its argument force
  todo,         \* what that loop has not reached yet
  executed,     \* executed_steps
  frames,       \* the wrappers that are open, the innermost last
  error,        \* the exception on its way up: a DatabaseError or another;
                \* behind process_steps, one raised outside a transaction
  outcome,      \* how the last call ended: its direction once it is recorded
  before,       \* history: the steps in the database when the call began
  skipped,      \* history: the steps under a wrapper that ignored an error
  fatal,        \* history: a statement failed that no wrapper ignores
  not_undone,   \* history: the undo loop failed, or does not come to run
  cut_off       \* history: the command died, or a BEGIN, a COMMIT or its last
                \* DELETE failed

database == <<work, stable, savepoints, next_id>>
connection == <<in_transaction, autocommit>>
call == <<migration, driver, direction, force>>
control == <<loop, todo, executed, frames, error>>
history == <<before, skipped, fatal, not_undone, cut_off>>
vars == <<call, database, connection, control, outcome, history>>

Nodes == DOMAIN migration.items
Items == migration.items
Top == migration.top
Steps == StepsOf(migration)
Reversible == migration.reversible
UseTransactions == migration.transactional

has_transactional_ddl == driver # "mysql"

Contents == Steps \cup {LockRow, TableRow}

\* DDL commits the transaction that the migration runs in.
CommitsEarly == UseTransactions /\ ~has_transactional_ddl

Opposite(d) == IF d = "apply" THEN "rollback" ELSE "apply"

\* A node, what is in it, and so on.
Below(items, n) ==
  {x \in DOMAIN items : \A S \in SUBSET DOMAIN items :
     n \in S /\ (\A y \in S : ToSet(items[y]) \subseteq S) => x \in S}

\* The steps at or below a node.
Under(n) == Below(Items, n) \cap Steps

TypeOK ==
  /\ migration.ignore \in [Nodes -> IgnoreValues]
  /\ work \subseteq Contents /\ stable \subseteq Contents
  /\ savepoints \in Seq([id : Nat, contents : SUBSET Contents])
  /\ next_id \in Nat
  /\ loop \in {"idle", "locked", "main", "undo", "returned", "leaving"}
  /\ direction \in {"apply", "rollback"}
  /\ driver \in {"sqlite", "postgresql", "mysql"}
  /\ {in_transaction, autocommit, force} \subseteq BOOLEAN
  /\ todo \in Seq(Nodes) /\ executed \in Seq(Nodes)
  /\ frames \in Seq([node : Nodes, dir : {"apply", "rollback"}, sp : Nat,
                     todo : Seq(Nodes)])
  /\ error \in {"none", "database", "other"}
  /\ {fatal, not_undone, cut_off} \subseteq BOOLEAN
  /\ outcome \in {"none", "apply", "rollback", "unrecorded", "failed",
                  "crashed"}
  /\ before \subseteq Steps /\ skipped \subseteq Steps

Init ==
  /\ \E pair \in Cases : migration = pair[1] /\ driver = pair[2]
  /\ stable \in SUBSET (Preexisting \cap Steps)
  /\ work = stable
  /\ savepoints = <<>> /\ next_id = 1
  /\ in_transaction = FALSE /\ autocommit = FALSE
  /\ loop = "idle" /\ direction = "apply" /\ force = FALSE
  /\ todo = <<>> /\ executed = <<>> /\ frames = <<>>
  /\ error = "none"
  /\ outcome = "none"
  /\ before = stable /\ skipped = {}
  /\ fatal = FALSE /\ not_undone = FALSE /\ cut_off = FALSE

-----------------------------------------------------------------------------
(* The database.                                                           *)

\* DDL on a database that cannot roll it back commits the transaction, also
\* when the statement fails, and with it go the savepoints.
ImplicitCommit(n) == ~has_transactional_ddl /\ n \in migration.ddl

\* Outside a transaction SQLite makes every statement durable at once, and
\* PostgreSQL on a connection in autocommit mode.  MySQL has them wait for the
\* next commit: base disable_transactions does not change the connection.
DurableAtOnce == ~in_transaction /\ (driver = "sqlite" \/ autocommit)

Rollback ==
  /\ work' = stable
  /\ savepoints' = <<>>
  /\ UNCHANGED stable

\* The process ends and its connection is closed.
Close(contents) ==
  /\ stable' = contents
  /\ work' = contents
  /\ savepoints' = <<>>
  /\ next_id' = 1
  /\ in_transaction' = FALSE /\ autocommit' = FALSE

\* The index of the savepoint of a wrapper, if the database still knows it.
SavepointAt(f) == {i \in DOMAIN savepoints : savepoints[i].id = f.sp}

\* Mutant: the oldest savepoint is taken.
RollbackToOldest(i) ==
  /\ work' = savepoints[1].contents
  /\ savepoints' = SubSeq(savepoints, 1, 1)

\* ROLLBACK TO SAVEPOINT: newer savepoints are dropped, this one stays.
RollbackTo(i) ==
  /\ work' = savepoints[i].contents
  /\ savepoints' = SubSeq(savepoints, 1, i)

-----------------------------------------------------------------------------
(* The loops, the wrappers and the groups.                                 *)

Innermost == Last(frames)

InStep == frames # <<>> /\ Items[Innermost.node] = <<>>

InGroup == frames # <<>> /\ Items[Innermost.node] # <<>>

LoopDirection == IF loop = "undo" THEN Opposite(direction) ELSE direction

\* process_steps passes force to the steps of the main loop only, and groups
\* pass on what they get.
Ignores(f) ==
  \/ force /\ loop = "main"
  \/ migration.ignore[f.node] \in {f.dir, "all"}

\* Mutant: executed_steps gets the open wrapper, not its step.
ReturnFrame ==
  /\ frames' = Front(frames)
  /\ executed' = IF Len(frames) = 1 /\ loop = "main"
                 THEN Append(executed, Innermost) ELSE executed

\* apply or rollback of the innermost wrapper returns.
Return ==
  /\ frames' = Front(frames)
  /\ executed' = IF Len(frames) = 1 /\ loop = "main"
                 THEN Append(executed, Innermost.node) ELSE executed

\* The row of the lock is inserted, in a transaction of its own.
Lock ==
  /\ loop = "idle"
  /\ LockRow \notin stable
  /\ stable' = stable \cup {LockRow}
  /\ work' = stable'
  /\ loop' = "locked"
  /\ outcome' = "none"
  /\ before' = stable \cap Steps /\ skipped' = {}
  /\ fatal' = FALSE /\ not_undone' = FALSE /\ cut_off' = FALSE
  /\ UNCHANGED <<call, savepoints, next_id, connection, todo, executed,
                 frames, error>>

\* process_steps is called and begins its transaction, or switches the
\* connection to autocommit where disable_transactions does that.
Begin(d) ==
  /\ loop = "locked"
  /\ d = (IF TableRow \in stable THEN "rollback" ELSE "apply")
  /\ loop' = "main"
  /\ direction' = d
  /\ force' \in ForceChoices
  /\ todo' = IF d = "apply" THEN Top ELSE Reverse(Top)
  /\ executed' = <<>>
  /\ in_transaction' = UseTransactions
  /\ autocommit' = (driver = "postgresql" /\ ~UseTransactions)
  /\ UNCHANGED <<migration, driver, database, frames, error, outcome, history>>

\* The BEGIN of that transaction raises.  begin() has set the flag before, and
\* as __enter__ did not return there is no __exit__ to clear it.  (What
\* disable_transactions does first, a ROLLBACK, fails with the connection
\* only: see Crash.)
FailBegin(d) ==
  /\ loop = "locked" /\ UseTransactions
  /\ d = (IF TableRow \in stable THEN "rollback" ELSE "apply")
  /\ loop' = "leaving"
  /\ direction' = d
  /\ force' \in ForceChoices
  /\ in_transaction' = TRUE
  /\ outcome' = "failed"
  /\ fatal' = TRUE /\ cut_off' = TRUE
  /\ UNCHANGED <<migration, driver, database, autocommit, todo, executed,
                 frames, error, before, skipped, not_undone>>

\* A wrapper is entered, and with transactions it takes a savepoint.
Open(n, d, outer) ==
  /\ frames' = Append(outer, [node |-> n, dir |-> d, todo |-> Items[n],
                              sp |-> IF UseTransactions THEN next_id ELSE 0])
  /\ IF UseTransactions
     THEN /\ savepoints' = Append(savepoints,
                                  [id |-> next_id, contents |-> work])
          /\ next_id' = next_id + 1
     ELSE UNCHANGED <<savepoints, next_id>>
  /\ UNCHANGED <<call, work, stable, connection, loop, executed, error, outcome,
                 history>>

\* Mutant: what StepGroup does to its items is done to all steps.
OpenTopApplying ==
  /\ loop \in {"main", "undo"} /\ error = "none"
  /\ frames = <<>> /\ todo # <<>>
  /\ Open(Head(todo), "apply", <<>>)
  /\ todo' = Tail(todo)

\* The loop of process_steps reaches its next step or group.
OpenTop ==
  /\ loop \in {"main", "undo"} /\ error = "none"
  /\ frames = <<>> /\ todo # <<>>
  /\ Open(Head(todo), LoopDirection, <<>>)
  /\ todo' = Tail(todo)

\* StepGroup.apply and StepGroup.rollback both call apply on every item.
OpenItem ==
  /\ error = "none"
  /\ InGroup /\ Innermost.todo # <<>>
  /\ Open(Head(Innermost.todo), "apply",
          [frames EXCEPT ![Len(frames)].todo = Tail(@)])
  /\ UNCHANGED todo

\* A step without rollback code has no statement to execute.
NoStatement ==
  /\ error = "none"
  /\ InStep
  /\ Innermost.dir = "rollback" /\ Innermost.node \notin Reversible
  /\ Return
  /\ UNCHANGED <<call, database, connection, loop, todo, error, outcome,
                 history>>

HasStatement ==
  InStep /\ (Innermost.dir = "apply" \/ Innermost.node \in Reversible)

\* Mutant: no BEGIN was sent, every statement is durable at once.
StatementCommitting ==
  LET n == Innermost.node
  IN  /\ error = "none"
      /\ HasStatement
      /\ (Innermost.dir = "apply") = (n \in work) => n \in migration.idempotent
      /\ work' = IF Innermost.dir = "apply" THEN work \cup {n} ELSE work \ {n}
      /\ stable' = work'
      /\ Return
      /\ UNCHANGED <<call, savepoints, next_id, loop, todo, error, outcome,
                     connection, history>>

\* Apply or rollback code runs and succeeds.  Code that is not idempotent does
\* not when its effect is there already.
Statement ==
  LET n == Innermost.node
  IN  /\ error = "none"
      /\ HasStatement
      /\ (Innermost.dir = "apply") = (n \in work) => n \in migration.idempotent
      /\ work' = IF Innermost.dir = "apply" THEN work \cup {n} ELSE work \ {n}
      /\ IF ImplicitCommit(n) \/ DurableAtOnce
         THEN stable' = work' /\ savepoints' = <<>>
         ELSE UNCHANGED <<stable, savepoints>>
      /\ Return
      /\ UNCHANGED <<call, next_id, connection, loop, todo, error, outcome,
                     history>>

\* It raises.
FailStatement ==
  LET ignored == \E i \in DOMAIN frames : Ignores(frames[i])
  IN  /\ error = "none"
      /\ HasStatement
      /\ error' \in {"database", "other"}
      /\ IF ImplicitCommit(Innermost.node)
         THEN stable' = work /\ savepoints' = <<>>
         ELSE UNCHANGED <<stable, savepoints>>
      /\ fatal' = (fatal \/ error' = "other" \/ ~ignored)
      /\ not_undone' = (not_undone \/ loop = "undo"
                        \/ (error' = "other" /\ ~UseTransactions))
      /\ UNCHANGED <<call, work, next_id, connection, loop, todo, executed,
                     frames, outcome, before, skipped, cut_off>>

EndGroup ==
  /\ error = "none"
  /\ InGroup /\ Innermost.todo = <<>>
  /\ Return
  /\ UNCHANGED <<call, database, connection, loop, todo, error, outcome,
                 history>>

\* A wrapper with ignore_errors rolls back to its savepoint and returns.
IgnoreError ==
  /\ error = "database" /\ frames # <<>>
  /\ Ignores(Innermost)
  /\ IF UseTransactions
     THEN \E i \in SavepointAt(Innermost) : RollbackTo(i)
     ELSE UNCHANGED <<work, savepoints>>
  /\ error' = "none"
  /\ skipped' = skipped \cup Under(Innermost.node)
  /\ Return
  /\ UNCHANGED <<call, stable, next_id, connection, loop, todo, outcome,
                 before, fatal, not_undone, cut_off>>

\* Mutant: a wrapper also passes on the errors it ignores.
PassErrorAlways ==
  /\ error # "none" /\ frames # <<>>
  /\ IF UseTransactions /\ SavepointAt(Innermost) # {}
     THEN \E i \in SavepointAt(Innermost) : RollbackTo(i)
     ELSE UNCHANGED <<work, savepoints>>
  /\ frames' = Front(frames)
  /\ UNCHANGED <<call, stable, next_id, connection, loop, todo, executed, error,
                 outcome, history>>

\* Any other wrapper rolls back and lets the error through, and any wrapper
\* lets through what is no DatabaseError.  Where the savepoint is gone, ROLLBACK
\* TO SAVEPOINT raises a DatabaseError, which takes the place of the error.
PassError ==
  LET gone == UseTransactions /\ SavepointAt(Innermost) = {}
  IN  /\ error # "none" /\ frames # <<>>
      /\ error = "database" /\ Ignores(Innermost) => gone
      /\ IF UseTransactions /\ ~gone
         THEN \E i \in SavepointAt(Innermost) : RollbackTo(i)
         ELSE UNCHANGED <<work, savepoints>>
      /\ error' = IF gone THEN "database" ELSE error
      /\ frames' = Front(frames)
      /\ UNCHANGED <<call, stable, next_id, connection, loop, todo, executed,
                     outcome, history>>

\* Mutant: the undo loop leaves out the step before the one that failed.
StartUndoTooLate ==
  /\ error = "database" /\ frames = <<>>
  /\ loop = "main"
  /\ ~has_transactional_ddl \/ ~UseTransactions
  /\ loop' = "undo"
  /\ todo' = IF executed = <<>> THEN <<>> ELSE Reverse(Front(executed))
  /\ error' = "none"
  /\ UNCHANGED <<call, database, connection, executed, frames, outcome,
                 history>>

\* A DatabaseError reaches process_steps and statements may have been committed:
\* undo what was executed, in reverse.
StartUndo ==
  /\ error = "database" /\ frames = <<>>
  /\ loop = "main"
  /\ ~has_transactional_ddl \/ ~UseTransactions
  /\ loop' = "undo"
  /\ todo' = Reverse(executed)
  /\ error' = "none"
  /\ UNCHANGED <<call, database, connection, executed, frames, outcome,
                 history>>

\* process_steps raises: the first error, behind the undo loop or without one,
\* or what the undo loop did not catch.
Ends ==
  \/ loop = "main" /\ error = "database" /\ has_transactional_ddl /\ UseTransactions
  \/ loop = "main" /\ error = "other"
  \/ loop = "undo" /\ (error # "none" \/ todo = <<>>)

\* Mutant: DatabaseBackend.rollback does not clear the flag.
AbortFlagged ==
  /\ frames = <<>>
  /\ Ends
  /\ Rollback
  /\ loop' = "leaving"
  /\ error' = "none"
  /\ todo' = <<>> /\ executed' = <<>>
  /\ outcome' = "failed"
  /\ UNCHANGED <<call, next_id, connection, frames, history>>

\* The transaction is rolled back.  When there is none disable_transactions
\* leaves the connection as it is.
Abort ==
  /\ frames = <<>>
  /\ Ends
  /\ IF UseTransactions THEN Rollback
     ELSE UNCHANGED <<work, stable, savepoints>>
  /\ in_transaction' = FALSE
  /\ loop' = "leaving"
  /\ error' = "none"
  /\ todo' = <<>> /\ executed' = <<>>
  /\ outcome' = "failed"
  /\ UNCHANGED <<call, next_id, autocommit, frames, history>>

Completed ==
  loop = "main" /\ error = "none" /\ frames = <<>> /\ todo = <<>>

\* process_steps returns: its transaction is committed, or the connection is
\* put back to what it was.
Commit ==
  /\ Completed
  /\ stable' = IF UseTransactions THEN work ELSE stable
  /\ savepoints' = <<>>
  /\ in_transaction' = FALSE /\ autocommit' = FALSE
  /\ loop' = "returned"
  /\ executed' = <<>>
  /\ outcome' = "unrecorded"
  /\ UNCHANGED <<call, work, next_id, todo, frames, error, history>>

\* The COMMIT raises, of a deferred constraint or a busy file, and so commit()
\* does not get to clear the flag.  Nobody rolls back; the database may.
FailCommit ==
  /\ Completed /\ UseTransactions
  /\ work' = IF driver = "sqlite" THEN work ELSE stable
  /\ savepoints' = <<>>
  /\ loop' = "leaving"
  /\ executed' = <<>>
  /\ outcome' = "failed"
  /\ fatal' = TRUE /\ cut_off' = TRUE
  /\ UNCHANGED <<call, stable, next_id, connection, todo, frames, error, before,
                 skipped, not_undone>>

\* apply_one or rollback_one records the migration, or takes it out of the
\* table, in a transaction of its own; BEGIN commits what is waiting.
Record ==
  /\ loop = "returned"
  /\ stable' = IF direction = "apply" THEN work \cup {TableRow}
               ELSE work \ {TableRow}
  /\ work' = stable'
  /\ outcome' = direction
  /\ loop' = "leaving"
  /\ UNCHANGED <<call, savepoints, next_id, connection, todo, executed, frames,
                 error, history>>

\* Before that, log_migration raises, outside any transaction: from the driver
\* or on the way to it.
FailLog ==
  /\ loop = "returned"
  /\ error' \in {"database", "other"}
  /\ loop' = "leaving"
  /\ UNCHANGED <<call, database, connection, todo, executed, frames, outcome,
                 history>>

\* The transaction of the row raises: its BEGIN or its COMMIT, which leave the
\* flag set, or a statement between them, behind which it is rolled back.
FailRecord ==
  /\ loop = "returned"
  /\ \/ in_transaction' = TRUE /\ stable' \in {stable, work}
     \/ in_transaction' = FALSE /\ stable' = work
  /\ cut_off' = in_transaction'
  /\ loop' = "leaving"
  /\ UNCHANGED <<call, work, savepoints, next_id, autocommit, todo, executed,
                 frames, error, outcome, before, skipped, fatal, not_undone>>

\* Behind an error outside autocommit mode PostgreSQL refuses every statement
\* up to a ROLLBACK, and outside a transaction nobody sends one.
Refuses == driver = "postgresql" /\ error = "database"

\* _delete_lock_row, and the process ends.  When the flag is still set this
\* takes a savepoint in place of a transaction, which nobody commits, and in
\* autocommit mode the driver's commit does nothing: the row comes back as the
\* connection is closed.
Release ==
  /\ loop = "leaving" /\ ~Refuses
  /\ Close(IF in_transaction \/ autocommit THEN stable ELSE work \ {LockRow})
  /\ loop' = "idle" /\ error' = "none"
  /\ UNCHANGED <<call, todo, executed, frames, outcome, history>>

\* The DELETE or its transaction fails.
FailRelease ==
  /\ loop = "leaving"
  /\ \E contents \in {stable, IF in_transaction THEN stable ELSE work} :
       Close(contents)
  /\ loop' = "idle" /\ error' = "none"
  /\ cut_off' = TRUE
  /\ UNCHANGED <<call, todo, executed, frames, outcome, before, skipped, fatal,
                 not_undone>>

\* The process dies; what it has not committed is gone.
Crash ==
  /\ loop # "idle"
  /\ Close(stable)
  /\ loop' = "idle"
  /\ error' = "none"
  /\ todo' = <<>> /\ executed' = <<>> /\ frames' = <<>>
  /\ outcome' = IF loop \in {"returned", "leaving"} THEN outcome
                ELSE "crashed"
  /\ cut_off' = TRUE
  /\ UNCHANGED <<call, before, skipped, fatal, not_undone>>

\* The operator removes a row that no process stands behind.
BreakLock ==
  /\ loop = "idle" /\ LockRow \in stable
  /\ stable' = stable \ {LockRow}
  /\ work' = stable'
  /\ UNCHANGED <<call, savepoints, next_id, connection, control, outcome,
                 history>>

Next ==
  \/ Lock \/ \E d \in {"apply", "rollback"} : Begin(d) \/ FailBegin(d)
  \/ OpenTop \/ OpenItem
  \/ NoStatement \/ Statement \/ FailStatement \/ EndGroup
  \/ IgnoreError \/ PassError
  \/ StartUndo \/ Abort \/ Commit \/ FailCommit
  \/ Record \/ FailLog \/ FailRecord \/ Release \/ FailRelease \/ Crash \/ BreakLock

Spec == Init /\ [][Next]_vars

-----------------------------------------------------------------------------
Done(how) == loop = "idle" /\ outcome = how

InDatabase == stable \cap Steps

\* What a migration without a transaction has undone on MySQL is lost when the
\* command cannot commit any more.
LosesUndo == driver = "mysql" /\ ~UseTransactions /\ cut_off

\* What is executed outside of a transaction can be undone: statements that
\* have an opposite, that fail where they change nothing and whose errors are
\* not ignored.  With force there is nothing to undo.
Undoable ==
  UseTransactions \/ force \/
    /\ Nodes \subseteq Reversible \ migration.idempotent
    /\ \A n \in Nodes : migration.ignore[n] \notin {direction, "all"}

\* "If ignore_errors is not set then the entire migration will be rolled back"
\* (docs/transactions.md): a call that fails, in whatever nesting of groups
\* and ignored errors, in its COMMIT, and after whatever it had undone, leaves
\* the database as it was, unless DDL has committed the first part of it, or
\* another exception than DatabaseError keeps process_steps from undoing what
\* has no transaction.
FailureLeavesNoTrace ==
  Done("failed") /\ Undoable /\ ~not_undone /\ ~CommitsEarly /\ ~LosesUndo =>
    InDatabase = before

\* The same of a crash, which runs no undo loop, when there is a transaction.
CrashLeavesNoTrace ==
  Done("crashed") /\ UseTransactions /\ has_transactional_ddl =>
    InDatabase = before

\* A wrapper that ignores an error takes back everything under it: it has a
\* savepoint, or there is one step under it.
SkipsWhole ==
  UseTransactions \/ \A n \in Nodes \ Steps :
                       ~force /\ migration.ignore[n] \notin {"apply", "all"}

\* "That individual step will be rolled back and execution will pick up from
\* the next step": after a migration is recorded, just the steps under a
\* wrapper that ignored an error are missing, also where its changes waited
\* for the transaction of its row.  Outside of transactions the items that a
\* group has applied before the error stay.
OnlySkippedAreMissing ==
  Done("apply") /\ SkipsWhole => InDatabase = before \cup (Steps \ skipped)

\* The same sentence again: an error that some wrapper ignores does not stop
\* the migration, unless DDL has committed the savepoint away.
IgnoredErrorsDoNotStop ==
  Done("failed") /\ ~CommitsEarly => fatal

\* Rolling back undoes every step that has rollback code, unless its error
\* was ignored.
RollbackUndoes ==
  Done("rollback") => InDatabase \cap Reversible \subseteq skipped

\* The part of it that holds: steps outside groups.
RollbackUndoesTopLevel ==
  Done("rollback") =>
    InDatabase \cap Reversible \cap ToSet(Top) \subseteq skipped

\* What was in the database before a migration survives its failure, also
\* when a step found it there and ignored the error.
FailureKeepsWhatWasThere ==
  Done("failed") => before \subseteq stable

\* A migration fails outside a transaction, on PostgreSQL: disable_transactions
\* does not put the connection back.
LeavesAutocommit ==
  driver = "postgresql" /\ ~UseTransactions /\ outcome = "failed"

\* The finally clause of lock() takes the lock row with it: a command that ends
\* leaves the row behind just when it has died, when a BEGIN, a COMMIT or the
\* DELETE itself has raised, of which the first two leave the flag
\* _in_transaction set and make the DELETE wait for a commit that never comes,
\* and when a migration without a transaction has failed on PostgreSQL.  No
\* other error leaves it, in whatever group, wrapper or undo loop it is raised.
LockRowReleased ==
  [][loop # "idle" /\ loop' = "idle" =>
       (LockRow \in stable' <=> cut_off' \/ LeavesAutocommit')]_vars
=============================================================================
