-------------------------- MODULE MigrationSession --------------------------
(***************************************************************************)
(* The commands apply, rollback, reapply, mark and unmark of               *)
(* yoyo/scripts/migrate.py, run by several processes against one database, *)
(* down to the single writes of yoyo/backends.py: the commit of a          *)
(* migration's steps, the row of the log, and the row of the table of      *)
(* applied migrations.  All of a command runs inside backend.lock(), whose *)
(* model is MigrationLock.                                                 *)
(*                                                                         *)
(* A process runs one command at a time, ends when the command raises and  *)
(* never catches what lock() raises (Retrying is empty).  Yoyo's own       *)
(* tables are at their current version, so no lock() block is nested.      *)
(***************************************************************************)
EXTENDS DependencyOrder

CONSTANTS
  Backends, PidOf, BreakPolicy, MaxPolls, NoRow,     \* see MigrationLock
  Files,          \* the migrations in the order read_migrations lists them
  Hooks,          \* the post-apply migrations, in the same order
  Depends,        \* Depends[m]: the migrations m names in __depends__
  Broken,         \* migrations whose file cannot be executed (BadMigration)
  Atomic,         \* migrations and hooks that leave no trace when a step
                  \* fails: transactional, on a database with transactional DDL
  LogAutocommit,  \* an INSERT outside a transaction is durable at once (on
                  \* PostgreSQL it waits for the connection's next commit)
  Commands,       \* the command lines in use
  NoRevision      \* no --revision is given

Migrations == ToSet(Files)

Scripts == Migrations \cup ToSet(Hooks)

Operations == {"apply", "rollback", "mark", "unmark"}

ASSUME SessionAssumption ==
  /\ NoRow \notin Backends
  /\ BreakPolicy \in {"never", "stale", "any"}
  /\ MaxPolls \in Nat
  /\ Files \in Seq(Migrations) /\ IsInjective(Files)
  /\ Hooks \in Seq(ToSet(Hooks))
  /\ Migrations \cap ToSet(Hooks) = {}
  /\ Depends \in [Migrations -> SUBSET Migrations]
  /\ ~Circular(Depends, Files)
  /\ Broken \subseteq Migrations
  /\ Atomic \subseteq Scripts
  /\ LogAutocommit \in BOOLEAN
  /\ NoRevision \notin Scripts
  /\ Commands \subseteq [kind : Operations \cup {"reapply"}, all : BOOLEAN,
                         batch : BOOLEAN,
                         revision : Migrations \cup {NoRevision}]

VARIABLES
  lock_table, is_locked, pc, nested, polls,   \* see MigrationLock
  applied,      \* the migrations in the table of applied migrations
  last_log,     \* the operation of the newest row of the log for a migration
  effect,       \* the migrations and hooks whose changes are in the database
  uncommitted,  \* the rows of the log that each session has not committed
  job,          \* how far each session is with its command
  interrupted   \* history: migrations whose session stopped between the
                \* commit of their steps and the write of their row

Lock == INSTANCE MigrationLock WITH Retrying <- {}, MaxNested <- 0

lockVars == <<lock_table, is_locked, pc, nested, polls>>
dataVars == <<applied, last_log, effect>>
vars == <<lockVars, dataVars, uncommitted, job, interrupted>>

(***************************************************************************)
(* A job is the kind of the command, the stage it has reached, the list of *)
(* scripts that the stage still has to process, what is done next with the *)
(* first of them, and, in reapply, the list to select from a second time.  *)
(***************************************************************************)
Stages == {"select", "rollback", "reselect", "apply", "hooks", "mark",
           "unmark", "done"}

NoJob == [kind |-> "none", stage |-> "select", step |-> "steps",
          todo |-> <<>>, again |-> <<>>]

TypeOK ==
  /\ Lock!TypeOK
  /\ applied \subseteq Migrations
  /\ last_log \in [Scripts -> Operations \cup {"none"}]
  /\ effect \subseteq Scripts
  /\ uncommitted \in [Backends -> SUBSET (Scripts \X Operations)]
  /\ \A s \in Backends :
       /\ DOMAIN job[s] = DOMAIN NoJob
       /\ job[s].kind \in Operations \cup {"reapply", "none"}
       /\ job[s].stage \in Stages
       /\ job[s].step \in {"steps", "log", "table"}
       /\ ToSet(job[s].todo) \subseteq Scripts
       /\ ToSet(job[s].again) \subseteq Migrations
  /\ interrupted \subseteq Migrations

Init ==
  /\ Lock!Init
  /\ applied = {}
  /\ last_log = [m \in Scripts |-> "none"]
  /\ effect = {}
  /\ uncommitted = [s \in Backends |-> {}]
  /\ job = [s \in Backends |-> NoJob]
  /\ interrupted = {}

-----------------------------------------------------------------------------
(* get_migrations: the list a command works on.                            *)

Forward(cmd) == cmd.kind \in {"apply", "mark"}

\* to_apply and to_rollback start from the unapplied and the applied ones.
Candidates(cmd) ==
  IF cmd.all THEN Files
  ELSE Only(Files, {m \in Migrations : Forward(cmd) <=> m \notin applied})

\* Mutant: to_rollback does not reverse the list.
ListedUnreversed(cmd) ==
  IF cmd.all THEN {Files} ELSE TopologicalSorts(Depends, Candidates(cmd))

\* The lists those two may return; --all skips both of them.
Listed(cmd) ==
  LET sorts == TopologicalSorts(Depends, Candidates(cmd))
  IN  IF cmd.all THEN {Files}
      ELSE IF Forward(cmd) THEN sorts
      ELSE {Reverse(list) : list \in sorts}

\* --revision: the target with its dependencies or with its dependants.
Related(cmd, list) ==
  IF Forward(cmd) THEN Ancestors(Depends, cmd.revision)
  ELSE Descendants(Depends, cmd.revision, ToSet(list))

OfRevision(cmd, list) ==
  IF cmd.revision = NoRevision THEN list
  ELSE Only(list, Related(cmd, list) \cup {cmd.revision})

\* prompt_migrations asks about one migration after the other, back and forth
\* (j, k) until the user is through, has enough (d, a) or cancels (q), and
\* keeps those with the answer y: any part of the list, in its order.
Prompted(list) == {Only(list, S) : S \in SUBSET ToSet(list)}

\* What the prompts leave of the list: the user confirms or refuses what was
\* selected, and with --batch all of it is taken, but for a rollback that would
\* be of several migrations.
Chosen(cmd, list) ==
  IF ~cmd.batch
  THEN {<<>>} \cup (IF cmd.revision = NoRevision THEN Prompted(list) ELSE {list})
  ELSE IF cmd.kind = "rollback" /\ cmd.revision = NoRevision /\ ~cmd.all
            /\ list # <<>>
       THEN {<<Head(list)>>}
       ELSE {list}

\* The migrations whose file get_migrations executes to learn __depends__.
Loaded(cmd) ==
  LET listed == ToSet(Candidates(cmd))
  IN  (IF cmd.all THEN {} ELSE listed)
      \cup (CASE cmd.revision = NoRevision -> {}
              [] cmd.revision # NoRevision /\ Forward(cmd) ->
                   Ancestors(Depends, cmd.revision) \cup {cmd.revision}
              [] OTHER -> listed \ {cmd.revision})

\* get_migrations returns; otherwise it raises BadMigration or, for a target
\* that is not in the list, InvalidArgument.
CanSelect(cmd) ==
  /\ Loaded(cmd) \cap Broken = {}
  /\ cmd.revision # NoRevision => cmd.revision \in ToSet(Candidates(cmd))

-----------------------------------------------------------------------------
(* Where a job goes.                                                       *)

Current(s) == Head(job[s].todo)

\* Mutant: rollback_one logs what apply_one logs.
DirectionApply(j) == "apply"

Direction(j) == IF j.stage = "rollback" THEN "rollback" ELSE "apply"

\* The first of todo is done with: the next one, the post-apply hooks behind
\* the last migration that was applied, or the end of the stage.
Advanced(j) ==
  IF Tail(j.todo) # <<>>
  THEN [j EXCEPT !.todo = Tail(@), !.step = "steps"]
  ELSE IF j.stage = "apply" /\ Hooks # <<>>
  THEN [j EXCEPT !.todo = Hooks, !.step = "steps", !.stage = "hooks"]
  ELSE [j EXCEPT !.todo = <<>>, !.step = "steps",
                 !.stage = IF @ = "rollback" /\ j.kind = "reapply"
                           THEN "reselect" ELSE "done"]

\* The session s runs the body of its lock() block and is at the given stage.
At(s, stages) == Lock!InBody(s) /\ job[s].stage \in stages

\* A script is being applied or rolled back, and this is what comes next.
Processing(s, step) ==
  At(s, {"rollback", "apply", "hooks"}) /\ job[s].step = step

\* The steps of m are committed, its row in the table is not yet written.
InWindow(s, m) ==
  /\ Processing(s, "log") \/ Processing(s, "table")
  /\ job[s].stage # "hooks"
  /\ m = Current(s)

\* The newest rows of the log once those of s are committed.
Committed(s) ==
  [m \in Scripts |->
     IF \E op \in Operations : <<m, op>> \in uncommitted[s]
     THEN CHOOSE op \in Operations : <<m, op>> \in uncommitted[s]
     ELSE last_log[m]]

Uncommitted(s, S) == uncommitted' = [uncommitted EXCEPT ![s] = S]

SetJob(s, j) == job' = [job EXCEPT ![s] = j]

\* What is left of a script whose steps stop half way: unless they are atomic,
\* its changes may stay in the database or be gone from it.
Partly(s) ==
  IF Processing(s, "steps") /\ Current(s) \notin Atomic
  THEN {effect \ {Current(s)}, effect \cup {Current(s)}}
  ELSE {effect}

\* The log when a session dies.  Before it processes a script it asks for the
\* version of yoyo's tables, in a transaction that commits the rows that wait.
LogLeft(s) ==
  IF Processing(s, "steps") THEN {last_log, Committed(s)} ELSE {last_log}

\* The session stops working on its command, wherever it is.
Abandon(s) ==
  /\ SetJob(s, NoJob)
  /\ interrupted' = interrupted \cup {m \in Migrations : InWindow(s, m)}

-----------------------------------------------------------------------------
(* lock() on the way in.                                                   *)

\* A process starts and reaches the with-statement of its command.
Start(s) ==
  /\ Lock!CallLock(s)
  /\ UNCHANGED <<dataVars, uncommitted, job, interrupted>>

WaitForLock(s) ==
  /\ Lock!Poll(s)
  /\ UNCHANGED <<dataVars, uncommitted, job, interrupted>>

-----------------------------------------------------------------------------
(* The body of the lock() block.                                           *)

\* Mutant: the list is made before the lock is there.
SelectWhilePolling(s) ==
  /\ pc[s] \in {"polling", "holding"}
  /\ job[s].stage = "select"
  /\ \E cmd \in Commands :
       /\ CanSelect(cmd)
       /\ \E listed \in Listed(cmd) :
          \E todo \in Chosen(cmd, OfRevision(cmd, listed)) :
            SetJob(s, [NoJob EXCEPT
                         !.kind = cmd.kind,
                         !.stage = IF todo = <<>> THEN "done"
                                   ELSE IF cmd.kind = "reapply" THEN "rollback"
                                   ELSE cmd.kind,
                         !.todo = todo,
                         !.again = todo])
  /\ UNCHANGED <<lockVars, dataVars, uncommitted, interrupted>>

\* get_migrations, up to the confirmed list.
Select(s) ==
  /\ At(s, {"select"})
  /\ \E cmd \in Commands :
       /\ CanSelect(cmd)
       /\ \E listed \in Listed(cmd) :
          \E todo \in Chosen(cmd, OfRevision(cmd, listed)) :
            SetJob(s, [kind  |-> cmd.kind,
                       stage |-> IF todo = <<>> THEN "done"
                                 ELSE IF cmd.kind = "reapply" THEN "rollback"
                                 ELSE cmd.kind,
                       step  |-> "steps",
                       todo  |-> todo,
                       again |-> IF cmd.kind = "reapply" THEN todo ELSE <<>>])
  /\ UNCHANGED <<lockVars, dataVars, uncommitted, interrupted>>

\* process_steps of a migration whose file cannot be executed raises
\* BadMigration, and the loop over the migrations goes on with the next one.
SkipBroken(s) ==
  /\ Processing(s, "steps")
  /\ Current(s) \in Broken
  /\ SetJob(s, Advanced(job[s]))
  /\ UNCHANGED <<lockVars, dataVars, uncommitted, interrupted>>

\* ensure_internal_schema_updated finds the tables current, and the transaction
\* of its query commits what the connection had left uncommitted, the row of the
\* log of a hook; then process_steps succeeds.
CommitSteps(s) ==
  /\ Processing(s, "steps")
  /\ Current(s) \notin Broken
  /\ effect' = IF job[s].stage = "rollback" THEN effect \ {Current(s)}
               ELSE effect \cup {Current(s)}
  /\ last_log' = Committed(s)
  /\ Uncommitted(s, {})
  /\ SetJob(s, [job[s] EXCEPT !.step = "log"])
  /\ UNCHANGED <<lockVars, applied, interrupted>>

\* Mutant: what the failed steps have done is committed.
FailStepsCommitting(s) ==
  /\ Processing(s, "steps")
  /\ Current(s) \notin Broken
  /\ Lock!BodyRaises(s)
  /\ effect' \in {effect \ {Current(s)}, effect \cup {Current(s)}}
  /\ last_log' = Committed(s)
  /\ Uncommitted(s, {})
  /\ Abandon(s)
  /\ UNCHANGED applied

\* Mutant: the loop over the migrations goes on after any exception.
FailStepsSwallowed(s) ==
  /\ Processing(s, "steps")
  /\ Current(s) \notin Broken
  /\ SetJob(s, Advanced(job[s]))
  /\ UNCHANGED <<lockVars, dataVars, uncommitted, interrupted>>

\* The same query, and then process_steps raises: its transaction is rolled
\* back.
FailSteps(s) ==
  /\ Processing(s, "steps")
  /\ Current(s) \notin Broken
  /\ Lock!BodyRaises(s)
  /\ effect' \in Partly(s)
  /\ last_log' = Committed(s)
  /\ Uncommitted(s, {})
  /\ Abandon(s)
  /\ UNCHANGED applied

\* Mutant: the log gets the name of the command.
WriteLogOfCommand(s) ==
  /\ Processing(s, "log")
  /\ last_log' = [last_log EXCEPT ![Current(s)] = job[s].kind]
  /\ SetJob(s, IF job[s].stage = "hooks" THEN Advanced(job[s])
               ELSE [job[s] EXCEPT !.step = "table"])
  /\ UNCHANGED <<lockVars, applied, effect, uncommitted, interrupted>>

\* log_migration, outside any transaction.  A hook has no row to write.
WriteLog(s) ==
  /\ Processing(s, "log")
  /\ IF LogAutocommit
     THEN /\ last_log' = [last_log EXCEPT ![Current(s)] = Direction(job[s])]
          /\ UNCHANGED uncommitted
     ELSE /\ Uncommitted(s, uncommitted[s]
                               \cup {<<Current(s), Direction(job[s])>>})
          /\ UNCHANGED last_log
  /\ SetJob(s, IF job[s].stage = "hooks" THEN Advanced(job[s])
               ELSE [job[s] EXCEPT !.step = "table"])
  /\ UNCHANGED <<lockVars, applied, effect, interrupted>>

\* mark_one or unmark_one in its transaction.  The hash is a unique key.
WriteTable(s) ==
  /\ Processing(s, "table")
  /\ IF job[s].stage = "rollback"
     THEN applied' = applied \ {Current(s)}
     ELSE /\ Current(s) \notin applied
          /\ applied' = applied \cup {Current(s)}
  /\ last_log' = Committed(s)
  /\ Uncommitted(s, {})
  /\ interrupted' = interrupted \ {Current(s)}
  /\ SetJob(s, Advanced(job[s]))
  /\ UNCHANGED <<lockVars, effect>>

\* mark_migrations: one transaction for the rows and the log of all of them.
MarkAll(s) ==
  /\ At(s, {"mark"})
  /\ ToSet(job[s].todo) \cap applied = {}
  /\ applied' = applied \cup ToSet(job[s].todo)
  /\ last_log' = [m \in Scripts |-> IF m \in ToSet(job[s].todo) THEN "mark"
                                    ELSE last_log[m]]
  /\ SetJob(s, [job[s] EXCEPT !.stage = "done", !.todo = <<>>])
  /\ UNCHANGED <<lockVars, effect, uncommitted, interrupted>>

\* unmark_migrations, of applied migrations and with --all of others too.
UnmarkAll(s) ==
  /\ At(s, {"unmark"})
  /\ applied' = applied \ ToSet(job[s].todo)
  /\ last_log' = [m \in Scripts |-> IF m \in ToSet(job[s].todo) THEN "unmark"
                                    ELSE last_log[m]]
  /\ SetJob(s, [job[s] EXCEPT !.stage = "done", !.todo = <<>>])
  /\ UNCHANGED <<lockVars, effect, uncommitted, interrupted>>

\* reapply passes the list it has rolled back to to_apply.
Reselect(s) ==
  LET unapplied == Only(job[s].again, Migrations \ applied)
  IN  /\ At(s, {"reselect"})
      /\ ToSet(unapplied) \cap Broken = {}
      /\ \E todo \in TopologicalSorts(Depends, unapplied) :
           SetJob(s, [job[s] EXCEPT !.todo = todo, !.again = <<>>,
                        !.stage = IF todo = <<>> THEN "done" ELSE "apply"])
      /\ UNCHANGED <<lockVars, dataVars, uncommitted, interrupted>>

\* Anything else that raises in the body: get_migrations, the unique key, a
\* lost connection, a signal.  A transaction in progress is rolled back; what
\* the connection holds outside one may still be committed with the DELETE.
Raise(s) ==
  /\ Lock!BodyRaises(s)
  /\ \E kept \in {{}, uncommitted[s]} : Uncommitted(s, kept)
  /\ Abandon(s)
  /\ UNCHANGED dataVars

-----------------------------------------------------------------------------
(* lock() on the way out, and the end of the process.                      *)

Finish(s) ==
  /\ At(s, {"done"})
  /\ Lock!BodyReturns(s)
  /\ SetJob(s, NoJob)
  /\ UNCHANGED <<dataVars, uncommitted, interrupted>>

\* Mutant: the DELETE has a connection of its own, and what waits on the other
\* one is committed behind it.
ReleaseBeforeLog(s) ==
  /\ \/ Lock!DeleteLockRow(s) /\ UNCHANGED <<last_log, uncommitted>>
     \/ /\ uncommitted[s] # {} /\ pc[s] \in {"idle", "ended"}
        /\ last_log' = Committed(s)
        /\ Uncommitted(s, {})
        /\ UNCHANGED lockVars
  /\ UNCHANGED <<applied, effect, job, interrupted>>

\* The transaction of the DELETE commits what the connection still holds.
Release(s) ==
  /\ Lock!DeleteLockRow(s)
  /\ last_log' = Committed(s)
  /\ Uncommitted(s, {})
  /\ UNCHANGED <<applied, effect, job, interrupted>>

FailToRelease(s) ==
  /\ Lock!DeleteFails(s)
  /\ Uncommitted(s, {})
  /\ UNCHANGED <<dataVars, job, interrupted>>

\* The process dies; the database rolls back what it had not committed.
Crash(s) ==
  /\ Lock!Crash(s)
  /\ effect' \in Partly(s)
  /\ last_log' \in LogLeft(s)
  /\ Uncommitted(s, {})
  /\ Abandon(s)
  /\ UNCHANGED applied

BreakLock ==
  /\ Lock!BreakLock
  /\ UNCHANGED <<dataVars, uncommitted, job, interrupted>>

-----------------------------------------------------------------------------
Work(s) ==
  \/ Select(s) \/ SkipBroken(s) \/ CommitSteps(s) \/ FailSteps(s)
  \/ WriteLog(s) \/ WriteTable(s) \/ MarkAll(s) \/ UnmarkAll(s)
  \/ Reselect(s) \/ Raise(s) \/ Finish(s)

SessionStep(s) ==
  Start(s) \/ WaitForLock(s) \/ Work(s) \/ Release(s) \/ FailToRelease(s)
           \/ Crash(s)

Next == (\E s \in Backends : SessionStep(s)) \/ BreakLock

Spec == Init /\ [][Next]_vars

\* A process that has begun a command goes on with it: the program is
\* sequential, and every statement it executes returns or raises.
FairSpec ==
  Spec /\ \A s \in Backends :
            WF_vars(WaitForLock(s) \/ Work(s) \/ Release(s) \/ FailToRelease(s))

-----------------------------------------------------------------------------
\* Outside the window between the two commits the table of applied migrations
\* tells which atomic migrations are in the database, whichever sessions
\* crashed or failed, except for those that a session died in the window of
\* and those that were last marked or unmarked.
EffectMatchesTable ==
  \A m \in Migrations \cap Atomic :
    (m \in applied) # (m \in effect)
      => \/ m \in interrupted
         \/ \E s \in Backends : InWindow(s, m)
         \/ last_log[m] \in {"mark", "unmark"}

\* The log and the table agree: a migration is in the table exactly when the
\* newest row of the log for it says that it was applied or marked.  On
\* PostgreSQL the two are committed together, so only a session that raised
\* can have separated them; elsewhere the log is ahead in the window.
AuditTrail ==
  \A m \in Migrations :
    (m \in applied) # (last_log[m] \in {"apply", "mark"})
      => \/ m \in interrupted
         \/ LogAutocommit /\ \E s \in Backends : InWindow(s, m)

\* A session that selects with to_apply never meets the unique key of the
\* table: what it read under the lock is still true when it writes.
SelectionStaysTrue ==
  \A s \in Backends :
    At(s, {"apply", "mark"}) => ToSet(job[s].todo) \cap applied = {}

\* The migrations that depend on nothing and that nothing depends on.
Unrelated == Migrations \ InGraph(Depends, Files)

\* "In the absence of a __depends__ attribute, migrations are applied in
\* filename order" (docs/migration_files.md): in apply a migration overtakes
\* those whose filename is less only if it has dependencies or is one.
FilenameOrder ==
  \A s \in Backends :
    At(s, {"apply"}) /\ job[s].kind = "apply" =>
      \A x \in Unrelated, y \in Migrations :
        Precedes(job[s].todo, x, y) => Precedes(Files, x, y)

\* Yoyo "manages dependencies between migrations" (README.md): no migration is
\* recorded as applied without those it depends on.
DependencyClosed ==
  \A m \in applied : Depends[m] \subseteq applied

\* The table changes only in ways that respect dependencies.
History == INSTANCE SchemaHistory

HistorySpec == History!Spec

\* The table of applied migrations, the log and the migrations' own changes are
\* only written by the session whose row is in the lock table: also the rows of
\* the log that wait for a later commit, which come with the DELETE at the
\* latest, and whatever is left half done by a session that fails or dies.
WritesUnderLock ==
  [][dataVars' # dataVars =>
       \E s \in Backends :
         lock_table = s /\ <<pc[s], job[s]>>' # <<pc[s], job[s]>>]_vars

\* Its command has raised or its process has died.
Failed(s) ==
  \/ pc[s] \in {"ended", "crashed"}
  \/ pc[s] = "deleting" /\ is_locked[s]

\* A migration that a session has selected gets applied, unless the session
\* fails: one that cannot be loaded is skipped, and does not stop the others.
SelectedGetApplied ==
  \A s \in Backends : \A m \in Migrations \ Broken :
    At(s, {"apply"}) /\ m \in ToSet(job[s].todo)
      ~> m \in applied \/ Failed(s)
=============================================================================
