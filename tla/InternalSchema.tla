--------------------------- MODULE InternalSchema ---------------------------
(***************************************************************************)
(* How yoyo brings its own tables to their current version, 2: the method  *)
(* ensure_internal_schema_updated of yoyo/backends.py and the package      *)
(* yoyo/internalmigrations.                                                *)
(*                                                                         *)
(* A program asks for the version, by two queries, and if it is too old    *)
(* takes the lock (MigrationLock), asks again and upgrades statement by    *)
(* statement in one transaction.  The commands of yoyo do all this inside  *)
(* a lock() block of their own, so that the lock of the upgrade is nested. *)
(* A program that uses the library may ask without any lock.               *)
(*                                                                         *)
(* Behind the upgrade a program reads the table of applied migrations, and *)
(* may add to it when it has the lock.                                     *)
(***************************************************************************)
EXTENDS Naturals, Sequences

CONSTANTS
  Backends, PidOf, BreakPolicy, MaxPolls, NoRow,     \* see MigrationLock
  Locked,       \* the programs that call it inside a lock() block
  Ids,          \* the migrations
  Databases,    \* whether the database can roll back DDL
  NoWork        \* the program has no transaction

ASSUME SchemaAssumption ==
  /\ NoRow \notin Backends
  /\ BreakPolicy \in {"never", "stale", "any"}
  /\ MaxPolls \in Nat
  /\ Locked \subseteq Backends
  /\ Databases \subseteq BOOLEAN

VARIABLES
  lock_table, is_locked, pc, nested, polls,   \* see MigrationLock
  has_transactional_ddl,   \* of the database
  stable,       \* the database as every other connection, and a crash, sees it
  work,         \* the database as the transaction of an upgrade sees it
  stage,        \* how far each program is
  todo,         \* the statements its upgrade has still to execute
  seen,         \* what it read from the table of applied migrations
  reason,       \* why it raised
  recorded,     \* history: the migrations that were ever recorded as applied
  interrupted   \* history: an upgrade stopped between two of its statements

Lock == INSTANCE MigrationLock WITH Retrying <- {}, MaxNested <- 1

lockVars == <<lock_table, is_locked, pc, nested, polls>>
schemaVars == <<has_transactional_ddl, stable, work, stage, todo, seen, reason,
                recorded, interrupted>>
vars == <<lockVars, schemaVars>>

(***************************************************************************)
(* The table of applied migrations has one name and two layouts, v1 and    *)
(* v2.  A database is its tables and the rows of the three of them.        *)
(***************************************************************************)
Tables == {"v1", "v2", "log", "version"}

Schemas == [tables : SUBSET Tables, applied : SUBSET Ids, logged : SUBSET Ids,
            versions : SUBSET {2}]

ASSUME NoWorkAssumption == NoWork \notin Schemas

Statements == {"create", "drop", "insert"} \X Tables

CurrentVersion == 2

\* A database at the given version whose table has the given rows.  The table
\* of version 1 came without a log.
AtVersion(version, rows) ==
  {db \in Schemas :
     CASE version = 0 -> db.tables = {} /\ db.logged = {}
                         /\ db.applied = {} /\ rows = {} /\ db.versions = {}
       [] version = 1 -> db.tables = {"v1"} /\ db.logged = {}
                         /\ db.applied = rows /\ db.versions = {}
       [] version = 2 -> db.tables = {"v2", "log", "version"}
                         /\ db.applied = rows /\ db.versions = {2}}

TypeOK ==
  /\ Lock!TypeOK
  /\ stable \in Schemas
  /\ work \in [Backends -> Schemas \cup {NoWork}]
  /\ stage \in [Backends -> {"list", "row", "enter", "upgrade", "leave",
                             "current", "ready", "raised", "done"}]
  /\ todo \in [Backends -> Seq(Statements)]
  /\ \A p \in Backends : todo[p] # <<>> => stage[p] = "upgrade"
  /\ seen \in [Backends -> SUBSET Ids]
  /\ reason \in [Backends -> {"none", "conflict", "assertion"}]
  /\ recorded \subseteq Ids
  /\ {has_transactional_ddl, interrupted} \subseteq BOOLEAN

Init ==
  /\ Lock!Init
  /\ has_transactional_ddl \in Databases
  /\ \E version \in 0..CurrentVersion, rows \in SUBSET Ids :
       /\ stable \in AtVersion(version, rows)
       /\ recorded = rows
  /\ work = [p \in Backends |-> NoWork]
  /\ stage = [p \in Backends |-> "list"]
  /\ todo = [p \in Backends |-> <<>>]
  /\ seen = [p \in Backends |-> {}]
  /\ reason = [p \in Backends |-> "none"]
  /\ interrupted = FALSE

-----------------------------------------------------------------------------
(* The statements of an upgrade.                                           *)

\* v1.upgrade creates a table.
ToVersion1 == << <<"create", "v1">> >>

\* Mutant: the version is marked before the rows are there.
ToVersion2MarkingEarly ==
  << <<"create", "log">>, <<"create", "version">>, <<"insert", "version">>,
     <<"insert", "log">>, <<"drop", "v1">>, <<"create", "v2">>,
     <<"insert", "v2">> >>

\* Mutant: the old table is dropped before its rows are copied.
ToVersion2DroppingEarly ==
  << <<"create", "log">>, <<"create", "version">>, <<"drop", "v1">>,
     <<"create", "v2">>, <<"insert", "log">>, <<"insert", "v2">>,
     <<"insert", "version">> >>

\* v2.upgrade copies the rows of the old table to the log, and from there to
\* the new table; mark_schema_version writes no row for version 1.
ToVersion2 ==
  << <<"create", "log">>, <<"create", "version">>, <<"insert", "log">>,
     <<"drop", "v1">>, <<"create", "v2">>, <<"insert", "v2">>,
     <<"insert", "version">> >>

\* The loop of upgrade.
Plan(version) ==
  CASE version = 0 -> ToVersion1 \o ToVersion2
    [] version = 1 -> ToVersion2
    [] version = 2 -> <<>>

\* Both layouts have the same name.
SameName(table) == IF table \in {"v1", "v2"} THEN {"v1", "v2"} ELSE {table}

\* The database refuses to create what is there and to read what is not.
Refuses(db, statement) ==
  CASE statement[1] = "create" -> db.tables \cap SameName(statement[2]) # {}
    [] statement[1] = "drop" -> db.tables \cap SameName(statement[2]) = {}
    [] statement = <<"insert", "log">> -> ~({"v1", "log"} \subseteq db.tables)
    [] statement = <<"insert", "v2">> -> ~({"v2", "log"} \subseteq db.tables)
    [] statement = <<"insert", "version">> ->
         "version" \notin db.tables \/ 2 \in db.versions

Execute(db, statement) ==
  CASE statement[1] = "create" -> [db EXCEPT !.tables = @ \cup {statement[2]}]
    [] statement[1] = "drop" ->
         [db EXCEPT !.tables = @ \ SameName(statement[2]), !.applied = {}]
    [] statement = <<"insert", "log">> ->
         [db EXCEPT !.logged = @ \cup db.applied]
    [] statement = <<"insert", "v2">> ->
         [db EXCEPT !.applied = @ \cup db.logged]
    [] statement = <<"insert", "version">> ->
         [db EXCEPT !.versions = @ \cup {2}]

CommitsImplicitly(statement) ==
  ~has_transactional_ddl /\ statement[1] \in {"create", "drop"}

-----------------------------------------------------------------------------
(* The steps of a program.                                                 *)

GoTo(p, label) == stage' = [stage EXCEPT ![p] = label]

\* The program is in the lock() block of ensure_internal_schema_updated.
InUpgradeLock(p) == IF p \in Locked THEN nested[p] = 1 ELSE pc[p] = "holding"

\* The program runs, and does not wait for a lock.
Runs(p) == Lock!InBody(p) \/ (p \notin Locked /\ pc[p] = "idle")

\* A command begins with lock().
Start(p) ==
  /\ p \in Locked /\ stage[p] = "list"
  /\ Lock!CallLock(p)
  /\ UNCHANGED schemaVars

WaitForLock(p) ==
  /\ Lock!Poll(p)
  /\ UNCHANGED schemaVars

\* get_current_version returns to needs_upgrading or to upgrade, which begins
\* its transaction.
Answer(p, version) ==
  IF InUpgradeLock(p)
  THEN /\ GoTo(p, "upgrade")
       /\ todo' = [todo EXCEPT ![p] = Plan(version)]
       /\ work' = [work EXCEPT ![p] = stable]
  ELSE /\ GoTo(p, IF version < CurrentVersion THEN "enter" ELSE "current")
       /\ UNCHANGED <<todo, work>>

\* Mutant: a version table is taken for the current version.
ListTablesOnly(p) ==
  /\ stage[p] = "list" /\ Runs(p)
  /\ Answer(p, IF {"v1", "v2"} \cap stable.tables = {} THEN 0
               ELSE IF "version" \notin stable.tables THEN 1 ELSE 2)
  /\ UNCHANGED <<lockVars, has_transactional_ddl, stable, seen, reason,
                 recorded, interrupted>>

\* The first query of get_current_version.
ListTables(p) ==
  /\ stage[p] = "list" /\ Runs(p)
  /\ \/ /\ {"v1", "v2"} \cap stable.tables = {}
        /\ Answer(p, 0)
     \/ /\ {"v1", "v2"} \cap stable.tables # {}
        /\ "version" \notin stable.tables
        /\ Answer(p, 1)
     \/ /\ {"v1", "v2"} \cap stable.tables # {}
        /\ "version" \in stable.tables
        /\ GoTo(p, "row")
        /\ UNCHANGED <<todo, work>>
  /\ UNCHANGED <<lockVars, has_transactional_ddl, stable, seen, reason,
                 recorded, interrupted>>

\* The second one, of the version table.
ReadVersion(p) ==
  /\ stage[p] = "row" /\ 2 \in stable.versions
  /\ Answer(p, 2)
  /\ UNCHANGED <<lockVars, has_transactional_ddl, stable, seen, reason,
                 recorded, interrupted>>

\* Mutant: the version that needs_upgrading saw is used without asking again.
EnterLockTrusting(p) ==
  /\ stage[p] = "enter"
  /\ IF p \in Locked THEN Lock!EnterNested(p) ELSE Lock!CallLock(p)
  /\ GoTo(p, "upgrade")
  /\ todo' = [todo EXCEPT ![p] = Plan(IF stable.tables = {} THEN 0 ELSE 1)]
  /\ work' = [work EXCEPT ![p] = stable]
  /\ UNCHANGED <<has_transactional_ddl, stable, seen, reason, recorded,
                 interrupted>>

\* Mutant: lock() does not see that the program has the lock already.
EnterLockWaiting(p) ==
  /\ stage[p] = "enter"
  /\ lock_table = NoRow
  /\ Lock!CallLock(p)
  /\ GoTo(p, "list")
  /\ UNCHANGED <<has_transactional_ddl, stable, work, todo, seen, reason,
                 recorded, interrupted>>

\* The version is too old: lock(), and ask again inside.
EnterLock(p) ==
  /\ stage[p] = "enter"
  /\ IF p \in Locked THEN Lock!EnterNested(p) ELSE Lock!CallLock(p)
  /\ GoTo(p, "list")
  /\ UNCHANGED <<has_transactional_ddl, stable, work, todo, seen, reason,
                 recorded, interrupted>>

\* Mutant: every statement is committed, although DDL could be rolled back.
StatementCommitting(p) ==
  /\ stage[p] = "upgrade" /\ todo[p] # <<>>
  /\ ~Refuses(work[p], Head(todo[p]))
  /\ work' = [work EXCEPT ![p] = Execute(@, Head(todo[p]))]
  /\ stable' = work'[p]
  /\ todo' = [todo EXCEPT ![p] = Tail(@)]
  /\ UNCHANGED <<lockVars, has_transactional_ddl, stage, seen, reason,
                 recorded, interrupted>>

Statement(p) ==
  /\ stage[p] = "upgrade" /\ todo[p] # <<>>
  /\ ~Refuses(work[p], Head(todo[p]))
  /\ work' = [work EXCEPT ![p] = Execute(@, Head(todo[p]))]
  /\ stable' = IF CommitsImplicitly(Head(todo[p])) THEN work'[p] ELSE stable
  /\ todo' = [todo EXCEPT ![p] = Tail(@)]
  /\ UNCHANGED <<lockVars, has_transactional_ddl, stage, seen, reason,
                 recorded, interrupted>>

\* The transaction of upgrade ends, and the flag _internal_schema_updated is
\* set.
CommitUpgrade(p) ==
  /\ stage[p] = "upgrade" /\ todo[p] = <<>>
  /\ stable' = work[p]
  /\ work' = [work EXCEPT ![p] = NoWork]
  /\ GoTo(p, "leave")
  /\ UNCHANGED <<lockVars, has_transactional_ddl, todo, seen, reason, recorded,
                 interrupted>>

LeaveLock(p) ==
  /\ stage[p] = "leave"
  /\ IF p \in Locked THEN Lock!LeaveNested(p) ELSE Lock!BodyReturns(p)
  /\ GoTo(p, "current")
  /\ UNCHANGED <<has_transactional_ddl, stable, work, todo, seen, reason,
                 recorded, interrupted>>

\* get_applied_migration_hashes reads its table.
ReadApplied(p) ==
  /\ stage[p] = "current" /\ Runs(p)
  /\ "v2" \in stable.tables
  /\ seen' = [seen EXCEPT ![p] = stable.applied]
  /\ GoTo(p, "ready")
  /\ UNCHANGED <<lockVars, has_transactional_ddl, stable, work, todo, reason,
                 recorded, interrupted>>

\* A command applies a migration: a row of the log and a row of the table.
Record(p) ==
  /\ stage[p] = "ready" /\ p \in Locked
  /\ \E m \in Ids \ seen[p] :
       /\ stable' = [stable EXCEPT !.applied = @ \cup {m},
                                   !.logged = @ \cup {m}]
       /\ seen' = [seen EXCEPT ![p] = @ \cup {m}]
       /\ recorded' = recorded \cup {m}
  /\ UNCHANGED <<lockVars, has_transactional_ddl, work, stage, todo, reason,
                 interrupted>>

Finish(p) ==
  /\ stage[p] = "ready"
  /\ IF p \in Locked THEN Lock!BodyReturns(p) ELSE UNCHANGED lockVars
  /\ seen' = [seen EXCEPT ![p] = {}]
  /\ GoTo(p, "done")
  /\ UNCHANGED <<has_transactional_ddl, stable, work, todo, reason, recorded,
                 interrupted>>

Release(p) ==
  /\ Lock!DeleteLockRow(p) \/ Lock!DeleteFails(p)
  /\ UNCHANGED schemaVars

-----------------------------------------------------------------------------
(* Errors.                                                                 *)

\* The next thing that p does contradicts what is in the database.
Contradicts(p, why) ==
  CASE why = "assertion" -> stage[p] = "row" /\ stable.versions = {}
    [] why = "conflict" ->
         \/ /\ stage[p] = "upgrade" /\ todo[p] # <<>>
            /\ Refuses(work[p], Head(todo[p]))
         \/ /\ stage[p] = "current" /\ Runs(p)
            /\ "v2" \notin stable.tables

\* Mutant: the statements that are left are not forgotten.
StopKeepingTodo(p) ==
  /\ work' = [work EXCEPT ![p] = NoWork]
  /\ seen' = [seen EXCEPT ![p] = {}]
  /\ interrupted' = (interrupted \/ work[p] # NoWork)
  /\ UNCHANGED todo

\* The transaction of an upgrade and what was read are gone.
Stop(p) ==
  /\ work' = [work EXCEPT ![p] = NoWork]
  /\ todo' = [todo EXCEPT ![p] = <<>>]
  /\ seen' = [seen EXCEPT ![p] = {}]
  /\ interrupted' = (interrupted \/ work[p] # NoWork)

\* A query or a statement raises because of that, or any DatabaseError; what
\* was open is rolled back.
Raise(p) ==
  /\ \/ \E why \in {"assertion", "conflict"} :
          Contradicts(p, why) /\ reason' = [reason EXCEPT ![p] = why]
     \/ /\ stage[p] \in {"list", "row", "upgrade", "current", "ready"}
        /\ Runs(p)
        /\ UNCHANGED reason
  /\ Stop(p)
  /\ GoTo(p, "raised")
  /\ UNCHANGED <<lockVars, has_transactional_ddl, stable, recorded>>

\* The exception leaves the lock() blocks, the innermost first.
Unwind(p) ==
  /\ stage[p] = "raised"
  /\ IF Lock!InBody(p)
     THEN \/ Lock!LeaveNested(p) /\ UNCHANGED stage
          \/ Lock!BodyRaises(p) /\ GoTo(p, "done")
     ELSE UNCHANGED lockVars /\ GoTo(p, "done")
  /\ UNCHANGED <<has_transactional_ddl, stable, work, todo, seen, reason,
                 recorded, interrupted>>

\* The process dies in a lock() block.
Die(p) ==
  /\ Lock!Crash(p)
  /\ Stop(p)
  /\ GoTo(p, "done")
  /\ UNCHANGED <<has_transactional_ddl, stable, reason, recorded>>

BreakLock ==
  /\ Lock!BreakLock
  /\ UNCHANGED schemaVars

-----------------------------------------------------------------------------
Work(p) ==
  \/ WaitForLock(p) \/ ListTables(p) \/ ReadVersion(p) \/ EnterLock(p)
  \/ Statement(p) \/ CommitUpgrade(p) \/ LeaveLock(p) \/ ReadApplied(p)
  \/ Finish(p) \/ Release(p) \/ Raise(p) \/ Unwind(p)

Next ==
  \/ \E p \in Backends : Start(p) \/ Work(p) \/ Record(p) \/ Die(p)
  \/ BreakLock

Spec == Init /\ [][Next]_vars

\* A program is sequential: as long as it can go on it does.
FairSpec == Spec /\ \A p \in Backends : WF_vars(Work(p))

-----------------------------------------------------------------------------
\* test_v3_preserves_history_when_upgrading, of every order of steps: on every
\* database, in the middle of an upgrade and wherever one has stopped, each
\* migration that was ever recorded is still in the table or in the log.
HistoryIsSomewhere == recorded \subseteq stable.applied \cup stable.logged

\* Whoever gets past ensure_internal_schema_updated reads the whole history:
\* nobody decides what to apply on the strength of a table that another
\* program has created but not filled, also where DDL commits at once.
ReadsWholeHistory ==
  [][\A p \in Backends : ReadApplied(p) => seen'[p] = recorded]_vars

\* Where DDL can be rolled back an upgrade is all or nothing, whoever dies in
\* it: others only ever see one of the three versions with its history.
UpgradeIsAtomic ==
  has_transactional_ddl =>
    \E version \in 0..CurrentVersion :
      /\ stable.tables \in {db.tables : db \in AtVersion(version, recorded)}
      /\ stable.applied = recorded
      /\ stable.versions = IF version = 2 THEN {2} ELSE {}

\* "assert version in schema_versions", and no upgrade trips over tables that
\* another one made: of several programs that find an old schema one upgrades
\* it and the others see that.  It is broken only where DDL commits at once,
\* by an upgrade that stopped half way, for all later programs, or for a
\* program that asks without the lock in the middle of another's upgrade.
NoConflict ==
  \A p \in Backends :
    reason[p] \in {"assertion", "conflict"} =>
      ~has_transactional_ddl /\ (interrupted \/ p \notin Locked)

\* A program that is past ensure_internal_schema_updated, or has the flag
\* _internal_schema_updated set, is right about it for the rest of its life.
CurrentStaysCurrent ==
  \A p \in Backends :
    stage[p] \in {"leave", "current", "ready"} =>
      2 \in stable.versions /\ "v2" \in stable.tables

\* Every call of ensure_internal_schema_updated ends, in an answer or in an
\* exception: a command does not wait for the lock that it has itself.
CallEnds ==
  \A p \in Backends :
    stage[p] = "enter" ~> stage[p] \in {"current", "done"} \/ pc[p] = "ended"
=============================================================================
