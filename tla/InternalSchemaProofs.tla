------------------------ MODULE InternalSchemaProofs -------------------------
(***************************************************************************)
(* Theorems about the upgrade of yoyo's own tables, for every set of       *)
(* programs, with and without a lock of their own, and any migrations.     *)
(*                                                                         *)
(* First, what the programs do to the lock are steps of MigrationLock, so  *)
(* that its theorems hold of them: whoever upgrades is alone with the      *)
(* database.  On this rests the invariant SchemaInv, which says which      *)
(* half-upgraded databases there can be and what a program knows of the    *)
(* database from where it is.                                              *)
(***************************************************************************)
EXTENDS InternalSchema, SequenceTheorems, TLAPS

\* The queries and statements of a program do not touch the lock.
LEMMA QueriesLeaveLockAlone ==
  ASSUME NEW p \in Backends,
         \/ ListTables(p) \/ ReadVersion(p) \/ Statement(p)
         \/ CommitUpgrade(p) \/ ReadApplied(p) \/ Record(p) \/ Raise(p)
  PROVE  UNCHANGED lockVars
BY DEF ListTables, ReadVersion, Statement, CommitUpgrade, ReadApplied, Record,
       Raise

\* Everything else that a program does is a step of the lock, if anything.
LEMMA OtherStepsAreOfLock ==
  ASSUME NEW p \in Backends,
         \/ Start(p) \/ WaitForLock(p) \/ EnterLock(p) \/ LeaveLock(p)
         \/ Finish(p) \/ Release(p) \/ Unwind(p) \/ Die(p)
  PROVE  UNCHANGED lockVars \/ Lock!BackendStep(p)
BY DEF Start, WaitForLock, EnterLock, LeaveLock, Finish, Release, Unwind, Die,
       Lock!BackendStep

\* Every step of a program is a step of the lock, or leaves it alone.
LEMMA StepIsOfLock == [Next]_vars => [Lock!Next]_(Lock!vars)
<1> SUFFICES ASSUME [Next]_vars PROVE [Lock!Next]_(Lock!vars)
  OBVIOUS
<1>1. CASE \E p \in Backends : Start(p) \/ Work(p) \/ Record(p) \/ Die(p)
  <2> PICK p \in Backends : Start(p) \/ Work(p) \/ Record(p) \/ Die(p)
    BY <1>1
  <2>1. UNCHANGED lockVars \/ Lock!BackendStep(p)
    BY QueriesLeaveLockAlone, OtherStepsAreOfLock DEF Work
  <2> QED
    BY <2>1 DEF lockVars, Lock!vars, Lock!Next
<1>2. CASE BreakLock
  BY <1>2 DEF BreakLock, Lock!Next
<1>3. CASE UNCHANGED vars
  BY <1>3 DEF vars, lockVars, Lock!vars
<1> QED
  BY <1>1, <1>2, <1>3 DEF Next

\* So the invariants of MigrationLock hold of the programs.
LEMMA SchemaUsesLock == Spec => Lock!Spec
<1>1. Init => Lock!Init
  BY DEF Init
<1> QED
  BY <1>1, StepIsOfLock, PTL DEF Spec, Lock!Spec

-----------------------------------------------------------------------------
LockFacts == INSTANCE MigrationLockProofs WITH Retrying <- {}, MaxNested <- 1

\* The lock's assumptions on its constants are met.
LEMMA LockConstants == LockFacts!LockAssumption
BY SchemaAssumption DEF LockFacts!LockAssumption

\* The same lock as the one of MigrationLockProofs.
LEMMA SpecIsOfLock == Spec => LockFacts!Spec
<1>1. Lock!Init => LockFacts!Init
  BY DEF Lock!Init, LockFacts!Init
<1>2. [Lock!Next]_(Lock!vars) => [LockFacts!Next]_(LockFacts!vars)
  BY DEF Lock!CallLock, LockFacts!CallLock,
       Lock!Borrow, LockFacts!Borrow,
       Lock!EnterNested, LockFacts!EnterNested,
       Lock!LeaveNested, LockFacts!LeaveNested,
       Lock!Poll, LockFacts!Poll,
       Lock!InsertLockRow, LockFacts!InsertLockRow,
       Lock!PollAgain, LockFacts!PollAgain,
       Lock!LockTimeout, LockFacts!LockTimeout,
       Lock!BodyReturns, LockFacts!BodyReturns,
       Lock!BodyRaises, LockFacts!BodyRaises,
       Lock!DeleteLockRow, LockFacts!DeleteLockRow,
       Lock!DeleteFails, LockFacts!DeleteFails,
       Lock!Crash, LockFacts!Crash,
       Lock!BackendStep, LockFacts!BackendStep,
       Lock!BreakLock, LockFacts!BreakLock,
       Lock!StaleRow, LockFacts!StaleRow,
       Lock!HasInserted, LockFacts!HasInserted,
       Lock!InBody, LockFacts!InBody,
       Lock!AfterRaise, LockFacts!AfterRaise,
       Lock!Goto, LockFacts!Goto,
       Lock!Next, LockFacts!Next,
       Lock!vars, LockFacts!vars
<1> QED
  BY <1>1, <1>2, SchemaUsesLock, PTL DEF Lock!Spec, LockFacts!Spec

\* A program in a body or before its DELETE has the row.
RowHeld ==
  \A p \in Backends :
    /\ pc[p] # "borrowing"
    /\ pc[p] \in {"holding", "deleting"} => lock_table = p

LEMMA LockHolds ==
  ASSUME BreakPolicy # "any"
  PROVE  Spec => [](Lock!TypeOK /\ RowHeld)
<1>1. LockFacts!Spec => [](LockFacts!TypeOK /\ LockFacts!LockInv)
  BY LockConstants, LockFacts!InvHolds
<1>2. LockFacts!TypeOK => Lock!TypeOK
  BY DEF LockFacts!TypeOK, Lock!TypeOK, LockFacts!PCs, Lock!PCs
<1>3. LockFacts!LockInv => RowHeld
  BY DEF LockFacts!LockInv, LockFacts!OwnsRow, LockFacts!NeverBorrows,
         LockFacts!HasInserted, RowHeld
<1> QED
  BY <1>1, <1>2, <1>3, SpecIsOfLock, PTL

-----------------------------------------------------------------------------
(***************************************************************************)
(* What is left of the plan of an upgrade, at each of its statements.      *)
(***************************************************************************)
FillNew == << <<"insert", "v2">>, <<"insert", "version">> >>
CreateNew == << <<"create", "v2">>, <<"insert", "v2">>,
                <<"insert", "version">> >>
DropOld == << <<"drop", "v1">>, <<"create", "v2">>, <<"insert", "v2">>,
              <<"insert", "version">> >>
CopyOld == << <<"insert", "log">>, <<"drop", "v1">>, <<"create", "v2">>,
              <<"insert", "v2">>, <<"insert", "version">> >>
CreateVersion == << <<"create", "version">>, <<"insert", "log">>,
                    <<"drop", "v1">>, <<"create", "v2">>, <<"insert", "v2">>,
                    <<"insert", "version">> >>
MarkVersion == << <<"insert", "version">> >>

\* The first of the statements that are left, and those behind it.
LEMMA FirstAndRest ==
  /\ MarkVersion # <<>>
  /\ Head(MarkVersion) = <<"insert", "version">> /\ Tail(MarkVersion) = <<>>
  /\ FillNew # <<>>
  /\ Head(FillNew) = <<"insert", "v2">> /\ Tail(FillNew) = MarkVersion
  /\ CreateNew # <<>>
  /\ Head(CreateNew) = <<"create", "v2">> /\ Tail(CreateNew) = FillNew
  /\ DropOld # <<>>
  /\ Head(DropOld) = <<"drop", "v1">> /\ Tail(DropOld) = CreateNew
  /\ CopyOld # <<>>
  /\ Head(CopyOld) = <<"insert", "log">> /\ Tail(CopyOld) = DropOld
  /\ CreateVersion # <<>>
  /\ Head(CreateVersion) = <<"create", "version">>
  /\ Tail(CreateVersion) = CopyOld
  /\ ToVersion2 # <<>>
  /\ Head(ToVersion2) = <<"create", "log">> /\ Tail(ToVersion2) = CreateVersion
BY DEF MarkVersion, FillNew, CreateNew, DropOld, CopyOld, CreateVersion,
       ToVersion2

LEMMA FirstOfConcat ==
  ASSUME NEW S, NEW x \in S, NEW q \in Seq(S)
  PROVE  << x >> \o q # <<>> /\ Head(<< x >> \o q) = x
         /\ Tail(<< x >> \o q) = q
<1> DEFINE one == << x >>
           all == one \o q
<1>1. one \in Seq(S) /\ Len(one) = 1 /\ one[1] = x
  OBVIOUS
<1> HIDE DEF one
<1>2. /\ all \in Seq(S) /\ Len(all) = 1 + Len(q)
      /\ \A i \in 1 .. 1 + Len(q) : all[i] = IF i <= 1 THEN one[i]
                                             ELSE q[i - 1]
  <2>1. /\ all \in Seq(S) /\ Len(all) = Len(one) + Len(q)
        /\ \A i \in 1 .. Len(one) + Len(q) :
             all[i] = IF i <= Len(one) THEN one[i] ELSE q[i - Len(one)]
    BY <1>1, ConcatProperties
  <2> HIDE DEF all
  <2> QED
    BY <1>1, <2>1
<1> HIDE DEF all
<1>3. Len(q) \in Nat
  BY LenProperties
<1>4. all # <<>>
  BY <1>2, <1>3, EmptySeq
<1>5. Head(all) = x
  BY <1>1, <1>2, <1>3, <1>4
<1>6. /\ Tail(all) \in Seq(S) /\ Len(Tail(all)) = Len(q)
      /\ \A i \in 1 .. Len(q) : Tail(all)[i] = all[i + 1]
  BY <1>2, <1>3, <1>4, HeadTailProperties
<1>7. \A i \in 1 .. Len(q) : Tail(all)[i] = q[i]
  BY <1>2, <1>3, <1>6
<1>8. Tail(all) = q
  BY <1>6, <1>7, SeqEqual
<1> QED
  BY <1>4, <1>5, <1>8 DEF all, one

LEMMA PlanType ==
  /\ \A q \in {MarkVersion, FillNew, CreateNew, DropOld, CopyOld, CreateVersion,
               ToVersion2, <<>>} : q \in Seq(Statements)
  /\ Plan(0) \in Seq(Statements)
<1>1. \A kind \in {"create", "drop", "insert"}, table \in Tables :
        <<kind, table>> \in Statements
  BY DEF Statements
<1>2. /\ MarkVersion \in Seq(Statements) /\ FillNew \in Seq(Statements)
      /\ CreateNew \in Seq(Statements) /\ DropOld \in Seq(Statements)
  BY <1>1 DEF Tables, MarkVersion, FillNew, CreateNew, DropOld
<1>3. /\ CopyOld \in Seq(Statements) /\ CreateVersion \in Seq(Statements)
      /\ ToVersion2 \in Seq(Statements) /\ ToVersion1 \in Seq(Statements)
  BY <1>1 DEF Tables, CopyOld, CreateVersion, ToVersion2, ToVersion1
<1>4. Plan(0) \in Seq(Statements)
  BY <1>3, ConcatProperties DEF Plan
<1> QED
  BY <1>2, <1>3, <1>4

LEMMA FirstOfAll ==
  /\ Plan(0) # <<>>
  /\ Head(Plan(0)) = <<"create", "v1">> /\ Tail(Plan(0)) = ToVersion2
  /\ Plan(1) = ToVersion2 /\ Plan(2) = <<>>
<1>1. Plan(0) = ToVersion1 \o ToVersion2 /\ Plan(1) = ToVersion2
      /\ Plan(2) = <<>>
  BY DEF Plan
<1>2. <<"create", "v1">> \in Statements /\ ToVersion2 \in Seq(Statements)
  BY PlanType DEF Statements, Tables
<1> QED
  BY <1>1, <1>2, FirstOfConcat DEF ToVersion1

-----------------------------------------------------------------------------
(***************************************************************************)
(* The databases there can be.  An upgrade goes through these in turn, and *)
(* where DDL commits at once it may stop in any of them: the rows are in   *)
(* the old table, then in the log, and in the end in the new one.          *)
(***************************************************************************)
Looks(db, tables, applied, logged) ==
  /\ db \in Schemas
  /\ db.tables = tables /\ db.applied = applied /\ db.logged = logged
  /\ db.versions = {}

New(db) == Looks(db, {}, {}, {}) /\ recorded = {}
Old(db) == Looks(db, {"v1"}, recorded, {})
WithLog(db) == Looks(db, {"v1", "log"}, recorded, {})
WithVersion(db) == Looks(db, {"v1", "log", "version"}, recorded, {})
Copied(db) == Looks(db, {"v1", "log", "version"}, recorded, recorded)
Dropped(db) == Looks(db, {"log", "version"}, {}, recorded)
Created(db) == Looks(db, {"v2", "log", "version"}, {}, recorded)
Filled(db) == Looks(db, {"v2", "log", "version"}, recorded, recorded)

\* An upgrade that takes a database without the old table for a new one
\* creates that table, and then trips over the log.
Restarted(db) == Looks(db, {"v1", "log", "version"}, {}, recorded)

Upgraded(db) ==
  /\ db \in Schemas
  /\ db.tables = {"v2", "log", "version"}
  /\ db.applied = recorded
  /\ db.versions = {2}

\* One of the three versions, and what they may look like half way.
Whole(db) == New(db) \/ Old(db) \/ Upgraded(db)

Legal(db) ==
  \/ Whole(db) \/ WithLog(db) \/ WithVersion(db) \/ Copied(db) \/ Dropped(db)
  \/ Created(db) \/ Filled(db) \/ Restarted(db)

\* What a transaction has before it when the given statements are left.
Ready(db, statements) ==
  \/ statements = Plan(0) /\ (New(db) \/ Dropped(db))
  \/ statements = ToVersion2 /\ (Old(db) \/ WithLog(db) \/ Restarted(db))
  \/ statements = CreateVersion /\ WithLog(db)
  \/ statements = CopyOld /\ WithVersion(db)
  \/ statements = DropOld /\ Copied(db)
  \/ statements = CreateNew /\ Dropped(db)
  \/ statements = FillNew /\ Created(db)
  \/ statements = MarkVersion /\ Filled(db)
  \/ statements = <<>> /\ Upgraded(db)

\* The upgrade did not begin on what another one has left.
Undisturbed(db, statements) ==
  /\ statements = Plan(0) => New(db)
  /\ statements = ToVersion2 => Old(db)

Intact == has_transactional_ddl \/ ~interrupted

(***************************************************************************)
(* What a program knows from where it is.                                  *)
(***************************************************************************)
\* From its first query on a command has its lock, and an upgrade always has.
Placed(p) ==
  /\ stage[p] = "upgrade" => pc[p] = "holding"
  /\ p \in Locked /\ stage[p] \in {"row", "enter", "upgrade", "leave",
                                   "current", "ready"}
       => pc[p] = "holding"

Upgrading(p) ==
  IF stage[p] = "upgrade"
  THEN /\ work[p] \in Schemas
       /\ Ready(work[p], todo[p])
       /\ todo[p] # <<>> => stable.versions = {}
       /\ Intact => Undisturbed(work[p], todo[p])
  ELSE work[p] = NoWork /\ todo[p] = <<>>

\* Who is past the upgrade has the current tables, and who asks for the row
\* of the version too, unless an upgrade was interrupted or runs.
Informed(p) ==
  /\ stage[p] \in {"leave", "current", "ready"} => Upgraded(stable)
  /\ /\ stage[p] = "row"
     /\ has_transactional_ddl \/ (~interrupted /\ p \in Locked)
     => Upgraded(stable)

Knows(p) == Placed(p) /\ Upgrading(p) /\ Informed(p)

\* Outside an upgrade the database is whole if none was interrupted, and
\* always where DDL is transactional.
WholeBetween ==
  \/ has_transactional_ddl
  \/ ~interrupted /\ \A p \in Backends : stage[p] # "upgrade"
  => Whole(stable)

SchemaInv ==
  /\ Legal(stable) /\ WholeBetween /\ NoConflict
  /\ \A p \in Backends : Knows(p)

-----------------------------------------------------------------------------
(* The statements.                                                         *)

\* Each statement leads from what it finds to what the next one expects.
LEMMA StatementEffect ==
  ASSUME NEW db \in Schemas
  PROVE  /\ New(db) => Old(Execute(db, <<"create", "v1">>))
         /\ Dropped(db) => Restarted(Execute(db, <<"create", "v1">>))
         /\ Old(db) => WithLog(Execute(db, <<"create", "log">>))
         /\ WithLog(db) => WithVersion(Execute(db, <<"create", "version">>))
         /\ WithVersion(db) => Copied(Execute(db, <<"insert", "log">>))
         /\ Copied(db) => Dropped(Execute(db, <<"drop", "v1">>))
         /\ Dropped(db) => Created(Execute(db, <<"create", "v2">>))
         /\ Created(db) => Filled(Execute(db, <<"insert", "v2">>))
         /\ Filled(db) => Upgraded(Execute(db, <<"insert", "version">>))
<1> DEFINE fields(e) ==
      e = [tables |-> e.tables, applied |-> e.applied, logged |-> e.logged,
           versions |-> e.versions]
<1>1. fields(db) /\ \A S, T, U, V :
        S \subseteq Tables /\ T \subseteq Ids /\ U \subseteq Ids
          /\ V \subseteq {2}
        => [tables |-> S, applied |-> T, logged |-> U, versions |-> V]
             \in Schemas
  BY DEF Schemas
<1>2. /\ db.tables \subseteq Tables /\ db.applied \subseteq Ids
      /\ db.logged \subseteq Ids
  BY DEF Schemas
<1>3. \A table \in Tables :
        Execute(db, <<"create", table>>)
          = [db EXCEPT !.tables = @ \cup {table}]
  BY DEF Execute
<1>4. Execute(db, <<"drop", "v1">>)
        = [db EXCEPT !.tables = @ \ {"v1", "v2"}, !.applied = {}]
  BY DEF Execute, SameName
<1>5. Execute(db, <<"insert", "log">>)
        = [db EXCEPT !.logged = @ \cup db.applied]
  BY DEF Execute
<1>6. Execute(db, <<"insert", "v2">>)
        = [db EXCEPT !.applied = @ \cup db.logged]
  BY DEF Execute
<1>7. Execute(db, <<"insert", "version">>)
        = [db EXCEPT !.versions = @ \cup {2}]
  BY DEF Execute
<1>8. New(db) => Old(Execute(db, <<"create", "v1">>))
  BY <1>1, <1>2, <1>3 DEF New, Old, Looks, Tables
<1>9. Dropped(db) => Restarted(Execute(db, <<"create", "v1">>))
  BY <1>1, <1>2, <1>3 DEF Dropped, Restarted, Looks, Tables
<1>10. Old(db) => WithLog(Execute(db, <<"create", "log">>))
  BY <1>1, <1>2, <1>3 DEF Old, WithLog, Looks, Tables
<1>11. WithLog(db) => WithVersion(Execute(db, <<"create", "version">>))
  BY <1>1, <1>2, <1>3 DEF WithLog, WithVersion, Looks, Tables
<1>12. WithVersion(db) => Copied(Execute(db, <<"insert", "log">>))
  BY <1>1, <1>2, <1>5 DEF WithVersion, Copied, Looks, Tables
<1>13. Copied(db) => Dropped(Execute(db, <<"drop", "v1">>))
  <2>1. {"v1", "log", "version"} \ {"v1", "v2"} = {"log", "version"}
    OBVIOUS
  <2>2. Copied(db) =>
          Execute(db, <<"drop", "v1">>)
            = [tables |-> {"log", "version"}, applied |-> {},
               logged |-> recorded, versions |-> {}]
    BY <1>1, <1>4, <2>1 DEF Copied, Looks
  <2>3. Copied(db) => recorded \subseteq Ids
    BY <1>2 DEF Copied, Looks
  <2> QED
    BY <1>1, <2>2, <2>3 DEF Dropped, Looks, Tables
<1>14. Dropped(db) => Created(Execute(db, <<"create", "v2">>))
  BY <1>1, <1>2, <1>3 DEF Dropped, Created, Looks, Tables
<1>15. Created(db) => Filled(Execute(db, <<"insert", "v2">>))
  BY <1>1, <1>2, <1>6 DEF Created, Filled, Looks, Tables
<1>16. Filled(db) => Upgraded(Execute(db, <<"insert", "version">>))
  BY <1>1, <1>2, <1>7 DEF Filled, Upgraded, Looks, Tables
<1> QED
  BY <1>8, <1>9, <1>10, <1>11, <1>12, <1>13, <1>14, <1>15, <1>16

\* What the database refuses: a log that is there already.
LEMMA StatementRefused ==
  ASSUME NEW db \in Schemas
  PROVE  /\ WithLog(db) \/ Restarted(db)
              => Refuses(db, <<"create", "log">>)
         /\ New(db) => ~Refuses(db, <<"create", "v1">>)
         /\ Old(db) => ~Refuses(db, <<"create", "log">>)
         /\ WithLog(db) => ~Refuses(db, <<"create", "version">>)
         /\ WithVersion(db) => ~Refuses(db, <<"insert", "log">>)
         /\ Copied(db) => ~Refuses(db, <<"drop", "v1">>)
         /\ Dropped(db) => ~Refuses(db, <<"create", "v2">>)
         /\ Created(db) => ~Refuses(db, <<"insert", "v2">>)
         /\ Filled(db) => ~Refuses(db, <<"insert", "version">>)
<1>1. \A table \in Tables :
        Refuses(db, <<"create", table>>)
          = (db.tables \cap SameName(table) # {})
  BY DEF Refuses
<1>2. Refuses(db, <<"drop", "v1">>) = (db.tables \cap SameName("v1") = {})
  BY DEF Refuses
<1>3. Refuses(db, <<"insert", "log">>) = ~({"v1", "log"} \subseteq db.tables)
  BY DEF Refuses
<1>4. Refuses(db, <<"insert", "v2">>) = ~({"v2", "log"} \subseteq db.tables)
  BY DEF Refuses
<1>5. Refuses(db, <<"insert", "version">>)
        = ("version" \notin db.tables \/ 2 \in db.versions)
  BY DEF Refuses
<1>6. /\ WithLog(db) \/ Restarted(db) => Refuses(db, <<"create", "log">>)
      /\ New(db) => ~Refuses(db, <<"create", "v1">>)
      /\ Old(db) => ~Refuses(db, <<"create", "log">>)
      /\ WithLog(db) => ~Refuses(db, <<"create", "version">>)
      /\ Dropped(db) => ~Refuses(db, <<"create", "v2">>)
  BY <1>1 DEF SameName, Looks, WithLog, Restarted, New, Old, Dropped, Tables
<1> QED
  BY <1>2, <1>3, <1>4, <1>5, <1>6
  DEF SameName, Looks, WithVersion, Copied, Created, Filled

\* The plans of version 0 and of version 1 are no rest of a longer one.
IsRest(q) == q \in Seq(Statements) /\ q # Plan(0) /\ q # ToVersion2

LEMMA RestsDiffer ==
  /\ ToVersion2 # Plan(0) /\ ToVersion2 \in Seq(Statements)
  /\ IsRest(CreateVersion) /\ IsRest(CopyOld) /\ IsRest(DropOld)
  /\ IsRest(CreateNew) /\ IsRest(FillNew) /\ IsRest(MarkVersion)
  /\ IsRest(<<>>)
<1>1. \A q \in {CreateVersion, CopyOld, DropOld, CreateNew, FillNew,
                MarkVersion} :
        Head(q) # <<"create", "v1">> /\ Head(q) # <<"create", "log">>
  BY FirstAndRest
<1>2. \A q \in {CreateVersion, CopyOld, DropOld, CreateNew, FillNew,
                MarkVersion, <<>>} : q # Plan(0) /\ q # ToVersion2
  BY <1>1, FirstAndRest, FirstOfAll
<1>3. ToVersion2 # Plan(0)
  BY FirstAndRest, FirstOfAll
<1> QED
  BY <1>2, <1>3, PlanType DEF IsRest

\* A transaction that is ready stays so, statement by statement.
LEMMA StatementAdvances ==
  ASSUME NEW db \in Schemas, NEW q, q # <<>>, Ready(db, q),
         ~Refuses(db, Head(q)),
         NEW after, after = Execute(db, Head(q))
  PROVE  /\ after \in Schemas
         /\ Ready(after, Tail(q)) /\ Legal(after)
         /\ Head(q) # <<"insert", "version">> => after.versions = {}
         /\ Tail(q) # <<>> => Head(q) # <<"insert", "version">>
         /\ Undisturbed(db, q) => Undisturbed(after, Tail(q))
         /\ Tail(q) \in Seq(Statements)
<1> DEFINE Half(e) ==
      \/ Old(e) \/ Restarted(e) \/ WithLog(e) \/ WithVersion(e)
      \/ Copied(e) \/ Dropped(e) \/ Created(e) \/ Filled(e)
<1>1. \A e : Half(e) => e \in Schemas /\ e.versions = {} /\ Legal(e)
  BY DEF Looks, Old, Restarted, WithLog, WithVersion, Copied, Dropped, Created,
         Filled, Legal, Whole
<1>2. CASE q = Plan(0)
  <2>1. /\ Head(q) = <<"create", "v1">> /\ Tail(q) = ToVersion2
        /\ ToVersion2 # Plan(0)
    BY <1>2, FirstOfAll, RestsDiffer
  <2>2. New(db) \/ (Dropped(db) /\ ~New(db))
    <3>1. New(db) \/ Dropped(db)
      BY <1>2, FirstOfAll, RestsDiffer DEF Ready, IsRest
    <3>2. ~(New(db) /\ Dropped(db))
      BY DEF New, Dropped, Looks
    <3> QED
      BY <3>1, <3>2
  <2>3. (New(db) /\ Old(after)) \/ (~New(db) /\ Restarted(after))
    BY <2>1, <2>2, StatementEffect
  <2>4. Ready(after, Tail(q))
    BY <2>1, <2>3 DEF Ready
  <2>5. Undisturbed(db, q) => Undisturbed(after, Tail(q))
    BY <1>2, <2>1, <2>3 DEF Undisturbed
  <2>6. Head(q) # <<"insert", "version">>
    BY <2>1
  <2> QED
    BY <1>1, <2>1, <2>3, <2>4, <2>5, <2>6, RestsDiffer
<1>3. CASE q = ToVersion2
  <2>1. Head(q) = <<"create", "log">> /\ Tail(q) = CreateVersion
    BY <1>3, FirstAndRest
  <2>2. Old(db)
    BY <1>3, <2>1, RestsDiffer, StatementRefused
    DEF Ready, IsRest
  <2>3. WithLog(after)
    BY <2>1, <2>2, StatementEffect
  <2>4. Ready(after, Tail(q))
    BY <2>1, <2>3 DEF Ready
  <2>5. Head(q) # <<"insert", "version">>
    BY <2>1
  <2> QED
    BY <1>1, <2>1, <2>3, <2>4, <2>5, RestsDiffer DEF IsRest, Undisturbed
<1>4. CASE q = CreateVersion
  <2>1. Head(q) = <<"create", "version">> /\ Tail(q) = CopyOld
    BY <1>4, FirstAndRest
  <2>2. WithLog(db)
    BY <1>4, <2>1, FirstAndRest, RestsDiffer DEF Ready, IsRest
  <2>3. WithVersion(after)
    BY <2>1, <2>2, StatementEffect
  <2>4. Ready(after, Tail(q))
    BY <2>1, <2>3 DEF Ready
  <2>5. Head(q) # <<"insert", "version">>
    BY <2>1
  <2> QED
    BY <1>1, <2>1, <2>3, <2>4, <2>5, RestsDiffer DEF IsRest, Undisturbed
<1>5. CASE q = CopyOld
  <2>1. Head(q) = <<"insert", "log">> /\ Tail(q) = DropOld
    BY <1>5, FirstAndRest
  <2>2. WithVersion(db)
    BY <1>5, <2>1, FirstAndRest, RestsDiffer DEF Ready, IsRest
  <2>3. Copied(after)
    BY <2>1, <2>2, StatementEffect
  <2>4. Ready(after, Tail(q))
    BY <2>1, <2>3 DEF Ready
  <2>5. Head(q) # <<"insert", "version">>
    BY <2>1
  <2> QED
    BY <1>1, <2>1, <2>3, <2>4, <2>5, RestsDiffer DEF IsRest, Undisturbed
<1>6. CASE q = DropOld
  <2>1. Head(q) = <<"drop", "v1">> /\ Tail(q) = CreateNew
    BY <1>6, FirstAndRest
  <2>2. Copied(db)
    BY <1>6, <2>1, FirstAndRest, RestsDiffer DEF Ready, IsRest
  <2>3. Dropped(after)
    BY <2>1, <2>2, StatementEffect
  <2>4. Ready(after, Tail(q))
    BY <2>1, <2>3 DEF Ready
  <2>5. Head(q) # <<"insert", "version">>
    BY <2>1
  <2> QED
    BY <1>1, <2>1, <2>3, <2>4, <2>5, RestsDiffer DEF IsRest, Undisturbed
<1>7. CASE q = CreateNew
  <2>1. Head(q) = <<"create", "v2">> /\ Tail(q) = FillNew
    BY <1>7, FirstAndRest
  <2>2. Dropped(db)
    BY <1>7, <2>1, FirstAndRest, RestsDiffer DEF Ready, IsRest
  <2>3. Created(after)
    BY <2>1, <2>2, StatementEffect
  <2>4. Ready(after, Tail(q))
    BY <2>1, <2>3 DEF Ready
  <2>5. Head(q) # <<"insert", "version">>
    BY <2>1
  <2> QED
    BY <1>1, <2>1, <2>3, <2>4, <2>5, RestsDiffer DEF IsRest, Undisturbed
<1>8. CASE q = FillNew
  <2>1. Head(q) = <<"insert", "v2">> /\ Tail(q) = MarkVersion
    BY <1>8, FirstAndRest
  <2>2. Created(db)
    BY <1>8, <2>1, FirstAndRest, RestsDiffer DEF Ready, IsRest
  <2>3. Filled(after)
    BY <2>1, <2>2, StatementEffect
  <2>4. Ready(after, Tail(q))
    BY <2>1, <2>3 DEF Ready
  <2>5. Head(q) # <<"insert", "version">>
    BY <2>1
  <2> QED
    BY <1>1, <2>1, <2>3, <2>4, <2>5, RestsDiffer DEF IsRest, Undisturbed
<1>9. CASE q = MarkVersion
  <2>1. Head(q) = <<"insert", "version">> /\ Tail(q) = <<>>
    BY <1>9, FirstAndRest
  <2>2. Filled(db)
    BY <1>9, <2>1, FirstAndRest, RestsDiffer DEF Ready, IsRest
  <2>3. Upgraded(after)
    BY <2>1, <2>2, StatementEffect
  <2> QED
    BY <2>1, <2>3, RestsDiffer
    DEF IsRest, Ready, Undisturbed, Upgraded, Legal, Whole
<1> QED
  BY <1>2, <1>3, <1>4, <1>5, <1>6, <1>7, <1>8, <1>9 DEF Ready

\* An upgrade that began on a whole database is refused nothing.
LEMMA UndisturbedGoesOn ==
  ASSUME NEW db \in Schemas, NEW q, q # <<>>, Ready(db, q),
         Undisturbed(db, q)
  PROVE  ~Refuses(db, Head(q))
BY FirstAndRest, FirstOfAll, StatementRefused DEF Ready, Undisturbed

\* When nothing is left to do the database is upgraded.
LEMMA ReadyAtEnd == ASSUME NEW db, Ready(db, <<>>) PROVE Upgraded(db)
BY FirstAndRest, FirstOfAll DEF Ready

-----------------------------------------------------------------------------
(* The steps.                                                              *)

\* TypeOK and the facts about the lock that every step may use.
Setting == TypeOK /\ RowHeld /\ SchemaInv

\* A program that has a row is the only one, and so nobody else upgrades or
\* is a command with a lock.
LEMMA Alone ==
  ASSUME Setting, NEW p \in Backends, pc[p] = "holding",
         NEW q \in Backends, q # p
  PROVE  /\ pc[q] \notin {"holding", "borrowing", "deleting"}
         /\ stage[q] # "upgrade"
         /\ q \in Locked => stage[q] \notin {"row", "enter", "upgrade", "leave",
                                             "current", "ready"}
BY DEF Setting, RowHeld, SchemaInv, Knows, Placed

\* A step of one program leaves the others where they are.
OnlyMoves(p) ==
  \A q \in Backends : q # p =>
    /\ stage'[q] = stage[q] /\ pc'[q] = pc[q]
    /\ work'[q] = work[q] /\ todo'[q] = todo[q]

\* Those others go on knowing what they know when the database is the same,
\* or when they do not upgrade and its version is not taken back.
LEMMA OthersKnow ==
  ASSUME Setting, NEW p \in Backends, OnlyMoves(p),
         has_transactional_ddl' = has_transactional_ddl,
         interrupted => interrupted',
         \/ stable' = stable /\ recorded' = recorded
         \/ /\ \A q \in Backends : q # p => stage[q] # "upgrade"
            /\ Upgraded(stable) => Upgraded(stable)'
  PROVE  \A q \in Backends : q # p => Knows(q)'
<1> SUFFICES ASSUME NEW q \in Backends, q # p PROVE Knows(q)'
  OBVIOUS
<1>1. /\ stage'[q] = stage[q] /\ pc'[q] = pc[q]
      /\ work'[q] = work[q] /\ todo'[q] = todo[q]
  BY DEF OnlyMoves
<1>2. Knows(q)
  BY DEF Setting, SchemaInv
<1>3. Placed(q)'
  BY <1>1, <1>2 DEF Knows, Placed
<1>4. Upgraded(stable) => Upgraded(stable)'
  BY DEF Upgraded
<1>5. Informed(q)'
  BY <1>1, <1>2, <1>4 DEF Knows, Informed
<1>6. Upgrading(q)'
  <2>1. CASE stage[q] = "upgrade"
    <3>1. stable' = stable /\ recorded' = recorded
      BY <2>1
    <3>2. /\ Ready(work[q], todo[q])' = Ready(work'[q], todo'[q])
          /\ Undisturbed(work[q], todo[q])' = Undisturbed(work'[q], todo'[q])
      BY <3>1
      DEF Ready, Undisturbed, New, Old, WithLog, WithVersion, Copied, Dropped,
          Created, Filled, Restarted, Upgraded, Looks
    <3> QED
      BY <1>1, <1>2, <2>1, <3>1, <3>2 DEF Knows, Upgrading, Intact
  <2>2. CASE stage[q] # "upgrade"
    BY <1>1, <1>2, <2>2 DEF Knows, Upgrading
  <2> QED
    BY <2>1, <2>2
<1> QED
  BY <1>3, <1>5, <1>6 DEF Knows

\* A step that does not write: what is left to show is what the program itself
\* knows behind it.
LEMMA QuietStep ==
  ASSUME Setting, NEW p \in Backends, OnlyMoves(p), Knows(p)',
         UNCHANGED <<has_transactional_ddl, stable, recorded>>,
         interrupted => interrupted',
         stage[p] = "upgrade" => interrupted' \/ stage'[p] = "upgrade",
         NoConflict'
  PROVE  SchemaInv'
<1>1. \A q \in Backends : Knows(q)'
  BY OthersKnow
<1>2. Legal(stable)' /\ (Whole(stable)' = Whole(stable))
  BY DEF Setting, SchemaInv, Legal, Whole, New, Old, WithLog, WithVersion,
         Copied, Dropped, Created, Filled, Restarted, Upgraded, Looks
<1>3. WholeBetween'
  BY <1>2 DEF Setting, SchemaInv, WholeBetween, OnlyMoves
<1> QED
  BY <1>1, <1>2, <1>3 DEF SchemaInv

\* A reason that stays can only become better founded.
LEMMA SameReasons ==
  ASSUME Setting, reason' = reason, interrupted => interrupted',
         has_transactional_ddl' = has_transactional_ddl
  PROVE  NoConflict'
BY DEF Setting, SchemaInv, NoConflict

\* The lock moves the program that uses it, and nobody else.
LEMMA LockMoves ==
  ASSUME Setting, NEW p \in Backends, Lock!BackendStep(p)
  PROVE  \A q \in Backends : q # p => pc'[q] = pc[q]
BY DEF Setting, TypeOK, Lock!TypeOK, Lock!BackendStep, Lock!CallLock,
       Lock!Borrow, Lock!EnterNested, Lock!LeaveNested, Lock!Poll,
       Lock!InsertLockRow, Lock!PollAgain, Lock!LockTimeout, Lock!BodyReturns,
       Lock!BodyRaises, Lock!DeleteLockRow, Lock!DeleteFails, Lock!Crash,
       Lock!Goto

\* Who is in a body is there by its own row.
LEMMA BodyHolds ==
  ASSUME Setting, NEW p \in Backends
  PROVE  /\ Lock!InBody(p) => pc[p] = "holding"
         /\ p \in Locked /\ Runs(p) => pc[p] = "holding"
BY DEF Setting, RowHeld, Lock!InBody, Runs

-----------------------------------------------------------------------------
\* The steps that only use the lock.
LEMMA StartKeeps ==
  ASSUME Setting, NEW p \in Backends, Start(p)
  PROVE  SchemaInv'
<1>1. Lock!BackendStep(p)
  BY DEF Start, Lock!BackendStep
<1>2. /\ stage[p] = "list"
      /\ UNCHANGED schemaVars
  BY DEF Start
<1>3. OnlyMoves(p)
  BY <1>1, <1>2, LockMoves DEF OnlyMoves, schemaVars
<1>4. Knows(p)'
  BY <1>2 DEF Setting, SchemaInv, Knows, Placed, Upgrading, Informed, schemaVars
<1> QED
  BY <1>2, <1>3, <1>4, QuietStep, SameReasons DEF schemaVars

LEMMA WaitForLockKeeps ==
  ASSUME Setting, NEW p \in Backends, WaitForLock(p)
  PROVE  SchemaInv'
<1>1. Lock!BackendStep(p)
  BY DEF WaitForLock, Lock!BackendStep
<1>2. /\ pc[p] = "polling"
      /\ UNCHANGED schemaVars
  BY DEF WaitForLock, Lock!Poll, Lock!InsertLockRow, Lock!PollAgain,
         Lock!LockTimeout
<1>3. OnlyMoves(p)
  BY <1>1, <1>2, LockMoves DEF OnlyMoves, schemaVars
<1>4. Knows(p)
  BY DEF Setting, SchemaInv
<1>5. Placed(p)'
  BY <1>2, <1>4 DEF Knows, Placed, schemaVars
<1>6. Informed(p)'
  BY <1>2, <1>4 DEF Knows, Informed, Upgraded, schemaVars
<1>7. Upgrading(p)'
  BY <1>2, <1>4 DEF Knows, Placed, Upgrading, schemaVars
<1> QED
  BY <1>2, <1>3, <1>5, <1>6, <1>7, QuietStep, SameReasons DEF schemaVars, Knows

LEMMA ReleaseKeeps ==
  ASSUME Setting, NEW p \in Backends, Release(p)
  PROVE  SchemaInv'
<1>1. Lock!BackendStep(p)
  BY DEF Release, Lock!BackendStep
<1>2. /\ pc[p] = "deleting"
      /\ UNCHANGED schemaVars
  BY DEF Release, Lock!DeleteLockRow, Lock!DeleteFails
<1>3. OnlyMoves(p)
  BY <1>1, <1>2, LockMoves DEF OnlyMoves, schemaVars
<1>4. Knows(p)
  BY DEF Setting, SchemaInv
<1>5. Placed(p)'
  BY <1>2, <1>4 DEF Knows, Placed, schemaVars
<1>6. Informed(p)'
  BY <1>2, <1>4 DEF Knows, Informed, Upgraded, schemaVars
<1>7. Upgrading(p)'
  BY <1>2, <1>4 DEF Knows, Placed, Upgrading, schemaVars
<1> QED
  BY <1>2, <1>3, <1>5, <1>6, <1>7, QuietStep, SameReasons DEF schemaVars, Knows

LEMMA EnterLockKeeps ==
  ASSUME Setting, NEW p \in Backends, EnterLock(p)
  PROVE  SchemaInv'
<1>1. Lock!BackendStep(p)
  BY DEF EnterLock, Lock!BackendStep
<1>2. /\ stage[p] = "enter"
      /\ stage' = [stage EXCEPT ![p] = "list"]
      /\ UNCHANGED <<has_transactional_ddl, stable, work, todo, seen, reason,
                     recorded, interrupted>>
  BY DEF EnterLock, GoTo
<1>3. OnlyMoves(p) /\ stage'[p] = "list"
  BY <1>1, <1>2, LockMoves DEF OnlyMoves, Setting, TypeOK
<1>4. Knows(p)'
  BY <1>2, <1>3
  DEF Setting, SchemaInv, Knows, Placed, Upgrading, Informed
<1> QED
  BY <1>2, <1>3, <1>4, QuietStep, SameReasons

LEMMA LeaveLockKeeps ==
  ASSUME Setting, NEW p \in Backends, LeaveLock(p)
  PROVE  SchemaInv'
<1>1. Lock!BackendStep(p)
  BY DEF LeaveLock, Lock!BackendStep
<1>2. /\ stage[p] = "leave"
      /\ stage' = [stage EXCEPT ![p] = "current"]
      /\ p \in Locked => pc' = pc
      /\ UNCHANGED <<has_transactional_ddl, stable, work, todo, seen, reason,
                     recorded, interrupted>>
  BY DEF LeaveLock, GoTo, Lock!LeaveNested
<1>3. OnlyMoves(p) /\ stage'[p] = "current"
  BY <1>1, <1>2, LockMoves DEF OnlyMoves, Setting, TypeOK
<1>4. Knows(p)
  BY DEF Setting, SchemaInv
<1>5. Placed(p)' /\ Upgrading(p)'
  BY <1>2, <1>3, <1>4 DEF Knows, Placed, Upgrading
<1>6. Informed(p)'
  BY <1>2, <1>3, <1>4 DEF Knows, Informed, Upgraded
<1> QED
  BY <1>2, <1>3, <1>5, <1>6, QuietStep, SameReasons DEF Knows

LEMMA FinishKeeps ==
  ASSUME Setting, NEW p \in Backends, Finish(p)
  PROVE  SchemaInv'
<1>1. Lock!BackendStep(p) \/ UNCHANGED lockVars
  BY DEF Finish, Lock!BackendStep
<1>2. /\ stage[p] = "ready"
      /\ stage' = [stage EXCEPT ![p] = "done"]
      /\ UNCHANGED <<has_transactional_ddl, stable, work, todo, reason,
                     recorded, interrupted>>
  BY DEF Finish, GoTo
<1>3. OnlyMoves(p) /\ stage'[p] = "done"
  BY <1>1, <1>2, LockMoves DEF OnlyMoves, Setting, TypeOK, lockVars
<1>4. Knows(p)'
  BY <1>2, <1>3
  DEF Setting, SchemaInv, Knows, Placed, Upgrading, Informed
<1> QED
  BY <1>2, <1>3, <1>4, QuietStep, SameReasons

LEMMA UnwindKeeps ==
  ASSUME Setting, NEW p \in Backends, Unwind(p)
  PROVE  SchemaInv'
<1>1. Lock!BackendStep(p) \/ UNCHANGED lockVars
  BY DEF Unwind, Lock!BackendStep
<1>2. /\ stage[p] = "raised"
      /\ stage' = stage \/ stage' = [stage EXCEPT ![p] = "done"]
      /\ UNCHANGED <<has_transactional_ddl, stable, work, todo, seen, reason,
                     recorded, interrupted>>
  BY DEF Unwind, GoTo
<1>3. OnlyMoves(p) /\ stage'[p] \in {"raised", "done"}
  BY <1>1, <1>2, LockMoves DEF OnlyMoves, Setting, TypeOK, lockVars
<1>4. Knows(p)'
  BY <1>2, <1>3
  DEF Setting, SchemaInv, Knows, Placed, Upgrading, Informed
<1> QED
  BY <1>2, <1>3, <1>4, QuietStep, SameReasons

LEMMA DieKeeps ==
  ASSUME Setting, NEW p \in Backends, Die(p)
  PROVE  SchemaInv'
<1>1. Lock!BackendStep(p)
  BY DEF Die, Lock!BackendStep
<1>2. /\ stage' = [stage EXCEPT ![p] = "done"]
      /\ work' = [work EXCEPT ![p] = NoWork]
      /\ todo' = [todo EXCEPT ![p] = <<>>]
      /\ interrupted' = (interrupted \/ work[p] # NoWork)
      /\ UNCHANGED <<has_transactional_ddl, stable, reason, recorded>>
  BY DEF Die, GoTo, Stop
<1>3. /\ OnlyMoves(p)
      /\ stage'[p] = "done" /\ work'[p] = NoWork /\ todo'[p] = <<>>
  BY <1>1, <1>2, LockMoves DEF OnlyMoves, Setting, TypeOK
<1>4. Knows(p)'
  BY <1>3 DEF Knows, Placed, Upgrading, Informed
<1>5. stage[p] = "upgrade" => interrupted'
  BY <1>2, NoWorkAssumption DEF Setting, SchemaInv, Knows, Upgrading
<1> QED
  BY <1>2, <1>3, <1>4, <1>5, QuietStep, SameReasons

-----------------------------------------------------------------------------
\* The queries.  get_current_version answers from what is in the database: the
\* version of an empty one, of one without a version table, or of its row.
LEMMA AnswerKnown ==
  ASSUME Setting, NEW p \in Backends, NEW version \in 0..2,
         Knows(p), stage[p] \in {"list", "row"},
         Answer(p, version),
         p \in Locked => pc[p] = "holding",
         Legal(stable),
         version = 0 => New(stable) \/ Dropped(stable),
         version = 1 => Old(stable) \/ WithLog(stable),
         version = 2 => Upgraded(stable),
         UNCHANGED <<lockVars, has_transactional_ddl, stable, seen, reason,
                     recorded, interrupted>>
  PROVE  SchemaInv'
<1>1. stage[p] # "upgrade" /\ work[p] = NoWork /\ todo[p] = <<>>
  BY DEF Knows, Upgrading
<1>2. CASE InUpgradeLock(p)
  <2>1. /\ stage' = [stage EXCEPT ![p] = "upgrade"]
        /\ todo' = [todo EXCEPT ![p] = Plan(version)]
        /\ work' = [work EXCEPT ![p] = stable]
    BY <1>2 DEF Answer, GoTo
  <2>2. /\ OnlyMoves(p)
        /\ stage'[p] = "upgrade" /\ todo'[p] = Plan(version)
        /\ work'[p] = stable
    BY <2>1 DEF OnlyMoves, Setting, TypeOK, lockVars
  <2>3. pc[p] = "holding"
    BY <1>2 DEF InUpgradeLock
  <2>4. Ready(stable, Plan(version))
    BY FirstOfAll DEF Ready
  <2>5. version # 2 => stable.versions = {}
    BY DEF New, Old, WithLog, Dropped, Looks
  <2>6. Intact => Undisturbed(stable, Plan(version))
    <3>1. SUFFICES ASSUME Intact PROVE Undisturbed(stable, Plan(version))
      OBVIOUS
    <3>2. \A q \in Backends : stage[q] # "upgrade"
      BY <1>1, <2>3, Alone
    <3>3. Whole(stable)
      BY <3>1, <3>2 DEF Setting, SchemaInv, WholeBetween, Intact
    <3>4. version = 0 => New(stable)
      BY <3>3 DEF Whole, New, Old, Upgraded, Dropped, Looks
    <3>5. version = 1 => Old(stable)
      BY <3>3 DEF Whole, New, Old, Upgraded, WithLog, Looks
    <3> QED
      BY <3>4, <3>5, FirstOfAll, RestsDiffer DEF Undisturbed, IsRest
  <2>7. /\ Ready(stable, Plan(version))' = Ready(stable, Plan(version))
        /\ Undisturbed(stable, Plan(version))'
             = Undisturbed(stable, Plan(version))
    BY DEF Ready, Undisturbed, New, Old, WithLog, WithVersion, Copied, Dropped,
           Created, Filled, Restarted, Upgraded, Looks
  <2>8. Plan(version) # <<>> => version # 2
    BY FirstOfAll
  <2>9. Upgrading(p)'
    <3>1. stable' \in Schemas
      BY DEF Setting, TypeOK
    <3>2. /\ Ready(work[p], todo[p])' = Ready(stable, Plan(version))'
          /\ Undisturbed(work[p], todo[p])'
               = Undisturbed(stable, Plan(version))'
      BY <2>2
    <3> QED
      BY <2>2, <2>4, <2>5, <2>6, <2>7, <2>8, <3>1, <3>2 DEF Upgrading, Intact
  <2>10. Placed(p)' /\ Informed(p)'
    BY <2>2, <2>3 DEF Placed, Informed, lockVars
  <2> QED
    BY <2>2, <2>9, <2>10, QuietStep, SameReasons, <1>1 DEF Knows
<1>3. CASE ~InUpgradeLock(p)
  <2>1. /\ stage' = [stage EXCEPT
                       ![p] = IF version < 2 THEN "enter" ELSE "current"]
        /\ UNCHANGED <<todo, work>>
    BY <1>3 DEF Answer, GoTo, CurrentVersion
  <2>2. /\ OnlyMoves(p)
        /\ stage'[p] = IF version < 2 THEN "enter" ELSE "current"
    BY <2>1 DEF OnlyMoves, Setting, TypeOK, lockVars
  <2>3. Placed(p)' /\ Upgrading(p)'
    BY <1>1, <2>1, <2>2 DEF Placed, Upgrading, lockVars
  <2>4. Informed(p)'
    BY <2>2 DEF Informed, Upgraded
  <2> QED
    BY <2>2, <2>3, <2>4, QuietStep, SameReasons, <1>1 DEF Knows
<1> QED
  BY <1>2, <1>3

\* What the tables tell of the database.
LEMMA TablesTell ==
  ASSUME Legal(stable)
  PROVE  /\ {"v1", "v2"} \cap stable.tables = {}
              => New(stable) \/ Dropped(stable)
         /\ {"v1", "v2"} \cap stable.tables # {}
              /\ "version" \notin stable.tables
              => Old(stable) \/ WithLog(stable)
         /\ Whole(stable) /\ "version" \in stable.tables => Upgraded(stable)
         /\ 2 \in stable.versions => Upgraded(stable)
BY DEF Legal, Whole, New, Old, WithLog, WithVersion, Copied, Dropped, Created,
       Filled, Restarted, Upgraded, Looks

LEMMA ListTablesKeeps ==
  ASSUME Setting, NEW p \in Backends, ListTables(p)
  PROVE  SchemaInv'
<1>1. /\ stage[p] = "list" /\ Runs(p)
      /\ UNCHANGED <<lockVars, has_transactional_ddl, stable, seen, reason,
                     recorded, interrupted>>
  BY DEF ListTables
<1>2. Knows(p) /\ Legal(stable)
  BY DEF Setting, SchemaInv
<1>3. p \in Locked => pc[p] = "holding"
  BY <1>1, BodyHolds
<1>4. CASE {"v1", "v2"} \cap stable.tables = {} /\ Answer(p, 0)
  BY <1>1, <1>2, <1>3, <1>4, TablesTell, AnswerKnown
<1>5. CASE {"v1", "v2"} \cap stable.tables # {}
           /\ "version" \notin stable.tables /\ Answer(p, 1)
  BY <1>1, <1>2, <1>3, <1>5, TablesTell, AnswerKnown
<1>6. CASE /\ "version" \in stable.tables
           /\ GoTo(p, "row")
           /\ UNCHANGED <<todo, work>>
  <2>1. OnlyMoves(p) /\ stage'[p] = "row"
    BY <1>1, <1>6 DEF GoTo, OnlyMoves, Setting, TypeOK, lockVars
  <2>2. Placed(p)' /\ Upgrading(p)'
    BY <1>1, <1>2, <1>3, <1>6, <2>1
    DEF Placed, Upgrading, Knows, lockVars
  <2>3. has_transactional_ddl \/ (~interrupted /\ p \in Locked)
          => Upgraded(stable)
    <3>1. p \in Locked => \A q \in Backends : stage[q] # "upgrade"
      BY <1>1, <1>3, Alone
    <3> QED
      BY <1>2, <1>6, <3>1, TablesTell DEF Setting, SchemaInv, WholeBetween
  <2>4. Informed(p)'
    BY <1>1, <2>1, <2>3 DEF Informed, Upgraded
  <2> QED
    BY <1>1, <2>1, <2>2, <2>4, QuietStep, SameReasons DEF Knows
<1> QED
  BY <1>4, <1>5, <1>6 DEF ListTables

LEMMA ReadVersionKeeps ==
  ASSUME Setting, NEW p \in Backends, ReadVersion(p)
  PROVE  SchemaInv'
<1>1. /\ stage[p] = "row" /\ 2 \in stable.versions /\ Answer(p, 2)
      /\ UNCHANGED <<lockVars, has_transactional_ddl, stable, seen, reason,
                     recorded, interrupted>>
  BY DEF ReadVersion
<1>2. Knows(p) /\ Legal(stable)
  BY DEF Setting, SchemaInv
<1>3. p \in Locked => pc[p] = "holding"
  BY <1>1, <1>2 DEF Knows, Placed
<1> QED
  BY <1>1, <1>2, <1>3, TablesTell, AnswerKnown

LEMMA ReadAppliedKeeps ==
  ASSUME Setting, NEW p \in Backends, ReadApplied(p)
  PROVE  SchemaInv'
<1>1. /\ stage[p] = "current"
      /\ stage' = [stage EXCEPT ![p] = "ready"]
      /\ UNCHANGED <<lockVars, has_transactional_ddl, stable, work, todo,
                     reason, recorded, interrupted>>
  BY DEF ReadApplied, GoTo
<1>2. Knows(p)
  BY DEF Setting, SchemaInv
<1>3. OnlyMoves(p) /\ stage'[p] = "ready"
  BY <1>1 DEF OnlyMoves, Setting, TypeOK, lockVars
<1>4. Placed(p)' /\ Upgrading(p)'
  BY <1>1, <1>2, <1>3 DEF Knows, Placed, Upgrading, lockVars
<1>5. Informed(p)'
  BY <1>1, <1>2, <1>3 DEF Knows, Informed, Upgraded
<1> QED
  BY <1>1, <1>3, <1>4, <1>5, QuietStep, SameReasons DEF Knows

-----------------------------------------------------------------------------
\* The statements of an upgrade, of which the DDL may commit.
LEMMA StatementKeeps ==
  ASSUME Setting, NEW p \in Backends, Statement(p)
  PROVE  SchemaInv'
<1> DEFINE first == Head(todo[p])
           after == Execute(work[p], first)
<1>1. /\ stage[p] = "upgrade" /\ todo[p] # <<>>
      /\ ~Refuses(work[p], first)
      /\ work' = [work EXCEPT ![p] = after]
      /\ stable' = IF CommitsImplicitly(first) THEN work'[p] ELSE stable
      /\ todo' = [todo EXCEPT ![p] = Tail(todo[p])]
      /\ UNCHANGED <<lockVars, has_transactional_ddl, stage, seen, reason,
                     recorded, interrupted>>
  BY DEF Statement
<1>2. Knows(p)
  BY DEF Setting, SchemaInv
<1>3. /\ work[p] \in Schemas /\ Ready(work[p], todo[p])
      /\ stable.versions = {} /\ pc[p] = "holding"
      /\ Intact => Undisturbed(work[p], todo[p])
  BY <1>1, <1>2 DEF Knows, Upgrading, Placed
<1>4. /\ OnlyMoves(p)
      /\ work'[p] = after /\ todo'[p] = Tail(todo[p]) /\ stage'[p] = "upgrade"
  BY <1>1 DEF OnlyMoves, Setting, TypeOK, lockVars
<1>5. /\ after \in Schemas
      /\ Ready(after, Tail(todo[p])) /\ Legal(after)
      /\ first # <<"insert", "version">> => after.versions = {}
      /\ Tail(todo[p]) # <<>> => first # <<"insert", "version">>
      /\ Undisturbed(work[p], todo[p]) => Undisturbed(after, Tail(todo[p]))
  BY <1>1, <1>3, StatementAdvances
<1>6. CommitsImplicitly(first) =>
        ~has_transactional_ddl /\ first # <<"insert", "version">>
  BY DEF CommitsImplicitly
<1> HIDE DEF after, first
<1>7. stable' = after \/ stable' = stable
  BY <1>1, <1>4
<1>8. stable'.versions = {} \/ todo'[p] = <<>>
  BY <1>1, <1>3, <1>4, <1>5, <1>6
<1>9. Upgrading(p)'
  <2>1. /\ Ready(work[p], todo[p])' = Ready(after, Tail(todo[p]))
        /\ Undisturbed(work[p], todo[p])' = Undisturbed(after, Tail(todo[p]))
    BY <1>1, <1>4
    DEF Ready, Undisturbed, New, Old, WithLog, WithVersion, Copied, Dropped,
        Created, Filled, Restarted, Upgraded, Looks
  <2> QED
    BY <1>1, <1>3, <1>4, <1>5, <1>8, <2>1 DEF Upgrading, Intact
<1>10. Placed(p)' /\ Informed(p)'
  BY <1>1, <1>3, <1>4 DEF Placed, Informed, lockVars
<1>11. \A q \in Backends : q # p => Knows(q)'
  <2>1. ~Upgraded(stable)
    BY <1>3 DEF Upgraded
  <2>2. \A q \in Backends : q # p => stage[q] # "upgrade"
    BY <1>3, Alone
  <2> QED
    BY <1>1, <1>4, <2>1, <2>2, OthersKnow
<1>12. Legal(stable)' /\ WholeBetween'
  <2>2. Legal(stable)'
    <3>1. CASE stable' = after
      BY <1>1, <1>5, <3>1
      DEF Legal, Whole, New, Old, WithLog, WithVersion, Copied, Dropped,
          Created, Filled, Restarted, Upgraded, Looks
    <3>2. CASE stable' = stable
      BY <1>1, <3>2
      DEF Setting, SchemaInv, Legal, Whole, New, Old, WithLog, WithVersion,
          Copied, Dropped, Created, Filled, Restarted, Upgraded, Looks
    <3> QED
      BY <1>7, <3>1, <3>2
  <2>3. has_transactional_ddl => stable' = stable
    BY <1>1, <1>6
  <2>4. WholeBetween'
    BY <1>1, <1>4, <2>3
    DEF Setting, SchemaInv, WholeBetween, Whole, New, Old, Upgraded, Looks
  <2> QED
    BY <2>2, <2>4
<1> QED
  BY <1>1, <1>9, <1>10, <1>11, <1>12, SameReasons DEF SchemaInv, Knows

LEMMA CommitUpgradeKeeps ==
  ASSUME Setting, NEW p \in Backends, CommitUpgrade(p)
  PROVE  SchemaInv'
<1>1. /\ stage[p] = "upgrade" /\ todo[p] = <<>>
      /\ stable' = work[p]
      /\ work' = [work EXCEPT ![p] = NoWork]
      /\ stage' = [stage EXCEPT ![p] = "leave"]
      /\ UNCHANGED <<lockVars, has_transactional_ddl, todo, seen, reason,
                     recorded, interrupted>>
  BY DEF CommitUpgrade, GoTo
<1>2. Knows(p)
  BY DEF Setting, SchemaInv
<1>3. Upgraded(work[p]) /\ pc[p] = "holding"
  BY <1>1, <1>2, ReadyAtEnd DEF Knows, Upgrading, Placed
<1>4. Upgraded(stable)'
  BY <1>1, <1>3 DEF Upgraded
<1>5. /\ OnlyMoves(p)
      /\ work'[p] = NoWork /\ todo'[p] = <<>> /\ stage'[p] = "leave"
  BY <1>1 DEF OnlyMoves, Setting, TypeOK, lockVars
<1>6. Knows(p)'
  BY <1>1, <1>3, <1>4, <1>5 DEF Knows, Placed, Upgrading, Informed, lockVars
<1>7. \A q \in Backends : q # p => Knows(q)'
  BY <1>1, <1>3, <1>4, <1>5, Alone, OthersKnow
<1>8. Legal(stable)' /\ WholeBetween'
  BY <1>4 DEF Legal, Whole, WholeBetween
<1> QED
  BY <1>1, <1>6, <1>7, <1>8, SameReasons DEF SchemaInv

\* A command that applies migrations is past the upgrade, and alone.
LEMMA RecordKeeps ==
  ASSUME Setting, NEW p \in Backends, Record(p)
  PROVE  SchemaInv'
<1>1. PICK m \in Ids :
        /\ stable' = [stable EXCEPT !.applied = @ \cup {m},
                                    !.logged = @ \cup {m}]
        /\ recorded' = recorded \cup {m}
  BY DEF Record
<1>2. /\ stage[p] = "ready" /\ p \in Locked
      /\ UNCHANGED <<lockVars, has_transactional_ddl, work, stage, todo, reason,
                     interrupted>>
  BY DEF Record
<1>3. Knows(p)
  BY DEF Setting, SchemaInv
<1>4. Upgraded(stable) /\ pc[p] = "holding"
  BY <1>2, <1>3 DEF Knows, Placed, Informed
<1>5. Upgraded(stable)'
  BY <1>1, <1>4 DEF Upgraded, Schemas
<1>6. OnlyMoves(p)
  BY <1>2 DEF OnlyMoves, lockVars
<1>7. Knows(p)'
  BY <1>2, <1>3, <1>5 DEF Knows, Placed, Upgrading, Informed, lockVars
<1>8. \A q \in Backends : q # p => Knows(q)'
  BY <1>2, <1>4, <1>5, <1>6, Alone, OthersKnow
<1>9. Legal(stable)' /\ WholeBetween'
  BY <1>5 DEF Legal, Whole, WholeBetween
<1> QED
  BY <1>2, <1>7, <1>8, <1>9, SameReasons DEF SchemaInv

\* An error: what a program trips over has been left by an upgrade that was
\* interrupted, or belongs to one that runs beside a program without a lock.
LEMMA RaiseKeeps ==
  ASSUME Setting, NEW p \in Backends, Raise(p)
  PROVE  SchemaInv'
<1>1. /\ stage' = [stage EXCEPT ![p] = "raised"]
      /\ work' = [work EXCEPT ![p] = NoWork]
      /\ todo' = [todo EXCEPT ![p] = <<>>]
      /\ interrupted' = (interrupted \/ work[p] # NoWork)
      /\ UNCHANGED <<lockVars, has_transactional_ddl, stable, recorded>>
  BY DEF Raise, GoTo, Stop
<1>2. Knows(p) /\ Legal(stable)
  BY DEF Setting, SchemaInv
<1>3. /\ OnlyMoves(p)
      /\ stage'[p] = "raised" /\ work'[p] = NoWork /\ todo'[p] = <<>>
  BY <1>1 DEF OnlyMoves, Setting, TypeOK, lockVars
<1>4. Knows(p)'
  BY <1>3 DEF Knows, Placed, Upgrading, Informed
<1>5. stage[p] = "upgrade" => interrupted'
  BY <1>1, <1>2, NoWorkAssumption DEF Knows, Upgrading
<1>6. CASE reason' = reason
  BY <1>1, <1>3, <1>4, <1>5, <1>6, QuietStep, SameReasons
<1>7. CASE \E why \in {"assertion", "conflict"} :
             Contradicts(p, why) /\ reason' = [reason EXCEPT ![p] = why]
  <2>1. PICK why \in {"assertion", "conflict"} :
          Contradicts(p, why) /\ reason' = [reason EXCEPT ![p] = why]
    BY <1>7
  <2>2. ~Upgraded(stable) \/ stage[p] = "upgrade"
    BY <2>1 DEF Contradicts, Upgraded
  <2>3. stage[p] \in {"row", "upgrade", "current"}
    BY <2>1 DEF Contradicts
  <2>4. ~has_transactional_ddl /\ (interrupted \/ p \notin Locked)
    <3>1. stage[p] = "row" \/ stage[p] = "current"
            => ~has_transactional_ddl /\ (interrupted \/ p \notin Locked)
      BY <1>2, <2>2 DEF Knows, Informed
    <3>2. stage[p] = "upgrade" => ~Intact
      <4>1. SUFFICES ASSUME stage[p] = "upgrade" PROVE ~Intact
        OBVIOUS
      <4>2. todo[p] # <<>> /\ Refuses(work[p], Head(todo[p]))
        BY <2>1, <4>1 DEF Contradicts
      <4> QED
        BY <1>2, <4>1, <4>2, UndisturbedGoesOn DEF Knows, Upgrading
    <3> QED
      BY <2>3, <3>1, <3>2 DEF Intact
  <2>5. NoConflict'
    BY <1>1, <2>1, <2>4 DEF Setting, TypeOK, SchemaInv, NoConflict
  <2> QED
    BY <1>1, <1>3, <1>4, <1>5, <2>5, QuietStep
<1> QED
  BY <1>6, <1>7 DEF Raise

LEMMA BreakLockKeeps ==
  ASSUME Setting, BreakLock
  PROVE  SchemaInv'
<1>1. UNCHANGED <<schemaVars, pc>>
  BY DEF BreakLock, Lock!BreakLock
<1> QED
  BY <1>1
  DEF Setting, SchemaInv, schemaVars, WholeBetween, NoConflict, Knows, Placed,
      Upgrading, Informed, Intact, Ready, Undisturbed, Legal, Whole, New, Old,
      WithLog, WithVersion, Copied, Dropped, Created, Filled, Restarted,
      Upgraded, Looks

LEMMA StutterKeeps ==
  ASSUME Setting, UNCHANGED vars
  PROVE  SchemaInv'
<1>1. UNCHANGED <<schemaVars, pc>>
  BY DEF vars, lockVars
<1> QED
  BY <1>1
  DEF Setting, SchemaInv, schemaVars, WholeBetween, NoConflict, Knows, Placed,
      Upgrading, Informed, Intact, Ready, Undisturbed, Legal, Whole, New, Old,
      WithLog, WithVersion, Copied, Dropped, Created, Filled, Restarted,
      Upgraded, Looks

LEMMA StepInv == Setting /\ [Next]_vars => SchemaInv'
<1> SUFFICES ASSUME Setting, [Next]_vars PROVE SchemaInv'
  OBVIOUS
<1>1. CASE \E p \in Backends : Start(p) \/ Work(p) \/ Record(p) \/ Die(p)
  <2> PICK p \in Backends : Start(p) \/ Work(p) \/ Record(p) \/ Die(p)
    BY <1>1
  <2>1. CASE Start(p) \/ Record(p) \/ Die(p)
    BY <2>1, StartKeeps, RecordKeeps, DieKeeps
  <2>2. CASE Work(p)
    BY <2>2, WaitForLockKeeps, ListTablesKeeps, ReadVersionKeeps,
       EnterLockKeeps, StatementKeeps, CommitUpgradeKeeps, LeaveLockKeeps,
       ReadAppliedKeeps, FinishKeeps, ReleaseKeeps, RaiseKeeps, UnwindKeeps
    DEF Work
  <2> QED
    BY <2>1, <2>2
<1>2. CASE BreakLock
  BY <1>2, BreakLockKeeps
<1>3. CASE UNCHANGED vars
  BY <1>3, StutterKeeps
<1> QED
  BY <1>1, <1>2, <1>3 DEF Next

-----------------------------------------------------------------------------
\* The types of what is not the lock's.
LEMMA StepType == Setting /\ Lock!TypeOK' /\ [Next]_vars => TypeOK'
<1> SUFFICES ASSUME Setting, Lock!TypeOK', [Next]_vars PROVE TypeOK'
  OBVIOUS
<1> USE DEF Setting, TypeOK, GoTo
<1>1. CASE \E p \in Backends : Start(p) \/ Work(p) \/ Record(p) \/ Die(p)
  <2> PICK p \in Backends : Start(p) \/ Work(p) \/ Record(p) \/ Die(p)
    BY <1>1
  <2>1. CASE Start(p) \/ WaitForLock(p) \/ Release(p)
    BY <2>1 DEF Start, WaitForLock, Release, schemaVars
  <2>2. CASE EnterLock(p) \/ LeaveLock(p) \/ Unwind(p)
    BY <2>2 DEF EnterLock, LeaveLock, Unwind
  <2>3. CASE Finish(p)
    BY <2>3 DEF Finish
  <2>4. \A version \in 0..2 :
          /\ Answer(p, version) /\ todo[p] = <<>>
          /\ UNCHANGED <<has_transactional_ddl, stable, seen, reason, recorded,
                         interrupted>>
          => TypeOK'
    <3>1. \A version \in 0..2 : Plan(version) \in Seq(Statements)
      <4>1. /\ Plan(0) \in Seq(Statements) /\ Plan(1) \in Seq(Statements)
            /\ Plan(2) \in Seq(Statements)
        BY FirstOfAll, RestsDiffer, PlanType DEF IsRest
      <4> QED
        BY <4>1
    <3> SUFFICES ASSUME NEW version \in 0..2, Answer(p, version),
                        todo[p] = <<>>,
                        UNCHANGED <<has_transactional_ddl, stable, seen, reason,
                                    recorded, interrupted>>
                 PROVE  TypeOK'
      OBVIOUS
    <3>2. CASE InUpgradeLock(p)
      <4>1. /\ stage' = [stage EXCEPT ![p] = "upgrade"]
            /\ todo' = [todo EXCEPT ![p] = Plan(version)]
            /\ work' = [work EXCEPT ![p] = stable]
        BY <3>2 DEF Answer
      <4> QED
        BY <3>1, <4>1
    <3>3. CASE ~InUpgradeLock(p)
      <4>1. /\ stage' = [stage EXCEPT
                           ![p] = IF version < 2 THEN "enter" ELSE "current"]
            /\ todo' = todo /\ work' = work
        BY <3>3 DEF Answer, CurrentVersion
      <4> QED
        BY <4>1
    <3> QED
      BY <3>2, <3>3
  <2>5. CASE ListTables(p)
    <3>1. CASE GoTo(p, "row") /\ UNCHANGED <<todo, work>> /\ todo[p] = <<>>
      BY <2>5, <3>1 DEF ListTables
    <3>2. todo[p] = <<>>
      BY <2>5 DEF ListTables
    <3>3. UNCHANGED <<has_transactional_ddl, stable, seen, reason, recorded,
                      interrupted>>
      BY <2>5 DEF ListTables
    <3>4. CASE Answer(p, 0) \/ Answer(p, 1)
      BY <2>4, <3>2, <3>3, <3>4
    <3> QED
      BY <2>5, <3>1, <3>2, <3>4 DEF ListTables
  <2>6. CASE ReadVersion(p)
    <3>1. todo[p] = <<>>
      BY <2>6 DEF ReadVersion
    <3> QED
      BY <2>4, <2>6, <3>1 DEF ReadVersion
  <2>7. CASE Statement(p)
    <3>1. Knows(p)
      BY DEF SchemaInv
    <3>2. /\ stage[p] = "upgrade" /\ todo[p] # <<>>
          /\ ~Refuses(work[p], Head(todo[p]))
      BY <2>7 DEF Statement
    <3>3. /\ Execute(work[p], Head(todo[p])) \in Schemas
          /\ Tail(todo[p]) \in Seq(Statements)
      BY <3>1, <3>2, StatementAdvances DEF Knows, Upgrading
    <3> QED
      BY <2>7, <3>2, <3>3 DEF Statement
  <2>8. CASE CommitUpgrade(p)
    <3>1. work[p] \in Schemas
      BY <2>8 DEF SchemaInv, Knows, Upgrading, CommitUpgrade
    <3> QED
      BY <2>8, <3>1 DEF CommitUpgrade
  <2>9. CASE ReadApplied(p)
    <3>1. stable.applied \subseteq Ids /\ todo[p] = <<>>
      BY <2>9 DEF ReadApplied, Schemas
    <3> QED
      BY <2>9, <3>1 DEF ReadApplied
  <2>10. CASE Record(p)
    <3>1. PICK m \in Ids :
            /\ stable' = [stable EXCEPT !.applied = @ \cup {m},
                                        !.logged = @ \cup {m}]
            /\ seen' = [seen EXCEPT ![p] = @ \cup {m}]
            /\ recorded' = recorded \cup {m}
      BY <2>10 DEF Record
    <3>2. stable' \in Schemas
      BY <3>1 DEF Schemas
    <3> QED
      BY <2>10, <3>1, <3>2 DEF Record
  <2>11. CASE Raise(p)
    <3>1. reason' \in [Backends -> {"none", "conflict", "assertion"}]
      BY <2>11 DEF Raise
    <3>2. /\ Stop(p) /\ stage' = [stage EXCEPT ![p] = "raised"]
          /\ UNCHANGED <<has_transactional_ddl, stable, recorded>>
      BY <2>11 DEF Raise
    <3> QED
      BY <3>1, <3>2 DEF Stop
  <2>12. CASE Die(p)
    BY <2>12 DEF Die, Stop
  <2> QED
    BY <2>1, <2>2, <2>3, <2>5, <2>6, <2>7, <2>8, <2>9, <2>10, <2>11, <2>12
    DEF Work
<1>2. CASE BreakLock
  BY <1>2 DEF BreakLock, schemaVars
<1>3. CASE UNCHANGED vars
  BY <1>3 DEF vars, schemaVars
<1> QED
  BY <1>1, <1>2, <1>3 DEF Next

LEMMA InitInv == Init => TypeOK /\ SchemaInv
<1> SUFFICES ASSUME Init PROVE TypeOK /\ SchemaInv
  OBVIOUS
<1>1. Lock!TypeOK
  BY SchemaAssumption DEF Init, Lock!Init, Lock!TypeOK, Lock!PCs
<1>2. PICK version \in 0..2, rows \in SUBSET Ids :
        stable \in AtVersion(version, rows) /\ recorded = rows
  BY DEF Init, CurrentVersion
<1>3. stable \in Schemas
      /\ \/ /\ stable.tables = {} /\ stable.logged = {}
            /\ stable.applied = {} /\ recorded = {} /\ stable.versions = {}
         \/ /\ stable.tables = {"v1"} /\ stable.logged = {}
            /\ stable.applied = recorded /\ stable.versions = {}
         \/ /\ stable.tables = {"v2", "log", "version"}
            /\ stable.applied = recorded /\ stable.versions = {2}
  <2>1. CASE version = 0
    BY <1>2, <2>1 DEF AtVersion
  <2>2. CASE version = 1
    BY <1>2, <2>2 DEF AtVersion
  <2>3. CASE version = 2
    BY <1>2, <2>3 DEF AtVersion
  <2> QED
    BY <2>1, <2>2, <2>3
<1>4. TypeOK
  <2>1. todo \in [Backends -> Seq(Statements)]
    BY RestsDiffer DEF Init, IsRest
  <2>2. has_transactional_ddl \in BOOLEAN /\ interrupted = FALSE
    BY SchemaAssumption DEF Init
  <2> QED
    BY <1>1, <1>2, <1>3, <2>1, <2>2 DEF Init, TypeOK
<1>5. Whole(stable)
  BY <1>3 DEF Whole, New, Old, Upgraded, Looks
<1>6. SchemaInv
  BY <1>5
  DEF Init, SchemaInv, Legal, WholeBetween, NoConflict, Knows, Placed,
      Upgrading, Informed
<1> QED
  BY <1>4, <1>6

\* Its assumption is that the operator breaks no lock whose owner is still in
\* its block.
LEMMA InvHolds ==
  ASSUME BreakPolicy # "any"
  PROVE  Spec => []Setting
<1>1. Init /\ RowHeld => Setting
  BY InitInv DEF Setting
<1>2. Setting /\ RowHeld' /\ Lock!TypeOK' /\ [Next]_vars => Setting'
  BY StepInv, StepType DEF Setting
<1> QED
  BY <1>1, <1>2, LockHolds, PTL DEF Spec

-----------------------------------------------------------------------------
\* Every variable keeps its type.
THEOREM TypeCorrect ==
  ASSUME BreakPolicy # "any"
  PROVE  Spec => []TypeOK
<1>1. Setting => TypeOK
  BY DEF Setting
<1> QED
  BY <1>1, InvHolds, PTL

\* No migration that was ever recorded is lost, wherever an upgrade stops.
THEOREM HistoryIsSomewhereHolds ==
  ASSUME BreakPolicy # "any"
  PROVE  Spec => []HistoryIsSomewhere
<1>1. Setting => HistoryIsSomewhere
  BY DEF Setting, SchemaInv, HistoryIsSomewhere, Legal, Whole, New, Old,
         WithLog, WithVersion, Copied, Dropped, Created, Filled, Restarted,
         Upgraded, Looks
<1> QED
  BY <1>1, InvHolds, PTL

\* Where DDL can be rolled back others see whole versions only.
THEOREM UpgradeIsAtomicHolds ==
  ASSUME BreakPolicy # "any"
  PROVE  Spec => []UpgradeIsAtomic
<1>1. Setting => UpgradeIsAtomic
  <2> SUFFICES ASSUME Setting, has_transactional_ddl PROVE UpgradeIsAtomic
    BY DEF UpgradeIsAtomic
  <2> DEFINE At(version) ==
        /\ stable.tables \in {db.tables : db \in AtVersion(version, recorded)}
        /\ stable.applied = recorded
        /\ stable.versions = IF version = 2 THEN {2} ELSE {}
  <2>1. Whole(stable)
    BY DEF Setting, SchemaInv, WholeBetween
  <2>2. CASE New(stable)
    <3>1. stable \in AtVersion(0, recorded)
      BY <2>2 DEF New, Looks, AtVersion
    <3>2. At(0)
      BY <2>2, <3>1 DEF New, Looks
    <3> QED
      BY <3>2 DEF UpgradeIsAtomic, CurrentVersion
  <2>3. CASE Old(stable)
    <3>1. stable \in AtVersion(1, recorded)
      BY <2>3 DEF Old, Looks, AtVersion
    <3>2. At(1)
      BY <2>3, <3>1 DEF Old, Looks
    <3> QED
      BY <3>2 DEF UpgradeIsAtomic, CurrentVersion
  <2>4. CASE Upgraded(stable)
    <3>1. stable \in AtVersion(2, recorded)
      BY <2>4 DEF Upgraded, AtVersion
    <3>2. At(2)
      BY <2>4, <3>1 DEF Upgraded
    <3> QED
      BY <3>2 DEF UpgradeIsAtomic, CurrentVersion
  <2> QED
    BY <2>1, <2>2, <2>3, <2>4 DEF Whole
<1> QED
  BY <1>1, InvHolds, PTL

\* A command trips over the tables of an interrupted upgrade only, and only
\* where DDL commits at once.
THEOREM NoConflictHolds ==
  ASSUME BreakPolicy # "any"
  PROVE  Spec => []NoConflict
<1>1. Setting => NoConflict
  BY DEF Setting, SchemaInv
<1> QED
  BY <1>1, InvHolds, PTL

\* Who is past the upgrade has the current tables for good.
THEOREM CurrentStaysCurrentHolds ==
  ASSUME BreakPolicy # "any"
  PROVE  Spec => []CurrentStaysCurrent
<1>1. Setting => CurrentStaysCurrent
  BY DEF Setting, SchemaInv, Knows, Informed, CurrentStaysCurrent, Upgraded
<1> QED
  BY <1>1, InvHolds, PTL

\* Who reads the table of applied migrations reads all that was recorded.
THEOREM ReadsWholeHistoryHolds ==
  ASSUME BreakPolicy # "any"
  PROVE  Spec => ReadsWholeHistory
<1> DEFINE Whole1 ==
      \A p \in Backends : ReadApplied(p) => seen'[p] = recorded
<1>1. Setting /\ [Next]_vars => [Whole1]_vars
  <2> SUFFICES ASSUME Setting, NEW p \in Backends, ReadApplied(p)
               PROVE  seen'[p] = recorded
    OBVIOUS
  <2>1. Upgraded(stable)
    BY DEF Setting, SchemaInv, Knows, Informed, ReadApplied
  <2> QED
    BY <2>1 DEF Setting, TypeOK, ReadApplied, Upgraded
<1> QED
  BY <1>1, InvHolds, PTL DEF Spec, ReadsWholeHistory
=============================================================================
