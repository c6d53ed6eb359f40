----------------------- MODULE MigrationSessionProofs ------------------------
(***************************************************************************)
(* Theorems about the commands of yoyo, for every set of processes, every  *)
(* list of migrations and every choice of command lines.                   *)
(*                                                                         *)
(* First, what the commands do to the lock are steps of MigrationLock, so  *)
(* that its theorems hold of them: a session in the body of its lock()     *)
(* block is alone with the database, and only it writes.  On this rests    *)
(* the invariant SessionInv, which says what a session knows of the        *)
(* database from where it is.                                              *)
(*                                                                         *)
(* Then the lists of get_migrations: what DependencyOrderProofs says of    *)
(* topological_sort gives the types and the order of filenames, and, with  *)
(* SessionInv, the refinement of SchemaHistory.                            *)
(***************************************************************************)
EXTENDS MigrationSession, DependencyOrderProofs

\* What a session does inside the body of lock() does not touch the lock.
LEMMA BodyLeavesLockAlone ==
  ASSUME NEW s \in Backends,
         \/ Select(s) \/ SkipBroken(s) \/ CommitSteps(s) \/ WriteLog(s)
         \/ WriteTable(s) \/ MarkAll(s) \/ UnmarkAll(s) \/ Reselect(s)
  PROVE  UNCHANGED lockVars
BY DEF Select, SkipBroken, CommitSteps, WriteLog, WriteTable, MarkAll,
       UnmarkAll, Reselect

\* Everything else that a session does is a step of the lock.
LEMMA OtherStepsAreOfLock ==
  ASSUME NEW s \in Backends,
         \/ Start(s) \/ WaitForLock(s) \/ FailSteps(s) \/ Raise(s)
         \/ Finish(s) \/ Release(s) \/ FailToRelease(s) \/ Crash(s)
  PROVE  Lock!BackendStep(s)
BY DEF Start, WaitForLock, FailSteps, Raise, Finish, Release, FailToRelease,
       Crash, Lock!BackendStep

\* Every step of the commands is a step of the lock, or leaves it alone.
LEMMA StepIsOfLock == [Next]_vars => [Lock!Next]_(Lock!vars)
<1> SUFFICES ASSUME [Next]_vars PROVE [Lock!Next]_(Lock!vars)
  OBVIOUS
<1>1. CASE \E s \in Backends : SessionStep(s)
  <2> PICK s \in Backends : SessionStep(s)
    BY <1>1
  <2>1. UNCHANGED lockVars \/ Lock!BackendStep(s)
    BY BodyLeavesLockAlone, OtherStepsAreOfLock DEF SessionStep, Work
  <2> QED
    BY <2>1 DEF lockVars, Lock!vars, Lock!Next
<1>2. CASE BreakLock
  BY <1>2 DEF BreakLock, Lock!Next
<1>3. CASE UNCHANGED vars
  BY <1>3 DEF vars, lockVars, Lock!vars
<1> QED
  BY <1>1, <1>2, <1>3 DEF Next

\* So the invariants of MigrationLock hold of the commands.
LEMMA SessionsUseLock == Spec => Lock!Spec
<1>1. Init => Lock!Init
  BY DEF Init
<1> QED
  BY <1>1, StepIsOfLock, PTL DEF Spec, Lock!Spec

-----------------------------------------------------------------------------
LockFacts == INSTANCE MigrationLockProofs WITH Retrying <- {}, MaxNested <- 0

\* The lock's assumptions on its constants are met.
LEMMA LockConstants == LockFacts!LockAssumption
BY SessionAssumption DEF LockFacts!LockAssumption

\* The same lock as the one of MigrationLockProofs.
LEMMA SpecIsOfLock == Spec => LockFacts!Spec
<1>1. Lock!Init => LockFacts!Init
  BY DEF Lock!Init, LockFacts!Init
<1>2. [Lock!Next]_(Lock!vars) => [LockFacts!Next]_(LockFacts!vars)
  BY DEF Lock!CallLock, LockFacts!CallLock,
       Lock!Borrow, LockFacts!Borrow,
       Lock!EnterNested, LockFacts!EnterNested,
       Lock!LeaveNested, LockFacts!LeaveNested,
       Lock!Poll, LockFacts!Poll,
       Lock!InsertLockRow, LockFacts!InsertLockRow,
       Lock!PollAgain, LockFacts!PollAgain,
       Lock!LockTimeout, LockFacts!LockTimeout,
       Lock!BodyReturns, LockFacts!BodyReturns,
       Lock!BodyRaises, LockFacts!BodyRaises,
       Lock!DeleteLockRow, LockFacts!DeleteLockRow,
       Lock!DeleteFails, LockFacts!DeleteFails,
       Lock!Crash, LockFacts!Crash,
       Lock!BackendStep, LockFacts!BackendStep,
       Lock!BreakLock, LockFacts!BreakLock,
       Lock!StaleRow, LockFacts!StaleRow,
       Lock!HasInserted, LockFacts!HasInserted,
       Lock!InBody, LockFacts!InBody,
       Lock!AfterRaise, LockFacts!AfterRaise,
       Lock!Goto, LockFacts!Goto,
       Lock!Next, LockFacts!Next,
       Lock!vars, LockFacts!vars
<1> QED
  BY <1>1, <1>2, SessionsUseLock, PTL DEF Lock!Spec, LockFacts!Spec

\* Its invariant holds of the commands.
LEMMA LockInvHolds ==
  ASSUME BreakPolicy # "any"
  PROVE  Spec => [](LockFacts!TypeOK /\ LockFacts!LockInv)
<1>1. LockFacts!Spec => [](LockFacts!TypeOK /\ LockFacts!LockInv)
  BY LockConstants, LockFacts!InvHolds
<1> QED
  BY <1>1, SpecIsOfLock, PTL

-----------------------------------------------------------------------------
(***************************************************************************)
(* What a session knows of the database from where it is.                  *)
(***************************************************************************)
IsJob(j) ==
  j = [kind |-> j.kind, stage |-> j.stage, step |-> j.step,
       todo |-> j.todo, again |-> j.again]

Shape ==
  /\ job = [s \in Backends |-> job[s]]
  /\ \A s \in Backends : IsJob(job[s])
  /\ uncommitted = [s \in Backends |-> uncommitted[s]]
  /\ last_log = [m \in Scripts |-> last_log[m]]
  /\ pc = [s \in Backends |-> pc[s]]

\* Only post-apply hooks are processed as such, and where nothing is processed
\* nothing is half done.
StageKnown(s) ==
  /\ job[s].stage = "hooks" =>
       job[s].todo \in Seq(ToSet(Hooks)) /\ job[s].todo # <<>>
  /\ job[s].stage \notin {"rollback", "apply", "hooks"} => job[s].step = "steps"

\* A session that is not in the body of its lock() block has no job.
NoJobOutside(s) == pc[s] # "holding" => job[s] = NoJob

\* In the window the steps are committed, and behind the log so is its row,
\* or the connection has it.
WindowKnown(s) ==
  \A m \in Migrations : InWindow(s, m) =>
    /\ (m \in effect) = (job[s].stage # "rollback")
    /\ job[s].step = "table" =>
         IF LogAutocommit THEN last_log[m] = Direction(job[s])
         ELSE <<m, Direction(job[s])>> \in uncommitted[s]

\* The rows of the log that wait are of the migration in the window, or of one
\* whose session has been interrupted.
WaitingKnown(s) ==
  \A m \in Migrations, op \in Operations : <<m, op>> \in uncommitted[s] =>
    /\ ~LogAutocommit
    /\ \/ InWindow(s, m) /\ job[s].step = "table" /\ op = Direction(job[s])
       \/ m \in interrupted /\ pc[s] = "deleting"

Knows(s) ==
  StageKnown(s) /\ NoJobOutside(s) /\ WindowKnown(s) /\ WaitingKnown(s)

SessionInv ==
  Shape /\ (\A s \in Backends : Knows(s)) /\ EffectMatchesTable /\ AuditTrail

\* The lock: a session in the body or before its DELETE has the row.
RowHeld ==
  \A s \in Backends :
    /\ pc[s] # "borrowing"
    /\ pc[s] \in {"holding", "deleting"} => lock_table = s

-----------------------------------------------------------------------------
\* A session in the body of its lock() block is alone with the database.
LEMMA Alone ==
  ASSUME RowHeld, SessionInv, NEW s \in Backends, pc[s] = "holding",
         NEW t \in Backends, t # s
  PROVE  /\ pc[t] \notin {"holding", "borrowing", "deleting"}
         /\ \A m \in Migrations :
              /\ ~InWindow(t, m)
              /\ \A op \in Operations : <<m, op>> \notin uncommitted[t]
<1>1. pc[t] \notin {"holding", "borrowing", "deleting"}
  BY DEF RowHeld
<1>2. \A m \in Migrations : ~InWindow(t, m)
  BY <1>1 DEF InWindow, Processing, At, Lock!InBody
<1> QED
  BY <1>1, <1>2 DEF SessionInv, Knows, WaitingKnown

\* Only the job of the session itself changes.
LEMMA SetJobKeepsShape ==
  ASSUME job = [t \in Backends |-> job[t]],
         \A t \in Backends : IsJob(job[t]),
         NEW s \in Backends, NEW j, IsJob(j), SetJob(s, j)
  PROVE  /\ job'[s] = j
         /\ \A t \in Backends : t # s => job'[t] = job[t]
         /\ job' = [t \in Backends |-> job'[t]]
         /\ \A t \in Backends : IsJob(job'[t])
<1>1. job' = [t \in Backends |-> IF t = s THEN j ELSE job[t]]
  BY DEF SetJob
<1> QED
  BY <1>1

\* Behind a script there is another one, or the hooks, or nothing.
LEMMA AdvancedJob ==
  ASSUME NEW j, IsJob(j)
  PROVE  /\ IsJob(Advanced(j))
         /\ Advanced(j).step = "steps"
         /\ Advanced(j).stage = "hooks" =>
              \/ j.stage = "hooks" /\ Tail(j.todo) # <<>>
                                   /\ Advanced(j).todo = Tail(j.todo)
              \/ Hooks # <<>> /\ Advanced(j).todo = Hooks
BY DEF IsJob, Advanced

\* A session goes on knowing what it knows while it does nothing itself and
\* nobody touches the migration in its window.
LEMMA Frame ==
  ASSUME NEW t \in Backends, Knows(t),
         job'[t] = job[t], pc'[t] = pc[t], uncommitted'[t] = uncommitted[t],
         \A m \in Migrations :
           /\ InWindow(t, m) => /\ (m \in effect') = (m \in effect)
                                /\ last_log'[m] = last_log[m]
           /\ m \in interrupted /\ pc[t] = "deleting" => m \in interrupted'
  PROVE  Knows(t)'
<1>1. \A m : InWindow(t, m)' = InWindow(t, m)
  BY DEF InWindow, Processing, At, Current, Lock!InBody
<1>2. StageKnown(t)' /\ NoJobOutside(t)'
  BY DEF Knows, StageKnown, NoJobOutside
<1>3. WindowKnown(t)'
  BY <1>1 DEF Knows, WindowKnown, Direction
<1>4. WaitingKnown(t)'
  BY <1>1 DEF Knows, WaitingKnown, Direction
<1> QED
  BY <1>2, <1>3, <1>4 DEF Knows

\* What one session does in the body of its lock() block leaves the others
\* what they know.
LEMMA OthersKnow ==
  ASSUME RowHeld, SessionInv, NEW s \in Backends, pc[s] = "holding",
         \A t \in Backends : t # s =>
           /\ job'[t] = job[t] /\ pc'[t] = pc[t]
           /\ uncommitted'[t] = uncommitted[t]
  PROVE  \A t \in Backends : t # s => Knows(t)'
<1> SUFFICES ASSUME NEW t \in Backends, t # s PROVE Knows(t)'
  OBVIOUS
<1> QED
  BY Alone, Frame DEF SessionInv

\* A step of the body that neither writes nor leaves the body.
LEMMA QuietStep ==
  ASSUME RowHeld, SessionInv, NEW s \in Backends, pc[s] = "holding",
         UNCHANGED <<lockVars, dataVars, uncommitted, interrupted>>,
         \A m \in Migrations : ~InWindow(s, m),
         NEW j, IsJob(j), SetJob(s, j), j.step = "steps",
         j.stage = "hooks" => j.todo \in Seq(ToSet(Hooks)) /\ j.todo # <<>>
  PROVE  SessionInv'
<1>1. /\ job'[s] = j
      /\ \A t \in Backends : t # s => job'[t] = job[t]
  BY SetJobKeepsShape DEF SessionInv, Shape
<1>2. Shape'
  BY SetJobKeepsShape DEF SessionInv, Shape, lockVars, dataVars
<1>3. \A t \in Backends : t # s => Knows(t)'
  BY <1>1, OthersKnow DEF lockVars
<1>4. Knows(s)'
  <2>1. \A m : ~InWindow(s, m)'
    BY <1>1 DEF InWindow, Processing
  <2>2. \A m \in Migrations, op \in Operations : <<m, op>> \notin uncommitted[s]
    BY DEF SessionInv, Knows, WaitingKnown
  <2>3. /\ StageKnown(s)' /\ NoJobOutside(s)'
        /\ WindowKnown(s)' /\ WaitingKnown(s)'
    BY <1>1, <2>1, <2>2
    DEF StageKnown, NoJobOutside, WindowKnown, WaitingKnown, lockVars
  <2> QED
    BY <2>3 DEF Knows
<1>5. EffectMatchesTable' /\ AuditTrail'
  <2>1. \A m \in Migrations, t \in Backends : ~InWindow(t, m)
    BY Alone
  <2> QED
    BY <2>1 DEF SessionInv, EffectMatchesTable, AuditTrail, dataVars
<1> QED
  BY <1>2, <1>3, <1>4, <1>5 DEF SessionInv

\* A session is let into the body by its row only.
LEMMA BodyIsHolding ==
  ASSUME RowHeld, NEW s \in Backends, Lock!InBody(s)
  PROVE  pc[s] = "holding"
BY DEF RowHeld, Lock!InBody

-----------------------------------------------------------------------------
\* get_migrations only reads.
LEMMA SelectKeeps ==
  ASSUME RowHeld, SessionInv, NEW s \in Backends, Select(s)
  PROVE  SessionInv'
<1> DEFINE j(cmd, todo) ==
             [kind  |-> cmd.kind,
              stage |-> IF todo = <<>> THEN "done"
                        ELSE IF cmd.kind = "reapply" THEN "rollback"
                        ELSE cmd.kind,
              step  |-> "steps",
              todo  |-> todo,
              again |-> IF cmd.kind = "reapply" THEN todo ELSE <<>>]
<1>1. PICK cmd \in Commands : \E todo : SetJob(s, j(cmd, todo))
  BY DEF Select
<1>2. PICK todo : SetJob(s, j(cmd, todo))
  BY <1>1
<1>3. IsJob(j(cmd, todo)) /\ j(cmd, todo).step = "steps"
  BY DEF IsJob
<1>4. j(cmd, todo).stage # "hooks"
  BY SessionAssumption DEF Operations
<1>5. pc[s] = "holding" /\ \A m \in Migrations : ~InWindow(s, m)
  BY BodyIsHolding DEF Select, At, InWindow, Processing
<1>6. UNCHANGED <<lockVars, dataVars, uncommitted, interrupted>>
  BY DEF Select
<1> HIDE DEF j
<1> QED
  BY <1>2, <1>3, <1>4, <1>5, <1>6, QuietStep

LEMMA SkipBrokenKeeps ==
  ASSUME RowHeld, SessionInv, NEW s \in Backends, SkipBroken(s)
  PROVE  SessionInv'
<1>1. /\ pc[s] = "holding"
      /\ \A m \in Migrations : ~InWindow(s, m)
      /\ UNCHANGED <<lockVars, dataVars, uncommitted, interrupted>>
      /\ SetJob(s, Advanced(job[s]))
  BY BodyIsHolding DEF SkipBroken, Processing, At, InWindow
<1>2. IsJob(job[s]) /\ StageKnown(s)
  BY DEF SessionInv, Shape, Knows
<1>3. Advanced(job[s]).stage = "hooks" =>
        /\ Advanced(job[s]).todo \in Seq(ToSet(Hooks))
        /\ Advanced(job[s]).todo # <<>>
  <2>1. job[s].stage = "hooks" => Tail(job[s].todo) \in Seq(ToSet(Hooks))
    BY <1>2 DEF StageKnown
  <2> QED
    BY <1>2, <2>1, AdvancedJob, SessionAssumption
<1> QED
  BY <1>1, <1>2, <1>3, AdvancedJob, QuietStep

LEMMA ReselectKeeps ==
  ASSUME RowHeld, SessionInv, NEW s \in Backends, Reselect(s)
  PROVE  SessionInv'
<1>1. PICK todo :
        SetJob(s, [job[s] EXCEPT !.todo = todo, !.again = <<>>,
                     !.stage = IF todo = <<>> THEN "done" ELSE "apply"])
  BY DEF Reselect
<1> DEFINE j == [job[s] EXCEPT !.todo = todo, !.again = <<>>,
                   !.stage = IF todo = <<>> THEN "done" ELSE "apply"]
<1>2. IsJob(job[s])
  BY DEF SessionInv, Shape
<1>3. /\ IsJob(j) /\ j.step = job[s].step
      /\ j.stage = IF todo = <<>> THEN "done" ELSE "apply"
  <2> DEFINE r == job[s]
             stage == IF todo = <<>> THEN "done" ELSE "apply"
  <2>1. j = [r EXCEPT !.todo = todo, !.again = <<>>, !.stage = stage]
    OBVIOUS
  <2>2. IsJob(r)
    BY <1>2
  <2> HIDE DEF j, r, stage
  <2>3. IsJob(j) /\ j.step = r.step /\ j.stage = stage
    BY <2>1, <2>2 DEF IsJob
  <2> QED
    BY <2>3 DEF r, stage
<1>4. pc[s] = "holding" /\ job[s].stage = "reselect"
  BY BodyIsHolding DEF Reselect, At
<1>5. job[s].step = "steps"
  BY <1>4 DEF SessionInv, Knows, StageKnown
<1>6. IsJob(j) /\ j.step = "steps" /\ j.stage # "hooks"
  BY <1>3, <1>5 DEF IsJob
<1>7. \A m \in Migrations : ~InWindow(s, m)
  BY <1>5 DEF InWindow, Processing
<1>8. UNCHANGED <<lockVars, dataVars, uncommitted, interrupted>>
  BY DEF Reselect
<1> HIDE DEF j
<1> QED
  BY <1>1, <1>4, <1>6, <1>7, <1>8, QuietStep DEF j

\* The next step of a script leaves it where it is in the list.
LEMMA NextStep ==
  ASSUME SessionInv, NEW s \in Backends, NEW step,
         SetJob(s, [job[s] EXCEPT !.step = step])
  PROVE  /\ job' = [t \in Backends |-> job'[t]]
         /\ \A t \in Backends : IsJob(job'[t])
         /\ \A t \in Backends : t # s => job'[t] = job[t]
         /\ job'[s].step = step
         /\ job'[s].stage = job[s].stage /\ job'[s].todo = job[s].todo
<1> DEFINE j == [job[s] EXCEPT !.step = step]
<1>1. IsJob(job[s])
  BY DEF SessionInv, Shape
<1>2. /\ IsJob(j) /\ j.step = step
      /\ j.stage = job[s].stage /\ j.todo = job[s].todo
  BY <1>1 DEF IsJob
<1>3. SetJob(s, j)
  OBVIOUS
<1> HIDE DEF j
<1> QED
  BY <1>2, <1>3, SetJobKeepsShape DEF SessionInv, Shape

\* A hook is not a migration: it has no row and no window.
LEMMA CurrentHook ==
  ASSUME SessionInv, NEW s \in Backends, job[s].stage = "hooks"
  PROVE  Current(s) \notin Migrations
<1>1. job[s].todo \in Seq(ToSet(Hooks)) /\ job[s].todo # <<>>
  BY DEF SessionInv, Knows, StageKnown
<1>2. Head(job[s].todo) \in ToSet(Hooks)
  BY <1>1
<1> QED
  BY <1>2, SessionAssumption DEF Current

\* Where no session is in the window, no row of the log waits in one.
LEMMA NoWindow ==
  ASSUME RowHeld, SessionInv, NEW s \in Backends, pc[s] = "holding",
         \A m \in Migrations : ~InWindow(s, m)
  PROVE  /\ \A m \in Migrations, t \in Backends : ~InWindow(t, m)
         /\ \A m \in Migrations, op \in Operations :
              <<m, op>> \notin uncommitted[s]
<1>1. \A m \in Migrations, t \in Backends : ~InWindow(t, m)
  BY Alone
<1> QED
  BY <1>1 DEF SessionInv, Knows, WaitingKnown

\* The rows of the log that the query before the steps commits are of hooks.
LEMMA WaitingAreHooks ==
  ASSUME RowHeld, SessionInv, NEW s \in Backends, Processing(s, "steps")
  PROVE  /\ \A m \in Migrations : Committed(s)[m] = last_log[m]
         /\ Committed(s) = [m \in Scripts |-> Committed(s)[m]]
<1>1. pc[s] = "holding" /\ \A m \in Migrations : ~InWindow(s, m)
  BY BodyIsHolding DEF Processing, At, InWindow
<1> QED
  BY <1>1, NoWindow DEF Committed, Scripts

\* The commit of the steps opens the window.
LEMMA CommitStepsKeeps ==
  ASSUME RowHeld, SessionInv, NEW s \in Backends, CommitSteps(s)
  PROVE  SessionInv'
<1>1. /\ pc[s] = "holding" /\ Processing(s, "steps")
      /\ \A m \in Migrations : ~InWindow(s, m)
  BY BodyIsHolding DEF CommitSteps, Processing, At, InWindow
<1>2. SetJob(s, [job[s] EXCEPT !.step = "log"])
  BY DEF CommitSteps
<1>3. pc' = pc /\ applied' = applied /\ interrupted' = interrupted
  BY DEF CommitSteps, lockVars
<1>4. /\ \A t \in Backends : t # s => uncommitted'[t] = uncommitted[t]
      /\ uncommitted'[s] = {}
      /\ uncommitted' = [t \in Backends |-> uncommitted'[t]]
  BY DEF CommitSteps, Uncommitted, SessionInv, Shape
<1>5. /\ \A m \in Migrations : last_log'[m] = last_log[m]
      /\ last_log' = [m \in Scripts |-> last_log'[m]]
  BY WaitingAreHooks DEF CommitSteps
<1>6. Shape'
  BY <1>2, <1>3, <1>4, <1>5, NextStep DEF SessionInv, Shape
<1>7. \A t \in Backends : t # s => Knows(t)'
  BY <1>1, <1>2, <1>3, <1>4, NextStep, OthersKnow
<1>8. \A m \in Migrations :
        (m \in effect') = IF m = Current(s) THEN job[s].stage # "rollback"
                          ELSE m \in effect
  BY DEF CommitSteps
<1>9. \A m : InWindow(s, m)' <=> job[s].stage # "hooks" /\ m = Current(s)
  BY <1>1, <1>2, <1>3, NextStep
  DEF InWindow, Processing, At, Current, Lock!InBody
<1>10. Knows(s)'
  <2>1. StageKnown(s)' /\ NoJobOutside(s)'
    BY <1>1, <1>2, <1>3, NextStep
    DEF SessionInv, Knows, StageKnown, NoJobOutside, Processing, At
  <2>2. job'[s].stage = job[s].stage /\ job'[s].step = "log"
    BY <1>2, NextStep
  <2>3. WindowKnown(s)'
    BY <1>8, <1>9, <2>2 DEF WindowKnown
  <2>4. WaitingKnown(s)'
    BY <1>4 DEF WaitingKnown
  <2> QED
    BY <2>1, <2>3, <2>4 DEF Knows
<1>11. EffectMatchesTable'
  <2> SUFFICES ASSUME NEW m \in Migrations \cap Atomic,
                      (m \in applied') # (m \in effect'), m \notin interrupted',
                      last_log'[m] \notin {"mark", "unmark"}
               PROVE  InWindow(s, m)'
    BY DEF EffectMatchesTable
  <2>1. m = Current(s)
    BY <1>1, <1>3, <1>5, <1>8, NoWindow DEF SessionInv, EffectMatchesTable
  <2> QED
    BY <1>9, <2>1, CurrentHook
<1>12. AuditTrail'
  BY <1>1, <1>3, <1>5, NoWindow DEF SessionInv, AuditTrail
<1> QED
  BY <1>6, <1>7, <1>10, <1>11, <1>12 DEF SessionInv

\* The body of a session ends or its process dies, and what was in its window
\* is interrupted.
LEMMA LeaveBody ==
  ASSUME RowHeld, SessionInv, NEW s \in Backends, pc[s] = "holding",
         NEW label \in {"deleting", "crashed"},
         pc' = [pc EXCEPT ![s] = label],
         SetJob(s, NoJob),
         interrupted' = interrupted \cup {m \in Migrations : InWindow(s, m)},
         applied' = applied,
         last_log' = [m \in Scripts |-> last_log'[m]],
         \A m \in Migrations : last_log'[m] = last_log[m],
         \A m \in Atomic : (m \in effect') = (m \in effect),
         NEW kept, Uncommitted(s, kept), kept \subseteq uncommitted[s],
         label = "crashed" => kept = {}
  PROVE  SessionInv'
<1>1. IsJob(NoJob) /\ NoJob.stage = "select" /\ NoJob.step = "steps"
  BY DEF IsJob, NoJob
<1> HIDE DEF NoJob
<1>2. /\ job' = [t \in Backends |-> job'[t]]
      /\ \A t \in Backends : IsJob(job'[t])
      /\ \A t \in Backends : t # s => job'[t] = job[t]
      /\ job'[s] = NoJob
  BY <1>1, SetJobKeepsShape DEF SessionInv, Shape
<1>3. /\ pc' = [t \in Backends |-> pc'[t]]
      /\ pc'[s] = label
      /\ \A t \in Backends : t # s => pc'[t] = pc[t]
  BY DEF SessionInv, Shape
<1>4. /\ uncommitted' = [t \in Backends |-> uncommitted'[t]]
      /\ uncommitted'[s] = kept
      /\ \A t \in Backends : t # s => uncommitted'[t] = uncommitted[t]
  BY DEF Uncommitted, SessionInv, Shape
<1>5. Shape'
  BY <1>2, <1>3, <1>4 DEF SessionInv, Shape
<1>6. \A t \in Backends : t # s => Knows(t)'
  BY <1>2, <1>3, <1>4, OthersKnow
<1>7. Knows(s)'
  <2>1. \A m : ~InWindow(s, m)'
    BY <1>1, <1>2 DEF InWindow, Processing
  <2>2. StageKnown(s)' /\ NoJobOutside(s)' /\ WindowKnown(s)'
    BY <1>1, <1>2, <2>1 DEF StageKnown, NoJobOutside, WindowKnown
  <2>3. WaitingKnown(s)
    BY DEF SessionInv, Knows
  <2>4. WaitingKnown(s)'
    BY <1>3, <1>4, <2>3 DEF WaitingKnown
  <2> QED
    BY <2>2, <2>4 DEF Knows
<1>8. \A m \in Migrations, t \in Backends :
        InWindow(t, m) => m \in interrupted'
  BY Alone
<1>9. EffectMatchesTable' /\ AuditTrail'
  BY <1>8 DEF SessionInv, EffectMatchesTable, AuditTrail
<1> QED
  BY <1>5, <1>6, <1>7, <1>9 DEF SessionInv

LEMMA FailStepsKeeps ==
  ASSUME RowHeld, SessionInv, NEW s \in Backends, FailSteps(s)
  PROVE  SessionInv'
<1>1. pc[s] = "holding"
  BY BodyIsHolding DEF FailSteps, Processing, At
<1>2. pc' = [pc EXCEPT ![s] = "deleting"]
  BY <1>1 DEF FailSteps, Lock!BodyRaises, Lock!Goto
<1>3. \A m \in Atomic : (m \in effect') = (m \in effect)
  BY DEF FailSteps, Partly
<1>4. {} \subseteq uncommitted[s]
  OBVIOUS
<1>5. /\ \A m \in Migrations : last_log'[m] = last_log[m]
      /\ last_log' = [m \in Scripts |-> last_log'[m]]
  BY WaitingAreHooks DEF FailSteps
<1> QED
  BY <1>1, <1>2, <1>3, <1>4, <1>5, LeaveBody DEF FailSteps, Abandon

LEMMA RaiseKeeps ==
  ASSUME RowHeld, SessionInv, NEW s \in Backends, Raise(s)
  PROVE  SessionInv'
<1>1. pc[s] = "holding"
  BY BodyIsHolding DEF Raise, Lock!BodyRaises
<1>2. pc' = [pc EXCEPT ![s] = "deleting"]
  BY <1>1 DEF Raise, Lock!BodyRaises, Lock!Goto
<1>3. PICK kept \in {{}, uncommitted[s]} : Uncommitted(s, kept)
  BY DEF Raise
<1>4. kept \subseteq uncommitted[s]
  BY <1>3
<1> QED
  BY <1>1, <1>2, <1>3, <1>4, LeaveBody
  DEF Raise, Abandon, dataVars, SessionInv, Shape

LEMMA FinishKeeps ==
  ASSUME RowHeld, SessionInv, NEW s \in Backends, Finish(s)
  PROVE  SessionInv'
<1>1. pc[s] = "holding" /\ job[s].stage = "done"
  BY BodyIsHolding DEF Finish, At
<1>2. pc' = [pc EXCEPT ![s] = "deleting"]
  BY <1>1 DEF Finish, Lock!BodyReturns, Lock!Goto
<1>3. interrupted' = interrupted \cup {m \in Migrations : InWindow(s, m)}
  BY <1>1 DEF Finish, InWindow, Processing, At
<1>4. Uncommitted(s, uncommitted[s])
  BY DEF Finish, Uncommitted, SessionInv, Shape
<1> QED
  BY <1>1, <1>2, <1>3, <1>4, LeaveBody DEF Finish, dataVars, SessionInv, Shape

\* Behind the step that ends it a script is done with.
LEMMA NextScript ==
  ASSUME SessionInv, NEW s \in Backends, SetJob(s, Advanced(job[s]))
  PROVE  /\ job' = [t \in Backends |-> job'[t]]
         /\ \A t \in Backends : IsJob(job'[t])
         /\ \A t \in Backends : t # s => job'[t] = job[t]
         /\ \A m : ~InWindow(s, m)'
         /\ StageKnown(s)'
<1>1. IsJob(job[s]) /\ StageKnown(s)
  BY DEF SessionInv, Shape, Knows
<1> DEFINE j == Advanced(job[s])
<1>2. IsJob(j) /\ j.step = "steps"
  BY <1>1, AdvancedJob
<1>3. j.stage = "hooks" => j.todo \in Seq(ToSet(Hooks)) /\ j.todo # <<>>
  <2>1. job[s].stage = "hooks" => Tail(job[s].todo) \in Seq(ToSet(Hooks))
    BY <1>1 DEF StageKnown
  <2> QED
    BY <1>1, <2>1, AdvancedJob, SessionAssumption
<1> HIDE DEF j
<1>4. /\ job' = [t \in Backends |-> job'[t]]
      /\ \A t \in Backends : IsJob(job'[t])
      /\ \A t \in Backends : t # s => job'[t] = job[t]
      /\ job'[s] = j
  BY <1>2, SetJobKeepsShape DEF SessionInv, Shape, j
<1>5. \A m : ~InWindow(s, m)'
  BY <1>2, <1>4 DEF InWindow, Processing
<1>6. StageKnown(s)'
  BY <1>2, <1>3, <1>4 DEF StageKnown
<1> QED
  BY <1>4, <1>5, <1>6

\* What log_migration writes, and where.
LEMMA LogWritten ==
  ASSUME SessionInv, NEW s \in Backends, WriteLog(s)
  PROVE  /\ uncommitted'[s] =
              uncommitted[s] \cup
              IF LogAutocommit THEN {} ELSE {<<Current(s), Direction(job[s])>>}
         /\ \A m \in Migrations :
              last_log'[m] = IF LogAutocommit /\ m = Current(s)
                             THEN Direction(job[s]) ELSE last_log[m]
<1>1. \A m \in Migrations : m \in Scripts
  BY DEF Scripts
<1>2. CASE LogAutocommit
  BY <1>1, <1>2 DEF WriteLog, SessionInv, Shape
<1>3. CASE ~LogAutocommit
  BY <1>3 DEF WriteLog, Uncommitted, SessionInv, Shape
<1> QED
  BY <1>2, <1>3

LEMMA WriteLogOfHook ==
  ASSUME RowHeld, SessionInv, NEW s \in Backends, WriteLog(s),
         job[s].stage = "hooks"
  PROVE  SessionInv'
<1>1. pc[s] = "holding" /\ \A m \in Migrations : ~InWindow(s, m)
  BY BodyIsHolding DEF WriteLog, Processing, At, InWindow
<1>2. SetJob(s, Advanced(job[s]))
  BY DEF WriteLog
<1>3. /\ pc' = pc /\ applied' = applied /\ effect' = effect
      /\ interrupted' = interrupted
  BY DEF WriteLog, lockVars
<1>4. /\ uncommitted' = [t \in Backends |-> uncommitted'[t]]
      /\ \A t \in Backends : t # s => uncommitted'[t] = uncommitted[t]
      /\ last_log' = [m \in Scripts |-> last_log'[m]]
  BY DEF WriteLog, Uncommitted, SessionInv, Shape
<1>5. \A m \in Migrations :
        /\ last_log'[m] = last_log[m]
        /\ \A op \in Operations : <<m, op>> \notin uncommitted'[s]
  <2>1. Current(s) \notin Migrations
    BY CurrentHook
  <2>2. \A m \in Migrations, op \in Operations : <<m, op>> \notin uncommitted[s]
    BY <1>1, NoWindow
  <2> QED
    BY <2>1, <2>2, LogWritten
<1>6. Shape'
  BY <1>2, <1>3, <1>4, NextScript DEF SessionInv, Shape
<1>7. \A t \in Backends : t # s => Knows(t)'
  BY <1>1, <1>2, <1>3, <1>4, NextScript, OthersKnow
<1>8. Knows(s)'
  <2>1. StageKnown(s)' /\ \A m : ~InWindow(s, m)'
    BY <1>2, NextScript
  <2>2. NoJobOutside(s)' /\ WindowKnown(s)' /\ WaitingKnown(s)'
    BY <1>1, <1>3, <1>5, <2>1 DEF NoJobOutside, WindowKnown, WaitingKnown
  <2> QED
    BY <2>1, <2>2 DEF Knows
<1>9. EffectMatchesTable' /\ AuditTrail'
  BY <1>1, <1>3, <1>5, NoWindow DEF SessionInv, EffectMatchesTable, AuditTrail
<1> QED
  BY <1>6, <1>7, <1>8, <1>9 DEF SessionInv

LEMMA WriteLogOfMigration ==
  ASSUME RowHeld, SessionInv, NEW s \in Backends, WriteLog(s),
         job[s].stage # "hooks"
  PROVE  SessionInv'
<1>1. pc[s] = "holding" /\ Processing(s, "log")
  BY BodyIsHolding DEF WriteLog, Processing, At
<1>2. SetJob(s, [job[s] EXCEPT !.step = "table"])
  BY DEF WriteLog
<1>3. /\ pc' = pc /\ applied' = applied /\ effect' = effect
      /\ interrupted' = interrupted
  BY DEF WriteLog, lockVars
<1>4. /\ uncommitted' = [t \in Backends |-> uncommitted'[t]]
      /\ \A t \in Backends : t # s => uncommitted'[t] = uncommitted[t]
      /\ last_log' = [m \in Scripts |-> last_log'[m]]
  BY DEF WriteLog, Uncommitted, SessionInv, Shape
<1>5. /\ job'[s].stage = job[s].stage /\ job'[s].step = "table"
      /\ job'[s].todo = job[s].todo
  BY <1>2, NextStep
<1>6. /\ \A m : InWindow(s, m) <=> m = Current(s)
      /\ \A m : InWindow(s, m)' <=> m = Current(s)
  BY <1>1, <1>3, <1>5 DEF InWindow, Processing, At, Current, Lock!InBody
<1>7. \A m \in Migrations :
        last_log'[m] = IF LogAutocommit /\ m = Current(s)
                       THEN Direction(job[s]) ELSE last_log[m]
  BY LogWritten
<1>8. \A m \in Migrations, op \in Operations :
        <<m, op>> \in uncommitted'[s] <=>
          ~LogAutocommit /\ m = Current(s) /\ op = Direction(job[s])
  <2>1. job[s].step = "log"
    BY <1>1 DEF Processing
  <2>2. \A m \in Migrations, op \in Operations : <<m, op>> \notin uncommitted[s]
    BY <1>1, <2>1 DEF SessionInv, Knows, WaitingKnown
  <2> QED
    <3>1. CASE LogAutocommit
      BY <2>2, <3>1, LogWritten
    <3>2. CASE ~LogAutocommit
      <4>1. uncommitted'[s] =
              uncommitted[s] \cup {<<Current(s), Direction(job[s])>>}
        BY <3>2, LogWritten
      <4> QED
        BY <2>2, <3>2, <4>1
    <3> QED
      BY <3>1, <3>2
<1>9. Shape'
  BY <1>2, <1>3, <1>4, NextStep DEF SessionInv, Shape
<1>10. \A t \in Backends : t # s => Knows(t)'
  BY <1>1, <1>2, <1>3, <1>4, NextStep, OthersKnow
<1>11. Knows(s)'
  <2>1. StageKnown(s)' /\ NoJobOutside(s)'
    BY <1>1, <1>3, <1>5
    DEF SessionInv, Knows, StageKnown, NoJobOutside, Processing, At
  <2>2. /\ Direction(job'[s]) = Direction(job[s])
        /\ Direction(job[s]) \in Operations
    BY <1>5 DEF Direction, Operations
  <2>3. WindowKnown(s)'
    <3>1. \A m \in Migrations :
            m = Current(s) => (m \in effect) = (job[s].stage # "rollback")
      BY <1>6 DEF SessionInv, Knows, WindowKnown
    <3> QED
      BY <1>3, <1>5, <1>6, <1>7, <1>8, <2>2, <3>1 DEF WindowKnown
  <2>4. WaitingKnown(s)'
    BY <1>5, <1>6, <1>8, <2>2 DEF WaitingKnown
  <2> QED
    BY <2>1, <2>3, <2>4 DEF Knows
<1>12. \A m \in Migrations, t \in Backends :
         InWindow(t, m) => t = s /\ m = Current(s)
  BY <1>1, <1>6, Alone
<1>13. EffectMatchesTable'
  BY <1>3, <1>6, <1>7, <1>12 DEF SessionInv, EffectMatchesTable
<1>14. AuditTrail'
  BY <1>3, <1>6, <1>7, <1>12 DEF SessionInv, AuditTrail
<1> QED
  BY <1>9, <1>10, <1>11, <1>13, <1>14 DEF SessionInv

\* The transaction of the row leaves the log as the direction says.
LEMMA LogOfWindow ==
  ASSUME RowHeld, SessionInv, NEW s \in Backends, pc[s] = "holding",
         job[s].step = "table", NEW m \in Migrations
  PROVE  Committed(s)[m] = IF InWindow(s, m) THEN Direction(job[s])
                           ELSE last_log[m]
<1>1. m \in Scripts /\ Direction(job[s]) \in Operations
  BY DEF Scripts, Direction, Operations
<1>2. \A op \in Operations : <<m, op>> \in uncommitted[s] =>
        ~LogAutocommit /\ InWindow(s, m) /\ op = Direction(job[s])
  BY DEF SessionInv, Knows, WaitingKnown
<1>3. InWindow(s, m) =>
        IF LogAutocommit THEN last_log[m] = Direction(job[s])
        ELSE <<m, Direction(job[s])>> \in uncommitted[s]
  BY DEF SessionInv, Knows, WindowKnown
<1>4. CASE \E op \in Operations : <<m, op>> \in uncommitted[s]
  <2> DEFINE op == CHOOSE o \in Operations : <<m, o>> \in uncommitted[s]
  <2>1. op \in Operations /\ <<m, op>> \in uncommitted[s]
    BY <1>4
  <2>2. Committed(s)[m] = op
    BY <1>1, <1>4 DEF Committed
  <2> HIDE DEF op
  <2> QED
    BY <1>2, <2>1, <2>2
<1>5. CASE ~ \E op \in Operations : <<m, op>> \in uncommitted[s]
  <2>1. Committed(s)[m] = last_log[m]
    BY <1>1, <1>5 DEF Committed
  <2> QED
    BY <1>1, <1>3, <1>5, <2>1
<1> QED
  BY <1>4, <1>5

\* The commit of the row closes it.
LEMMA WriteTableKeeps ==
  ASSUME RowHeld, SessionInv, NEW s \in Backends, WriteTable(s)
  PROVE  SessionInv'
<1>1. pc[s] = "holding" /\ Processing(s, "table")
  BY BodyIsHolding DEF WriteTable, Processing, At
<1>2. SetJob(s, Advanced(job[s]))
  BY DEF WriteTable
<1>3. pc' = pc /\ effect' = effect /\ interrupted' = interrupted \ {Current(s)}
  BY DEF WriteTable, lockVars
<1>4. /\ uncommitted' = [t \in Backends |-> uncommitted'[t]]
      /\ uncommitted'[s] = {}
      /\ \A t \in Backends : t # s => uncommitted'[t] = uncommitted[t]
      /\ last_log' = [m \in Scripts |-> last_log'[m]]
  BY DEF WriteTable, Committed, Uncommitted, SessionInv, Shape
<1>5. \A m \in Migrations :
        /\ InWindow(s, m) <=> job[s].stage # "hooks" /\ m = Current(s)
        /\ m = Current(s) => InWindow(s, m)
        /\ last_log'[m] = IF m = Current(s) THEN Direction(job[s])
                          ELSE last_log[m]
  <2> TAKE m \in Migrations
  <2>1. InWindow(s, m) <=> job[s].stage # "hooks" /\ m = Current(s)
    BY <1>1 DEF InWindow
  <2>2. m = Current(s) => job[s].stage # "hooks"
    BY CurrentHook
  <2>3. last_log'[m] = IF InWindow(s, m) THEN Direction(job[s])
                       ELSE last_log[m]
    BY <1>1, LogOfWindow DEF WriteTable, Processing
  <2> QED
    BY <2>1, <2>2, <2>3
<1>6. \A m \in Migrations :
        (m \in applied') = IF m = Current(s) THEN job[s].stage # "rollback"
                           ELSE m \in applied
  BY DEF WriteTable
<1>7. Shape'
  BY <1>2, <1>3, <1>4, NextScript DEF SessionInv, Shape
<1>8. \A t \in Backends : t # s => Knows(t)'
  BY <1>1, <1>2, <1>3, <1>4, NextScript, OthersKnow
<1>9. Knows(s)'
  <2>1. StageKnown(s)' /\ \A m : ~InWindow(s, m)'
    BY <1>2, NextScript
  <2>2. NoJobOutside(s)' /\ WindowKnown(s)' /\ WaitingKnown(s)'
    BY <1>1, <1>3, <1>4, <2>1 DEF NoJobOutside, WindowKnown, WaitingKnown
  <2> QED
    BY <2>1, <2>2 DEF Knows
<1>10. \A m \in Migrations, t \in Backends :
         InWindow(t, m) => m = Current(s)
  BY <1>1, <1>5, Alone
<1>11. \A m \in Migrations : m = Current(s) =>
         /\ (m \in applied') = (m \in effect')
         /\ (m \in applied') = (last_log'[m] \in {"apply", "mark"})
  <2> TAKE m \in Migrations
  <2>1. m = Current(s) => (m \in effect) = (job[s].stage # "rollback")
    BY <1>5 DEF SessionInv, Knows, WindowKnown
  <2> QED
    BY <1>3, <1>5, <1>6, <2>1 DEF Direction
<1>12. EffectMatchesTable'
  BY <1>3, <1>5, <1>6, <1>10, <1>11 DEF SessionInv, EffectMatchesTable
<1>13. AuditTrail'
  BY <1>3, <1>5, <1>6, <1>10, <1>11 DEF SessionInv, AuditTrail
<1> QED
  BY <1>7, <1>8, <1>9, <1>12, <1>13 DEF SessionInv

\* mark and unmark are done with all migrations at once.
LEMMA DoneJob ==
  ASSUME SessionInv, NEW s \in Backends, job[s].stage \in {"mark", "unmark"},
         SetJob(s, [job[s] EXCEPT !.stage = "done", !.todo = <<>>])
  PROVE  /\ job' = [t \in Backends |-> job'[t]]
         /\ \A t \in Backends : IsJob(job'[t])
         /\ \A t \in Backends : t # s => job'[t] = job[t]
         /\ \A m : ~InWindow(s, m) /\ ~InWindow(s, m)'
         /\ StageKnown(s)'
<1> DEFINE j == [job[s] EXCEPT !.stage = "done", !.todo = <<>>]
<1>1. IsJob(job[s]) /\ job[s].step = "steps"
  BY DEF SessionInv, Shape, Knows, StageKnown
<1>2. IsJob(j) /\ j.step = "steps" /\ j.stage = "done"
  <2> DEFINE r == job[s]
  <2>1. j = [r EXCEPT !.stage = "done", !.todo = <<>>]
    OBVIOUS
  <2>2. IsJob(r) /\ r.step = "steps"
    BY <1>1
  <2> HIDE DEF j, r
  <2> QED
    BY <2>1, <2>2 DEF IsJob
<1>3. SetJob(s, j)
  OBVIOUS
<1> HIDE DEF j
<1>4. /\ job' = [t \in Backends |-> job'[t]]
      /\ \A t \in Backends : IsJob(job'[t])
      /\ \A t \in Backends : t # s => job'[t] = job[t]
      /\ job'[s] = j
  BY <1>2, <1>3, SetJobKeepsShape DEF SessionInv, Shape
<1>5. \A m : ~InWindow(s, m) /\ ~InWindow(s, m)'
  BY <1>1, <1>2, <1>4 DEF InWindow, Processing
<1>6. StageKnown(s)'
  BY <1>2, <1>4 DEF StageKnown
<1> QED
  BY <1>4, <1>5, <1>6

\* mark and unmark write the table and the log in one transaction.
LEMMA MarkOrUnmark ==
  ASSUME RowHeld, SessionInv, NEW s \in Backends,
         At(s, {"mark", "unmark"}),
         SetJob(s, [job[s] EXCEPT !.stage = "done", !.todo = <<>>]),
         UNCHANGED <<lockVars, effect, uncommitted, interrupted>>,
         NEW op \in {"mark", "unmark"}, NEW S,
         applied' = IF op = "mark" THEN applied \cup S ELSE applied \ S,
         last_log' = [m \in Scripts |-> IF m \in S THEN op ELSE last_log[m]]
  PROVE  SessionInv'
<1>1. pc[s] = "holding" /\ job[s].stage \in {"mark", "unmark"}
  BY BodyIsHolding DEF At
<1>2. pc' = pc /\ effect' = effect /\ uncommitted' = uncommitted
      /\ interrupted' = interrupted
  BY DEF lockVars
<1>3. \A m \in Migrations :
        /\ last_log'[m] = IF m \in S THEN op ELSE last_log[m]
        /\ (m \in applied') = IF m \in S THEN op = "mark" ELSE m \in applied
  BY DEF Scripts
<1>4. Shape'
  BY <1>1, <1>2, DoneJob DEF SessionInv, Shape
<1>5. \A t \in Backends : t # s => Knows(t)'
  BY <1>1, <1>2, DoneJob, OthersKnow
<1>6. \A m : ~InWindow(s, m) /\ ~InWindow(s, m)'
  BY <1>1, DoneJob
<1>7. Knows(s)'
  <2>1. \A m \in Migrations, o \in Operations : <<m, o>> \notin uncommitted[s]
    BY <1>1, <1>6, NoWindow
  <2>2. NoJobOutside(s)' /\ WindowKnown(s)' /\ WaitingKnown(s)'
    BY <1>1, <1>2, <1>6, <2>1 DEF NoJobOutside, WindowKnown, WaitingKnown
  <2> QED
    BY <1>1, <2>2, DoneJob DEF Knows
<1>8. EffectMatchesTable' /\ AuditTrail'
  <2>1. \A m \in Migrations, t \in Backends : ~InWindow(t, m)
    BY <1>1, <1>6, NoWindow
  <2> QED
    BY <1>2, <1>3, <2>1 DEF SessionInv, EffectMatchesTable, AuditTrail
<1> QED
  BY <1>4, <1>5, <1>7, <1>8 DEF SessionInv

LEMMA MarkAllKeeps ==
  ASSUME RowHeld, SessionInv, NEW s \in Backends, MarkAll(s)
  PROVE  SessionInv'
<1>1. At(s, {"mark", "unmark"})
  BY DEF MarkAll, At
<1> QED
  BY <1>1, MarkOrUnmark DEF MarkAll

LEMMA UnmarkAllKeeps ==
  ASSUME RowHeld, SessionInv, NEW s \in Backends, UnmarkAll(s)
  PROVE  SessionInv'
<1>1. At(s, {"mark", "unmark"})
  BY DEF UnmarkAll, At
<1> QED
  BY <1>1, MarkOrUnmark DEF UnmarkAll

-----------------------------------------------------------------------------
\* Steps outside the body: what changes is where the session is, and which
\* rows of the log are committed for migrations that were interrupted.
LEMMA OutsideStep ==
  ASSUME RowHeld, SessionInv, NEW s \in Backends, pc[s] # "holding",
         NEW label, pc' = [pc EXCEPT ![s] = label],
         job' = job,
         applied' = applied, effect' = effect, interrupted' = interrupted,
         NEW kept, Uncommitted(s, kept),
         kept \subseteq uncommitted[s], pc[s] = "deleting" => kept = {},
         last_log' = [m \in Scripts |-> last_log'[m]],
         \A m \in Migrations : \/ last_log'[m] = last_log[m]
                               \/ m \in interrupted /\ pc[s] = "deleting"
  PROVE  SessionInv'
<1>1. /\ pc' = [t \in Backends |-> pc'[t]]
      /\ \A t \in Backends : t # s => pc'[t] = pc[t]
  BY DEF SessionInv, Shape
<1>2. /\ uncommitted' = [t \in Backends |-> uncommitted'[t]]
      /\ uncommitted'[s] = kept
      /\ \A t \in Backends : t # s => uncommitted'[t] = uncommitted[t]
  BY DEF Uncommitted, SessionInv, Shape
<1>3. job[s] = NoJob /\ job[s].stage = "select" /\ job[s].step = "steps"
  BY DEF SessionInv, Knows, NoJobOutside, NoJob
<1>4. \A m : ~InWindow(s, m) /\ ~InWindow(s, m)'
  BY <1>3 DEF InWindow, Processing
<1>5. \A t \in Backends : \A m : t # s =>
        /\ InWindow(t, m)' <=> InWindow(t, m)
        /\ InWindow(t, m) => pc[t] = "holding"
  BY <1>1, BodyIsHolding DEF InWindow, Processing, At, Current, Lock!InBody
<1>6. Shape'
  BY <1>1, <1>2 DEF SessionInv, Shape
<1>7. \A t \in Backends : t # s => Knows(t)'
  <2> SUFFICES ASSUME NEW t \in Backends, t # s PROVE Knows(t)'
    OBVIOUS
  <2>1. \A m \in Migrations : InWindow(t, m) => last_log'[m] = last_log[m]
    BY <1>5, Alone
  <2>2. Knows(t)
    BY DEF SessionInv
  <2> QED
    BY <1>1, <1>2, <2>1, <2>2, Frame
<1>8. Knows(s)'
  <2>1. StageKnown(s)' /\ NoJobOutside(s)'
    BY <1>3 DEF StageKnown, NoJobOutside
  <2>2. WindowKnown(s)'
    BY <1>4 DEF WindowKnown
  <2>3. \A m \in Migrations, op \in Operations : <<m, op>> \notin kept
    BY <1>4 DEF SessionInv, Knows, WaitingKnown
  <2>4. WaitingKnown(s)'
    BY <1>2, <2>3 DEF WaitingKnown
  <2> QED
    BY <2>1, <2>2, <2>4 DEF Knows
<1>9. EffectMatchesTable' /\ AuditTrail'
  BY <1>4, <1>5 DEF SessionInv, EffectMatchesTable, AuditTrail
<1> QED
  BY <1>6, <1>7, <1>8, <1>9 DEF SessionInv

\* Waiting for the lock changes nothing that a session knows.
LEMMA WaitKeeps ==
  ASSUME RowHeld, SessionInv, NEW s \in Backends, Start(s) \/ WaitForLock(s)
  PROVE  SessionInv'
<1>1. pc[s] \notin {"holding", "deleting"}
  BY DEF Start, WaitForLock, Lock!CallLock, Lock!Poll, Lock!InsertLockRow,
         Lock!PollAgain, Lock!LockTimeout
<1>2. PICK label : pc' = [pc EXCEPT ![s] = label]
  <2>1. CASE pc' = pc
    <3>1. pc' = [pc EXCEPT ![s] = pc[s]]
      BY <2>1 DEF SessionInv, Shape
    <3> QED
      BY <3>1
  <2>2. CASE pc' # pc
    BY <2>2 DEF Start, WaitForLock, Lock!CallLock, Lock!Poll, Lock!Goto,
                Lock!InsertLockRow, Lock!PollAgain, Lock!LockTimeout
  <2> QED
    BY <2>1, <2>2
<1>3. UNCHANGED <<applied, last_log, effect, uncommitted, job, interrupted>>
  BY DEF Start, WaitForLock, dataVars
<1>4. Uncommitted(s, uncommitted[s])
  BY <1>3 DEF Uncommitted, SessionInv, Shape
<1>5. last_log' = [m \in Scripts |-> last_log'[m]]
  BY <1>3 DEF SessionInv, Shape
<1>6. uncommitted[s] \subseteq uncommitted[s]
  OBVIOUS
<1>7. \A m \in Migrations : last_log'[m] = last_log[m]
  BY <1>3
<1>8. /\ job' = job /\ applied' = applied /\ effect' = effect
      /\ interrupted' = interrupted
  BY <1>3
<1>9. pc[s] # "holding" /\ (pc[s] = "deleting" => uncommitted[s] = {})
  BY <1>1
<1> QED
  BY <1>2, <1>4, <1>5, <1>6, <1>7, <1>8, <1>9, OutsideStep

\* The DELETE commits log rows of interrupted migrations at most.
LEMMA ReleaseKeeps ==
  ASSUME RowHeld, SessionInv, NEW s \in Backends,
         Release(s) \/ FailToRelease(s)
  PROVE  SessionInv'
<1>1. pc[s] = "deleting"
  BY DEF Release, FailToRelease, Lock!DeleteLockRow, Lock!DeleteFails
<1>2. PICK label : pc' = [pc EXCEPT ![s] = label]
  BY DEF Release, FailToRelease, Lock!DeleteLockRow, Lock!DeleteFails, Lock!Goto
<1>3. /\ UNCHANGED <<applied, effect, job, interrupted>>
      /\ Uncommitted(s, {})
  BY DEF Release, FailToRelease, dataVars
<1>4. last_log' = [m \in Scripts |-> last_log'[m]]
  BY DEF Release, FailToRelease, Committed, dataVars, SessionInv, Shape
<1>5. \A m \in Migrations : last_log'[m] = last_log[m] \/ m \in interrupted
  <2>1. job[s].step = "steps"
    BY <1>1 DEF SessionInv, Knows, NoJobOutside, NoJob
  <2>2. \A m \in Migrations, op \in Operations :
          <<m, op>> \in uncommitted[s] => m \in interrupted
    BY <2>1 DEF SessionInv, Knows, WaitingKnown
  <2>3. CASE Release(s)
    BY <2>2, <2>3 DEF Release, Committed, Scripts
  <2>4. CASE FailToRelease(s)
    BY <2>4 DEF FailToRelease, dataVars
  <2> QED
    BY <2>3, <2>4
<1> QED
  BY <1>1, <1>2, <1>3, <1>4, <1>5, OutsideStep

\* A crash does what an exception does, and leaves no log row behind.
LEMMA CrashKeeps ==
  ASSUME RowHeld, SessionInv, NEW s \in Backends, Crash(s)
  PROVE  SessionInv'
<1>1. /\ pc' = [pc EXCEPT ![s] = "crashed"]
      /\ SetJob(s, NoJob) /\ Uncommitted(s, {})
      /\ interrupted' = interrupted \cup {m \in Migrations : InWindow(s, m)}
      /\ applied' = applied
      /\ last_log' \in LogLeft(s)
      /\ effect' \in Partly(s)
  BY DEF Crash, Lock!Crash, Lock!Goto, Abandon
<1>2. CASE pc[s] = "holding"
  <2>1. \A m \in Atomic : (m \in effect') = (m \in effect)
    BY <1>1 DEF Partly
  <2>2. {} \subseteq uncommitted[s]
    OBVIOUS
  <2>3. /\ \A m \in Migrations : last_log'[m] = last_log[m]
        /\ last_log' = [m \in Scripts |-> last_log'[m]]
    BY <1>1, WaitingAreHooks DEF LogLeft, SessionInv, Shape
  <2> QED
    BY <1>1, <1>2, <2>1, <2>2, <2>3, LeaveBody
<1>3. CASE pc[s] # "holding"
  <2>1. ~Lock!InBody(s)
    BY <1>3, BodyIsHolding
  <2>2. effect' = effect /\ interrupted' = interrupted /\ last_log' = last_log
    BY <1>1, <2>1 DEF Partly, LogLeft, InWindow, Processing, At
  <2>3. job' = job
    BY <1>1, <1>3 DEF SetJob, SessionInv, Shape, Knows, NoJobOutside
  <2>4. last_log' = [m \in Scripts |-> last_log'[m]]
    BY <2>2 DEF SessionInv, Shape
  <2>5. {} \subseteq uncommitted[s]
    OBVIOUS
  <2>6. /\ applied' = applied
        /\ \A m \in Migrations : last_log'[m] = last_log[m]
    BY <1>1, <2>2
  <2>7. pc' = [pc EXCEPT ![s] = "crashed"] /\ Uncommitted(s, {})
    BY <1>1
  <2> QED
    BY <1>3, <2>2, <2>3, <2>4, <2>5, <2>6, <2>7, OutsideStep
<1> QED
  BY <1>2, <1>3

\* SessionInv is inductive, relative to the lock.
LEMMA StepKeepsSessionInv ==
  ASSUME RowHeld, SessionInv, [Next]_vars
  PROVE  SessionInv'
<1>1. CASE \E s \in Backends : SessionStep(s)
  <2> PICK s \in Backends : SessionStep(s)
    BY <1>1
  <2>1. CASE Work(s)
    BY <2>1, SelectKeeps, SkipBrokenKeeps, CommitStepsKeeps, FailStepsKeeps,
       WriteLogOfHook, WriteLogOfMigration, WriteTableKeeps, MarkAllKeeps,
       UnmarkAllKeeps, ReselectKeeps, RaiseKeeps, FinishKeeps
    DEF Work
  <2>2. CASE ~Work(s)
    BY <2>2, WaitKeeps, ReleaseKeeps, CrashKeeps DEF SessionStep
  <2> QED
    BY <2>1, <2>2
<1>2. CASE BreakLock \/ UNCHANGED vars
  <2>1. UNCHANGED <<pc, dataVars, uncommitted, job, interrupted>>
    BY <1>2 DEF BreakLock, Lock!BreakLock, vars, lockVars
  <2>2. \A t \in Backends : \A m : InWindow(t, m)' <=> InWindow(t, m)
    BY <2>1 DEF InWindow, Processing, At, Current, Lock!InBody
  <2>3. \A t \in Backends : Knows(t)'
    BY <2>1, Frame DEF SessionInv, dataVars
  <2>4. EffectMatchesTable' /\ AuditTrail'
    BY <2>1, <2>2 DEF SessionInv, EffectMatchesTable, AuditTrail, dataVars
  <2>5. Shape'
    BY <2>1 DEF SessionInv, Shape, dataVars
  <2> QED
    BY <2>3, <2>4, <2>5 DEF SessionInv
<1> QED
  BY <1>1, <1>2 DEF Next

LEMMA InitSessionInv == Init => SessionInv
<1> SUFFICES ASSUME Init PROVE SessionInv
  OBVIOUS
<1>1. IsJob(NoJob) /\ NoJob.stage = "select" /\ NoJob.step = "steps"
  BY DEF IsJob, NoJob
<1>2. \A s \in Backends : job[s] = NoJob /\ uncommitted[s] = {}
  BY DEF Init
<1>3. Shape
  BY <1>1, <1>2 DEF Init, Lock!Init, Shape
<1>4. \A s \in Backends : \A m : ~InWindow(s, m)
  BY <1>1, <1>2 DEF InWindow, Processing
<1>5. \A s \in Backends : Knows(s)
  BY <1>1, <1>2, <1>4
  DEF Knows, StageKnown, NoJobOutside, WindowKnown, WaitingKnown
<1>6. EffectMatchesTable
  BY DEF Init, EffectMatchesTable
<1>7. AuditTrail
  BY DEF Init, AuditTrail, Scripts
<1> QED
  BY <1>3, <1>5, <1>6, <1>7 DEF SessionInv

LEMMA RowIsHeld ==
  ASSUME BreakPolicy # "any"
  PROVE  Spec => []RowHeld
<1>1. LockFacts!LockInv => RowHeld
  BY DEF LockFacts!LockInv, LockFacts!OwnsRow, LockFacts!NeverBorrows,
         LockFacts!HasInserted, RowHeld
<1> QED
  BY <1>1, LockInvHolds, PTL

LEMMA SessionInvHolds ==
  ASSUME BreakPolicy # "any"
  PROVE  Spec => []SessionInv
<1>1. RowHeld /\ SessionInv /\ [Next]_vars => SessionInv'
  BY StepKeepsSessionInv
<1> QED
  BY <1>1, InitSessionInv, RowIsHeld, PTL DEF Spec

\* For any number of processes, commands and migrations, wherever they raise
\* or die: the table of applied migrations tells which atomic migrations are in
\* the database, but for the window between the two commits and what a session
\* left behind in it.
THEOREM EffectMatchesTableHolds ==
  ASSUME BreakPolicy # "any"
  PROVE  Spec => []EffectMatchesTable
<1>1. SessionInv => EffectMatchesTable
  BY DEF SessionInv
<1> QED
  BY <1>1, SessionInvHolds, PTL

\* Likewise the log and the table agree, on databases where the row of the log
\* is durable at once and on those where it waits for the next commit.
THEOREM AuditTrailHolds ==
  ASSUME BreakPolicy # "any"
  PROVE  Spec => []AuditTrail
<1>1. SessionInv => AuditTrail
  BY DEF SessionInv
<1> QED
  BY <1>1, SessionInvHolds, PTL

\* At most one command is in the body of its lock() block.
THEOREM CommandsExclude ==
  ASSUME BreakPolicy # "any"
  PROVE  Spec => []Lock!NoConcurrentMigrations
<1>1. RowHeld => Lock!NoConcurrentMigrations
  BY DEF RowHeld, Lock!NoConcurrentMigrations, Lock!InBody
<1> QED
  BY <1>1, RowIsHeld, PTL

\* A step of a session that writes is one by which it gets on with its command
\* or leaves it, and the row of the lock is its own.
LEMMA WriterHasRow ==
  ASSUME RowHeld, Shape, NEW s \in Backends, SessionStep(s),
         dataVars' # dataVars
  PROVE  lock_table = s /\ <<pc[s], job[s]>>' # <<pc[s], job[s]>>
<1>1. \A stages : At(s, stages) => lock_table = s
  BY BodyIsHolding DEF RowHeld, At
<1>2. \A j : SetJob(s, j) => job'[s] = j
  BY DEF SetJob, Shape
<1>3. \A label : Lock!Goto(s, label) => pc'[s] = label
  BY DEF Lock!Goto, Shape
<1>4. IsJob(job[s])
  BY DEF Shape
<1>5. CASE CommitSteps(s)
  <2>1. job'[s].step = "log"
    BY <1>2, <1>4, <1>5 DEF CommitSteps, IsJob
  <2>2. lock_table = s /\ job[s].step = "steps"
    BY <1>1, <1>5 DEF CommitSteps, Processing
  <2> QED
    BY <2>1, <2>2
<1>6. CASE WriteLog(s) \/ WriteTable(s)
  <2>1. lock_table = s /\ job[s].step \in {"log", "table"}
    BY <1>1, <1>6 DEF WriteLog, WriteTable, Processing
  <2>2. Advanced(job[s]).step = "steps"
    BY <1>4, AdvancedJob
  <2>3. WriteLog(s) => job[s].step = "log"
    BY DEF WriteLog, Processing
  <2>4. [job[s] EXCEPT !.step = "table"].step = "table"
    BY <1>4 DEF IsJob
  <2>5. job'[s].step # job[s].step
    <3>1. CASE WriteTable(s)
      <4>1. job'[s] = Advanced(job[s])
        BY <1>2, <3>1 DEF WriteTable
      <4> QED
        BY <2>1, <2>2, <4>1
    <3>2. CASE WriteLog(s)
      <4>1. \/ job'[s] = Advanced(job[s])
            \/ job'[s] = [job[s] EXCEPT !.step = "table"]
        BY <1>2, <3>2 DEF WriteLog
      <4> QED
        BY <2>2, <2>3, <2>4, <3>2, <4>1
    <3> QED
      BY <1>6, <3>1, <3>2
  <2> QED
    BY <2>1, <2>5
<1>7. CASE MarkAll(s) \/ UnmarkAll(s)
  <2>1. lock_table = s /\ job[s].stage # "done"
    BY <1>1, <1>7 DEF MarkAll, UnmarkAll, At
  <2>2. job'[s] = [job[s] EXCEPT !.stage = "done", !.todo = <<>>]
    BY <1>2, <1>7 DEF MarkAll, UnmarkAll
  <2>3. job'[s].stage = "done"
    BY <1>4, <2>2 DEF IsJob
  <2> QED
    BY <2>1, <2>3
<1>8. CASE FailSteps(s)
  <2>1. lock_table = s /\ pc[s] = "holding"
    BY <1>1, <1>8, BodyIsHolding DEF FailSteps, Processing, At
  <2>2. pc'[s] = "deleting"
    BY <1>3, <1>8, <2>1 DEF FailSteps, Lock!BodyRaises
  <2> QED
    BY <2>1, <2>2
<1>9. CASE Release(s)
  <2>1. lock_table = s /\ pc[s] = "deleting"
    BY <1>9 DEF Release, Lock!DeleteLockRow, RowHeld
  <2>2. pc'[s] \in {"ended", "idle"}
    BY <1>3, <1>9 DEF Release, Lock!DeleteLockRow, Lock!AfterRaise
  <2> QED
    BY <2>1, <2>2
<1>10. CASE Crash(s)
  <2>1. Lock!InBody(s)
    BY <1>10 DEF Crash, Partly, LogLeft, Processing, At, dataVars
  <2>2. lock_table = s /\ pc[s] = "holding"
    BY <2>1, BodyIsHolding DEF RowHeld
  <2>3. pc'[s] = "crashed"
    BY <1>3, <1>10 DEF Crash, Lock!Crash
  <2> QED
    BY <2>2, <2>3
<1> QED
  BY <1>5, <1>6, <1>7, <1>8, <1>9, <1>10
  DEF SessionStep, Work, Start, WaitForLock, Select, SkipBroken, Reselect,
      Raise, Finish, FailToRelease

\* While live locks stay unbroken nothing is written but by the session whose
\* row is in the lock table, for any processes, migrations and commands: also
\* not the rows of the log that the connection commits later.
THEOREM WritesUnderLockHolds ==
  ASSUME BreakPolicy # "any"
  PROVE  Spec => WritesUnderLock
<1>1. RowHeld /\ SessionInv /\ [Next]_vars =>
        [dataVars' # dataVars =>
           \E s \in Backends :
             lock_table = s /\ <<pc[s], job[s]>>' # <<pc[s], job[s]>>]_vars
  <2> SUFFICES ASSUME RowHeld, SessionInv, Next, dataVars' # dataVars
               PROVE  \E s \in Backends :
                        /\ lock_table = s
                        /\ <<pc[s], job[s]>>' # <<pc[s], job[s]>>
    OBVIOUS
  <2>1. PICK s \in Backends : SessionStep(s)
    BY DEF Next, BreakLock
  <2> QED
    BY <2>1, WriterHasRow DEF SessionInv
<1> QED
  BY <1>1, RowIsHeld, SessionInvHolds, PTL DEF Spec, WritesUnderLock

-----------------------------------------------------------------------------
(***************************************************************************)
(* What the jobs look like.                                                *)
(***************************************************************************)
Kinds == Operations \cup {"reapply", "none"}

Jobs == [kind : Kinds, stage : Stages, step : {"steps", "log", "table"},
         todo : Seq(Scripts), again : Seq(Migrations)]

\* A migration that nothing is related to is before another one in the list
\* only if it is in the order of the files.
KeepsFileOrder(list) ==
  \A x \in Unrelated, y \in Migrations :
    Precedes(list, x, y) => Precedes(Files, x, y)

\* The lists are of migrations, each once, but for the hooks behind an apply;
\* there is a script where one is processed, and a row of the table is written
\* for migrations only.
JobKnown(j) ==
  /\ j \in Jobs
  /\ IsInjective(j.again)
  /\ j.stage # "hooks" => j.todo \in Seq(Migrations) /\ IsInjective(j.todo)
  /\ j.stage \in {"rollback", "apply", "hooks"} => j.todo # <<>>
  /\ j.step = "table" => j.stage \in {"rollback", "apply"}
  /\ j.stage = "reselect" => j.kind = "reapply"
  /\ j.stage = "apply" /\ j.kind = "apply" => KeepsFileOrder(j.todo)

JobsKnown ==
  /\ job = [s \in Backends |-> job[s]]
  /\ \A s \in Backends : JobKnown(job[s])

DataType ==
  /\ applied \subseteq Migrations
  /\ last_log \in [Scripts -> Operations \cup {"none"}]
  /\ effect \subseteq Scripts
  /\ uncommitted \in [Backends -> SUBSET (Scripts \X Operations)]
  /\ interrupted \subseteq Migrations

LEMMA GraphOfFiles ==
  /\ IsGraph(Depends, Migrations)
  /\ Files \in Seq(Migrations) /\ IsInjective(Files)
  /\ ToSet(Files) = Migrations
  /\ Acyclic(Depends, Migrations)
<1>1. /\ IsGraph(Depends, Migrations)
      /\ Files \in Seq(Migrations) /\ IsInjective(Files)
      /\ ToSet(Files) = Migrations
  BY SessionAssumption DEF IsGraph, Migrations
<1>2. ~Circular(Depends, Files)
  BY SessionAssumption
<1>3. Acyclic(Depends, ToSet(Files))
  BY <1>1, <1>2, NotCircular
<1> QED
  BY <1>1, <1>3

\* A part of the files has no relations that the files do not have.
LEMMA FewerEdges ==
  ASSUME NEW list \in Seq(Migrations), NEW m \in InGraph(Depends, list)
  PROVE  m \notin Unrelated
<1>1. ToSet(list) \subseteq Migrations /\ m \in ToSet(list)
  BY MembersOfSeq DEF InGraph
<1>2. CASE Preds(Depends, list, m) # {}
  <2>1. PICK p \in ToSet(list) : p \in Depends[m]
    BY <1>2 DEF Preds
  <2>2. m \in InGraph(Depends, Files)
    BY <1>1, <2>1, GraphOfFiles, EdgeInGraph
  <2> QED
    BY <2>2 DEF Unrelated
<1>3. CASE Succs(Depends, list, m) # <<>>
  <2> DEFINE P == {x \in ToSet(list) : m \in Depends[x]}
  <2>1. Only(list, P) \in Seq(ToSet(list) \cap P) /\ Only(list, P) # <<>>
    <3>1. Only(list, P) # <<>>
      BY <1>3 DEF Succs
    <3> HIDE DEF P
    <3> QED
      BY <3>1, OnlyMembers
  <2>2. Head(Only(list, P)) \in ToSet(list) \cap P
    <3> HIDE DEF P
    <3> QED
      BY <2>1, HeadTailMembers
  <2>3. PICK x \in ToSet(list) : m \in Depends[x]
    BY <2>2
  <2>4. m \in InGraph(Depends, Files)
    BY <1>1, <2>3, GraphOfFiles, EdgeInGraph
  <2> QED
    BY <2>4 DEF Unrelated
<1> QED
  BY <1>2, <1>3 DEF InGraph

-----------------------------------------------------------------------------
(* The lists that get_migrations makes.                                    *)

\* todo is a part of list, in the same order.
PartOf(todo, list) ==
  /\ todo \in Seq(Migrations) /\ IsInjective(todo)
  /\ ToSet(todo) \subseteq ToSet(list)
  /\ \A x, y : Precedes(todo, x, y) => Precedes(list, x, y)

LEMMA OnlyIsPart ==
  ASSUME NEW list \in Seq(Migrations), IsInjective(list), NEW P
  PROVE  PartOf(Only(list, P), list)
<1>1. /\ Only(list, P) \in Seq(ToSet(list) \cap P)
      /\ ToSet(Only(list, P)) = ToSet(list) \cap P
      /\ \A x, y : Precedes(Only(list, P), x, y) <=>
                     Precedes(list, x, y) /\ x \in P /\ y \in P
      /\ IsInjective(Only(list, P))
  BY OnlyMembers
<1>2. ToSet(list) \cap P \subseteq Migrations
  BY MembersOfSeq
<1>3. Only(list, P) \in Seq(Migrations)
  BY <1>1, <1>2
<1> QED
  BY <1>1, <1>3 DEF PartOf

LEMMA CandidateList ==
  ASSUME NEW cmd \in Commands
  PROVE  PartOf(Candidates(cmd), Files)
<1>1. PartOf(Files, Files)
  BY GraphOfFiles DEF PartOf
<1> DEFINE P == {m \in Migrations : Forward(cmd) <=> m \notin applied}
<1>2. PartOf(Only(Files, P), Files)
  <2> HIDE DEF P
  <2> QED
    BY GraphOfFiles, OnlyIsPart
<1> QED
  BY <1>1, <1>2 DEF Candidates

\* What sorting makes of a part of the files.
LEMMA SortedPart ==
  ASSUME NEW list, PartOf(list, Files),
         NEW sorted \in TopologicalSorts(Depends, list)
  PROVE  /\ sorted \in Seq(Migrations) /\ IsInjective(sorted)
         /\ ToSet(sorted) = ToSet(list)
         /\ \A m \in ToSet(sorted) : \A d \in Depends[m] \cap ToSet(list) :
              Precedes(sorted, d, m)
         /\ KeepsFileOrder(sorted)
<1>1. /\ list \in Seq(Migrations) /\ IsInjective(list)
      /\ ToSet(list) \subseteq Migrations
  BY MembersOfSeq DEF PartOf
<1>2. Acyclic(Depends, ToSet(list))
  BY <1>1, GraphOfFiles, PartIsAcyclic
<1>3. /\ sorted \in Seq(ToSet(list))
      /\ IsInjective(sorted)
      /\ \A m \in ToSet(sorted) : \A p \in Depends[m] \cap ToSet(list) :
           Precedes(sorted, p, m)
      /\ \A x, y : Precedes(sorted, x, y) /\ x \notin InGraph(Depends, list) =>
           Precedes(list, x, y)
      /\ ToSet(sorted) = ToSet(list)
  BY <1>1, <1>2, GraphOfFiles, SortedList
<1>4. sorted \in Seq(Migrations)
  BY <1>1, <1>3
<1>5. KeepsFileOrder(sorted)
  BY <1>1, <1>3, FewerEdges DEF KeepsFileOrder, PartOf
<1> QED
  BY <1>3, <1>4, <1>5

LEMMA ListedList ==
  ASSUME NEW cmd \in Commands, NEW listed \in Listed(cmd)
  PROVE  /\ listed \in Seq(Migrations) /\ IsInjective(listed)
         /\ ToSet(listed) = ToSet(Candidates(cmd))
         /\ Forward(cmd) => KeepsFileOrder(listed)
<1>1. CASE cmd.all
  <2>1. listed = Files /\ Candidates(cmd) = Files
    BY <1>1 DEF Listed, Candidates
  <2> QED
    BY <2>1, GraphOfFiles DEF KeepsFileOrder
<1>2. CASE ~cmd.all /\ Forward(cmd)
  <2>1. listed \in TopologicalSorts(Depends, Candidates(cmd))
    BY <1>2 DEF Listed
  <2> QED
    BY <2>1, CandidateList, SortedPart
<1>3. CASE ~cmd.all /\ ~Forward(cmd)
  <2>1. PICK sorted \in TopologicalSorts(Depends, Candidates(cmd)) :
          listed = Reverse(sorted)
    BY <1>3 DEF Listed
  <2>2. sorted \in Seq(Migrations) /\ IsInjective(sorted)
        /\ ToSet(sorted) = ToSet(Candidates(cmd))
    BY <2>1, CandidateList, SortedPart
  <2>3. /\ listed \in Seq(Migrations)
        /\ ToSet(listed) = ToSet(sorted)
        /\ \A x, y : Precedes(listed, x, y) <=> Precedes(sorted, y, x)
    BY <2>1, <2>2, ReverseMembers
  <2>4. IsInjective(listed)
    BY <2>2, <2>3, InjectivePrecedes
  <2> QED
    BY <1>3, <2>2, <2>3, <2>4
<1> QED
  BY <1>1, <1>2, <1>3

LEMMA RevisionPart ==
  ASSUME NEW cmd, NEW list \in Seq(Migrations), IsInjective(list)
  PROVE  PartOf(OfRevision(cmd, list), list)
<1>1. PartOf(list, list)
  BY DEF PartOf
<1> QED
  BY <1>1, OnlyIsPart DEF OfRevision

LEMMA ChosenPart ==
  ASSUME NEW cmd, NEW list, NEW big, PartOf(list, big),
         NEW todo \in Chosen(cmd, list)
  PROVE  PartOf(todo, big)
<1>1. list \in Seq(Migrations) /\ IsInjective(list)
  BY DEF PartOf
<1>2. PartOf(todo, list)
  <2>1. CASE todo = <<>>
    <3>1. <<>> \in Seq(Migrations) /\ IsInjective(<<>>) /\ ToSet(<<>>) = {}
      BY DEF IsInjective, ToSet
    <3>2. \A x, y : ~Precedes(<<>>, x, y)
      BY DEF Precedes
    <3> QED
      BY <2>1, <3>1, <3>2 DEF PartOf
  <2>2. CASE todo = list
    BY <1>1, <2>2 DEF PartOf
  <2>3. CASE \E S : todo = Only(list, S)
    BY <1>1, <2>3, OnlyIsPart
  <2>4. CASE list # <<>> /\ todo = <<Head(list)>>
    <3>1. Head(list) \in Migrations /\ Head(list) \in ToSet(list)
      BY <1>1, <2>4, HeadTailMembers
    <3>2. todo \in Seq(Migrations) /\ IsInjective(todo)
          /\ ToSet(todo) = {Head(list)}
      BY <2>4, <3>1 DEF IsInjective, ToSet
    <3>3. \A x, y : ~Precedes(todo, x, y)
      BY <2>4 DEF Precedes
    <3> QED
      BY <3>1, <3>2, <3>3 DEF PartOf
  <2> QED
    BY <2>1, <2>2, <2>3, <2>4 DEF Chosen, Prompted
<1> QED
  BY <1>2 DEF PartOf

\* What a command selects.
LEMMA SelectedList ==
  ASSUME NEW cmd \in Commands, NEW listed \in Listed(cmd),
         NEW todo \in Chosen(cmd, OfRevision(cmd, listed))
  PROVE  /\ todo \in Seq(Migrations) /\ IsInjective(todo)
         /\ ToSet(todo) \subseteq ToSet(Candidates(cmd))
         /\ Forward(cmd) => KeepsFileOrder(todo)
<1>1. /\ listed \in Seq(Migrations) /\ IsInjective(listed)
      /\ ToSet(listed) = ToSet(Candidates(cmd))
      /\ Forward(cmd) => KeepsFileOrder(listed)
  BY ListedList
<1>2. PartOf(OfRevision(cmd, listed), listed)
  BY <1>1, RevisionPart
<1>3. PartOf(todo, listed)
  BY <1>2, ChosenPart
<1> QED
  BY <1>1, <1>3 DEF PartOf, KeepsFileOrder

-----------------------------------------------------------------------------
(* Each step gives its session such a job again.                           *)

LEMMA NoJobKnown == JobKnown(NoJob)
<1>1. NoJob \in Jobs
  BY DEF NoJob, Jobs, Kinds, Stages
<1>2. <<>> \in Seq(Migrations) /\ IsInjective(<<>>)
  BY DEF IsInjective
<1> QED
  BY <1>1, <1>2 DEF NoJob, JobKnown

LEMMA AdvancedKnown ==
  ASSUME NEW j, JobKnown(j), j.stage \in {"rollback", "apply", "hooks"}
  PROVE  JobKnown(Advanced(j))
<1> DEFINE k == Advanced(j)
           rest == Tail(j.todo)
<1>1. /\ j \in Jobs /\ j.todo \in Seq(Scripts) /\ j.todo # <<>>
      /\ j.again \in Seq(Migrations) /\ IsInjective(j.again)
  BY DEF JobKnown, Jobs
<1>2. rest \in Seq(Scripts)
  BY <1>1, HeadTailMembers
<1>3. j.stage # "hooks" =>
        /\ rest \in Seq(Migrations) /\ IsInjective(rest)
        /\ \A x, y : Precedes(rest, x, y) => Precedes(j.todo, x, y)
  BY <1>1, HeadTailMembers, PrecedesTail DEF JobKnown
<1>4. CASE rest # <<>>
  <2>1. k = [j EXCEPT !.todo = rest, !.step = "steps"]
    BY <1>4 DEF Advanced
  <2>2. k \in Jobs /\ k.todo = rest /\ k.step = "steps" /\ k.stage = j.stage
        /\ k.kind = j.kind /\ k.again = j.again
    BY <1>1, <1>2, <2>1 DEF Jobs
  <2> HIDE DEF k, rest
  <2>3. k.stage = "apply" /\ k.kind = "apply" => KeepsFileOrder(k.todo)
    BY <1>3, <2>2 DEF JobKnown, KeepsFileOrder
  <2>4. JobKnown(k)
    BY <1>1, <1>3, <1>4, <2>2, <2>3 DEF JobKnown
  <2> QED
    BY <2>4 DEF k
<1>5. CASE rest = <<>> /\ j.stage = "apply" /\ Hooks # <<>>
  <2>1. k = [j EXCEPT !.todo = Hooks, !.step = "steps", !.stage = "hooks"]
    BY <1>5 DEF Advanced
  <2>2. Hooks \in Seq(Scripts)
    BY SessionAssumption DEF Scripts
  <2>3. k \in Jobs /\ k.todo = Hooks /\ k.step = "steps" /\ k.stage = "hooks"
        /\ k.again = j.again
    BY <1>1, <2>1, <2>2 DEF Jobs, Stages
  <2> HIDE DEF k, rest
  <2>4. JobKnown(k)
    BY <1>1, <1>5, <2>3 DEF JobKnown
  <2> QED
    BY <2>4 DEF k
<1>6. CASE rest = <<>> /\ ~(j.stage = "apply" /\ Hooks # <<>>)
  <2>1. k = [j EXCEPT !.todo = <<>>, !.step = "steps",
                      !.stage = IF @ = "rollback" /\ j.kind = "reapply"
                                THEN "reselect" ELSE "done"]
    BY <1>6 DEF Advanced
  <2>2. <<>> \in Seq(Migrations) /\ <<>> \in Seq(Scripts) /\ IsInjective(<<>>)
    BY DEF IsInjective
  <2>3. k \in Jobs /\ k.todo = <<>> /\ k.step = "steps"
        /\ k.again = j.again /\ k.kind = j.kind
        /\ k.stage = IF j.stage = "rollback" /\ j.kind = "reapply"
                     THEN "reselect" ELSE "done"
    BY <1>1, <2>1, <2>2 DEF Jobs, Stages
  <2> HIDE DEF k, rest
  <2>4. JobKnown(k)
    BY <1>1, <2>2, <2>3 DEF JobKnown
  <2> QED
    BY <2>4 DEF k
<1> QED
  BY <1>4, <1>5, <1>6

\* The job that get_migrations gives a session.
NewJob(cmd, todo) ==
  [kind  |-> cmd.kind,
   stage |-> IF todo = <<>> THEN "done"
             ELSE IF cmd.kind = "reapply" THEN "rollback" ELSE cmd.kind,
   step  |-> "steps",
   todo  |-> todo,
   again |-> IF cmd.kind = "reapply" THEN todo ELSE <<>>]

Selects(s, cmd, listed, todo) ==
  /\ CanSelect(cmd)
  /\ listed \in Listed(cmd)
  /\ todo \in Chosen(cmd, OfRevision(cmd, listed))
  /\ SetJob(s, NewJob(cmd, todo))

LEMMA SelectMakesJob ==
  ASSUME NEW s, Select(s)
  PROVE  \E cmd \in Commands : \E listed, todo : Selects(s, cmd, listed, todo)
<1>1. PICK cmd \in Commands :
        /\ CanSelect(cmd)
        /\ \E listed \in Listed(cmd) :
           \E todo \in Chosen(cmd, OfRevision(cmd, listed)) :
             SetJob(s, NewJob(cmd, todo))
  BY DEF Select, NewJob
<1> QED
  BY <1>1 DEF Selects

LEMMA SelectGivesJob ==
  ASSUME NEW s \in Backends, Select(s)
  PROVE  \E j : JobKnown(j) /\ SetJob(s, j)
<1>1. PICK cmd \in Commands : \E listed, todo : Selects(s, cmd, listed, todo)
  BY SelectMakesJob
<1>2. PICK listed, todo : Selects(s, cmd, listed, todo)
  BY <1>1
<1> DEFINE stage == IF todo = <<>> THEN "done"
                    ELSE IF cmd.kind = "reapply" THEN "rollback" ELSE cmd.kind
           again == IF cmd.kind = "reapply" THEN todo ELSE <<>>
           j == [kind |-> cmd.kind, stage |-> stage, step |-> "steps",
                 todo |-> todo, again |-> again]
<1>3. /\ todo \in Seq(Migrations) /\ IsInjective(todo)
      /\ Forward(cmd) => KeepsFileOrder(todo)
  BY <1>2, SelectedList DEF Selects
<1>4. cmd.kind \in Operations \cup {"reapply"}
  BY SessionAssumption
<1>5. stage \in Stages /\ cmd.kind \in Kinds
      /\ stage \in {"done", "rollback", "apply", "mark", "unmark"}
      /\ (stage \in {"rollback", "apply"} => todo # <<>>)
      /\ (stage = "apply" => Forward(cmd))
  BY <1>4 DEF Stages, Kinds, Operations, Forward
<1>6. again \in Seq(Migrations) /\ IsInjective(again)
  BY <1>3 DEF IsInjective
<1>7. todo \in Seq(Scripts)
  BY <1>3 DEF Scripts
<1> HIDE DEF stage, again
<1>8. j \in Jobs
  BY <1>5, <1>6, <1>7 DEF Jobs
<1>9. JobKnown(j)
  BY <1>3, <1>5, <1>6, <1>8 DEF JobKnown
<1>10. SetJob(s, j)
  BY <1>2 DEF stage, again, Selects, NewJob
<1> QED
  BY <1>9, <1>10

LEMMA ReselectGivesJob ==
  ASSUME JobsKnown, NEW s \in Backends, Reselect(s)
  PROVE  \E j : JobKnown(j) /\ SetJob(s, j)
<1> DEFINE j0 == job[s]
           unapplied == Only(j0.again, Migrations \ applied)
<1>1. JobKnown(j0) /\ j0.stage = "reselect"
  BY DEF JobsKnown, Reselect, At
<1>2. PICK todo \in TopologicalSorts(Depends, unapplied) :
        SetJob(s, [job[s] EXCEPT !.todo = todo, !.again = <<>>,
                     !.stage = IF todo = <<>> THEN "done" ELSE "apply"])
  BY DEF Reselect
<1> DEFINE stage == IF todo = <<>> THEN "done" ELSE "apply"
           j == [j0 EXCEPT !.todo = todo, !.again = <<>>, !.stage = stage]
<1>3. PartOf(unapplied, j0.again) /\ j0.again \in Seq(Migrations)
      /\ j0 \in Jobs /\ j0.kind = "reapply" /\ j0.step \in {"steps", "log"}
  <2>1. j0 \in Jobs /\ IsInjective(j0.again) /\ j0.kind = "reapply"
        /\ j0.step # "table"
    BY <1>1 DEF JobKnown
  <2>2. j0.again \in Seq(Migrations) /\ j0.step \in {"steps", "log", "table"}
    BY <2>1 DEF Jobs
  <2> HIDE DEF j0
  <2> QED
    BY <2>1, <2>2, OnlyIsPart
<1> HIDE DEF unapplied
<1>4. unapplied \in Seq(Migrations) /\ IsInjective(unapplied)
  BY <1>3 DEF PartOf
<1>5. todo \in Seq(ToSet(unapplied)) /\ IsInjective(todo)
  BY <1>4, GraphOfFiles, SortedList
<1>6. todo \in Seq(Migrations) /\ todo \in Seq(Scripts)
  <2>1. ToSet(unapplied) \subseteq Migrations
    BY <1>4, MembersOfSeq
  <2> QED
    BY <1>5, <2>1 DEF Scripts
<1>7. <<>> \in Seq(Migrations) /\ IsInjective(<<>>)
  BY DEF IsInjective
<1>8. stage \in {"done", "apply"} /\ (stage = "apply" => todo # <<>>)
  OBVIOUS
<1> HIDE DEF stage, j0
<1>9. j \in Jobs
  BY <1>3, <1>6, <1>7, <1>8 DEF Jobs, Stages
<1>10. j.todo = todo /\ j.again = <<>> /\ j.stage = stage
       /\ j.kind = "reapply" /\ j.step = j0.step
  BY <1>3 DEF Jobs
<1>11. JobKnown(j)
  <2> HIDE DEF j
  <2> QED
    BY <1>3, <1>5, <1>6, <1>7, <1>8, <1>9, <1>10 DEF JobKnown
<1> QED
  BY <1>2, <1>11 DEF j0, stage

\* Every other step of a session leaves its job, goes on with it, or drops it.
LEMMA OtherJob ==
  ASSUME JobsKnown, NEW s \in Backends, SessionStep(s),
         ~Select(s), ~Reselect(s)
  PROVE  job' = job \/ \E j : JobKnown(j) /\ SetJob(s, j)
<1>1. JobKnown(job[s])
  BY DEF JobsKnown
<1>2. CASE SkipBroken(s)
  BY <1>1, <1>2, AdvancedKnown DEF SkipBroken, Processing, At
<1>3. CASE CommitSteps(s)
  <2> DEFINE j == [job[s] EXCEPT !.step = "log"]
  <2>1. JobKnown(j)
    BY <1>1 DEF JobKnown, Jobs
  <2> QED
    BY <1>3, <2>1 DEF CommitSteps
<1>4. CASE WriteLog(s)
  <2>1. job[s].stage \in {"rollback", "apply", "hooks"}
    BY <1>4 DEF WriteLog, Processing, At
  <2>2. CASE job[s].stage = "hooks"
    BY <1>1, <1>4, <2>1, <2>2, AdvancedKnown DEF WriteLog
  <2>3. CASE job[s].stage # "hooks"
    <3> DEFINE j == [job[s] EXCEPT !.step = "table"]
    <3>1. JobKnown(j)
      BY <1>1, <2>1, <2>3 DEF JobKnown, Jobs
    <3> QED
      BY <1>4, <2>3, <3>1 DEF WriteLog
  <2> QED
    BY <2>2, <2>3
<1>5. CASE WriteTable(s)
  BY <1>1, <1>5, AdvancedKnown DEF WriteTable, Processing, At
<1>6. CASE MarkAll(s) \/ UnmarkAll(s)
  <2> DEFINE j == [job[s] EXCEPT !.stage = "done", !.todo = <<>>]
  <2>1. <<>> \in Seq(Migrations) /\ <<>> \in Seq(Scripts) /\ IsInjective(<<>>)
    BY DEF IsInjective
  <2>2. job[s].stage \in {"mark", "unmark"}
    BY <1>6 DEF MarkAll, UnmarkAll, At
  <2>3. JobKnown(j)
    BY <1>1, <2>1, <2>2 DEF JobKnown, Jobs, Stages
  <2> QED
    BY <1>6, <2>3 DEF MarkAll, UnmarkAll
<1>7. CASE FailSteps(s) \/ Raise(s) \/ Finish(s) \/ Crash(s)
  BY <1>7, NoJobKnown DEF FailSteps, Raise, Finish, Crash, Abandon
<1>8. CASE Start(s) \/ WaitForLock(s) \/ Release(s) \/ FailToRelease(s)
  BY <1>8 DEF Start, WaitForLock, Release, FailToRelease
<1> QED
  BY <1>2, <1>3, <1>4, <1>5, <1>6, <1>7, <1>8 DEF SessionStep, Work

LEMMA StepKeepsJobs ==
  ASSUME JobsKnown, [Next]_vars
  PROVE  JobsKnown'
<1>1. CASE job' = job
  BY <1>1 DEF JobsKnown
<1>2. ASSUME NEW s \in Backends, NEW j, JobKnown(j), SetJob(s, j)
      PROVE  JobsKnown'
  <2>1. job' = [t \in Backends |-> IF t = s THEN j ELSE job[t]]
    BY <1>2 DEF SetJob, JobsKnown
  <2>2. /\ job'[s] = j /\ \A t \in Backends : t # s => job'[t] = job[t]
        /\ job' = [t \in Backends |-> job'[t]]
    BY <2>1
  <2>3. \A t \in Backends : JobKnown(job'[t])
    BY <1>2, <2>2 DEF JobsKnown
  <2> QED
    BY <2>2, <2>3 DEF JobsKnown
<1>3. CASE \E s \in Backends : SessionStep(s)
  BY <1>1, <1>2, <1>3, SelectGivesJob, ReselectGivesJob, OtherJob
<1>4. CASE BreakLock \/ UNCHANGED vars
  BY <1>1, <1>4 DEF BreakLock, vars
<1> QED
  BY <1>3, <1>4 DEF Next

LEMMA InitJobs == Init => JobsKnown
BY NoJobKnown DEF Init, JobsKnown

\* What a command writes.
LEMMA StepKeepsData ==
  ASSUME DataType, JobsKnown, [Next]_vars
  PROVE  DataType'
<1>1. CASE \E s \in Backends : SessionStep(s)
  <2> PICK s \in Backends : SessionStep(s)
    BY <1>1
  <2>1. JobKnown(job[s])
    BY DEF JobsKnown
  <2>2. job[s].stage \in {"rollback", "apply", "hooks"} =>
          /\ Current(s) \in Scripts
          /\ job[s].stage # "hooks" => Current(s) \in Migrations
    <3>1. job[s].todo \in Seq(Scripts)
      BY <2>1 DEF JobKnown, Jobs
    <3> QED
      BY <2>1, <3>1, HeadTailMembers DEF JobKnown, Current
  <2>3. ToSet(job[s].todo) \subseteq Scripts
    BY <2>1, MembersOfSeq DEF JobKnown, Jobs
  <2>4. job[s].stage # "hooks" => ToSet(job[s].todo) \subseteq Migrations
    BY <2>1, MembersOfSeq DEF JobKnown
  <2>5. /\ Direction(job[s]) \in Operations
        /\ {"mark", "unmark"} \subseteq Operations
    BY DEF Direction, Operations
  <2>6. Committed(s) \in [Scripts -> Operations \cup {"none"}]
    BY DEF Committed, DataType
  <2>7. \A S : Uncommitted(s, S) /\ S \subseteq Scripts \X Operations =>
          uncommitted' \in [Backends -> SUBSET (Scripts \X Operations)]
    BY DEF Uncommitted, DataType
  <2>8. Abandon(s) => interrupted' \subseteq Migrations
    BY DEF Abandon, DataType
  <2>9. \A e \in Partly(s) : e \subseteq Scripts
    BY <2>2 DEF Partly, Processing, At, DataType
  <2>10. CASE Select(s) \/ SkipBroken(s) \/ Reselect(s) \/ Start(s)
           \/ WaitForLock(s) \/ Finish(s)
    BY <2>10 DEF Select, SkipBroken, Reselect, Start, WaitForLock, Finish,
       DataType, dataVars
  <2>11. CASE CommitSteps(s)
    BY <2>2, <2>6, <2>7, <2>11 DEF CommitSteps, Processing, At, DataType
  <2>12. CASE FailSteps(s) \/ Crash(s)
    BY <2>6, <2>7, <2>8, <2>9, <2>12 DEF FailSteps, Crash, LogLeft, DataType
  <2>13. CASE WriteLog(s)
    <3>1. Current(s) \in Scripts
      BY <2>2, <2>13 DEF WriteLog, Processing, At
    <3>2. uncommitted[s] \subseteq Scripts \X Operations
      BY DEF DataType
    <3>3. uncommitted[s] \cup {<<Current(s), Direction(job[s])>>}
            \subseteq Scripts \X Operations
      BY <2>5, <3>1, <3>2
    <3>4. LogAutocommit =>
            last_log' \in [Scripts -> Operations \cup {"none"}]
      BY <2>5, <2>13, <3>1 DEF WriteLog, DataType
    <3> QED
      BY <2>7, <2>13, <3>3, <3>4 DEF WriteLog, DataType
  <2>14. CASE WriteTable(s)
    <3>1. job[s].stage \in {"rollback", "apply"}
      BY <2>1, <2>14 DEF WriteTable, Processing, JobKnown
    <3>2. Current(s) \in Migrations
      BY <2>2, <3>1
    <3> QED
      BY <2>6, <2>7, <2>14, <3>2 DEF WriteTable, DataType
  <2>15. CASE MarkAll(s)
    BY <2>4, <2>5, <2>15 DEF MarkAll, At, DataType
  <2>16. CASE UnmarkAll(s)
    BY <2>4, <2>5, <2>16 DEF UnmarkAll, At, DataType
  <2>17. CASE Raise(s)
    <3>1. uncommitted[s] \subseteq Scripts \X Operations
      BY DEF DataType
    <3> QED
      BY <2>7, <2>8, <2>17, <3>1 DEF Raise, DataType, dataVars
  <2>18. CASE Release(s)
    BY <2>6, <2>7, <2>18 DEF Release, DataType
  <2>19. CASE FailToRelease(s)
    BY <2>7, <2>19 DEF FailToRelease, DataType, dataVars
  <2> QED
    BY <2>10, <2>11, <2>12, <2>13, <2>14, <2>15, <2>16, <2>17, <2>18, <2>19
    DEF SessionStep, Work
<1>2. CASE BreakLock \/ UNCHANGED vars
  BY <1>2 DEF BreakLock, vars, dataVars, DataType
<1> QED
  BY <1>1, <1>2 DEF Next

LEMMA InitData == Init => DataType
BY DEF Init, DataType

LEMMA TypesHold == Spec => [](JobsKnown /\ DataType)
<1>1. Init => JobsKnown /\ DataType
  BY InitJobs, InitData
<1>2. JobsKnown /\ DataType /\ [Next]_vars => (JobsKnown /\ DataType)'
  BY StepKeepsJobs, StepKeepsData
<1> QED
  BY <1>1, <1>2, PTL DEF Spec

\* Every variable keeps its type, whatever the commands are and wherever they
\* raise or die.
THEOREM TypeCorrect == Spec => []TypeOK
<1>1. LockFacts!TypeOK => Lock!TypeOK
  BY DEF Lock!TypeOK, LockFacts!TypeOK, Lock!PCs, LockFacts!PCs
<1>2. Spec => []LockFacts!TypeOK
  <2>1. LockFacts!Spec => []LockFacts!TypeOK
    BY LockConstants, LockFacts!TypeCorrect
  <2> QED
    BY <2>1, SpecIsOfLock, PTL
<1>3. ASSUME JobsKnown, NEW s \in Backends
      PROVE  /\ DOMAIN job[s] = DOMAIN NoJob
             /\ job[s].kind \in Operations \cup {"reapply", "none"}
             /\ job[s].stage \in Stages
             /\ job[s].step \in {"steps", "log", "table"}
             /\ ToSet(job[s].todo) \subseteq Scripts
             /\ ToSet(job[s].again) \subseteq Migrations
  <2>1. job[s] \in Jobs
    BY <1>3 DEF JobsKnown, JobKnown
  <2>2. job[s].todo \in Seq(Scripts) /\ job[s].again \in Seq(Migrations)
    BY <2>1 DEF Jobs
  <2>3. ToSet(job[s].todo) \subseteq Scripts
        /\ ToSet(job[s].again) \subseteq Migrations
    BY <2>2, MembersOfSeq
  <2>4. DOMAIN job[s] = DOMAIN NoJob
    BY <2>1 DEF Jobs, NoJob
  <2> QED
    BY <2>1, <2>3, <2>4 DEF Jobs, Kinds
<1>4. Lock!TypeOK /\ JobsKnown /\ DataType => TypeOK
  BY <1>3 DEF TypeOK, DataType
<1> QED
  BY <1>1, <1>2, <1>4, TypesHold, PTL

\* A migration that depends on nothing and that nothing depends on is never
\* applied before one of the selected whose filename is less.
THEOREM FilenameOrderHolds == Spec => []FilenameOrder
<1>1. JobsKnown => FilenameOrder
  BY DEF JobsKnown, JobKnown, KeepsFileOrder, FilenameOrder, At
<1> QED
  BY <1>1, TypesHold, PTL

-----------------------------------------------------------------------------
(***************************************************************************)
(* What was read of the table when the list was made is still true.        *)
(***************************************************************************)
\* What j is to record is not in the table.
Fresh(j, table) ==
  j.stage \in {"apply", "mark"} => ToSet(j.todo) \cap table = {}

AllFresh == \A s \in Backends : Fresh(job[s], applied)

\* The first of the list is done with: the next one in the same stage, or
\* another stage that looks at the list again or not at all.
LEMMA AdvancedCases ==
  ASSUME NEW j, JobKnown(j), j.stage \in {"rollback", "apply", "hooks"}
  PROVE  /\ Advanced(j).kind = j.kind /\ Advanced(j).again = j.again
         /\ \/ Advanced(j).stage = j.stage /\ Advanced(j).todo = Tail(j.todo)
            \/ Advanced(j).stage \in {"hooks", "done"}
            \/ /\ Advanced(j).stage = "reselect"
               /\ j.stage = "rollback" /\ j.kind = "reapply"
BY DEF Advanced, JobKnown, Jobs

LEMMA FirstOfList ==
  ASSUME NEW j, JobKnown(j), j.stage \in {"rollback", "apply"}
  PROVE  /\ Head(j.todo) \in Migrations /\ Head(j.todo) \in ToSet(j.todo)
         /\ ToSet(j.todo) = {Head(j.todo)} \cup ToSet(Tail(j.todo))
         /\ Head(j.todo) \notin ToSet(Tail(j.todo))
         /\ \A x : ~Precedes(j.todo, x, Head(j.todo))
         /\ \A x, y : Precedes(j.todo, x, y) =>
              x = Head(j.todo) \/ Precedes(Tail(j.todo), x, y)
<1>1. j.todo \in Seq(Migrations) /\ IsInjective(j.todo) /\ j.todo # <<>>
  BY DEF JobKnown
<1>2. /\ Head(j.todo) \in Migrations /\ Head(j.todo) \in ToSet(j.todo)
      /\ Tail(j.todo) \in Seq(Migrations)
      /\ ToSet(j.todo) = {Head(j.todo)} \cup ToSet(Tail(j.todo))
      /\ Head(j.todo) \notin ToSet(Tail(j.todo))
  BY <1>1, HeadTailMembers
<1>3. \A x, y : Precedes(j.todo, x, y) =>
        x = Head(j.todo) \/ Precedes(Tail(j.todo), x, y)
  BY <1>1, PrecedesTail
<1>4. \A x : ~Precedes(j.todo, x, Head(j.todo))
  <2> SUFFICES ASSUME NEW x, Precedes(j.todo, x, Head(j.todo)) PROVE FALSE
    OBVIOUS
  <2>1. x # Head(j.todo)
    BY <1>1, InjectivePrecedes
  <2>2. Precedes(Tail(j.todo), x, Head(j.todo))
    BY <1>3, <2>1
  <2> QED
    BY <1>2, <2>2, PrecedesMembers
<1> QED
  BY <1>2, <1>3, <1>4

LEMMA AdvancedFresh ==
  ASSUME NEW j, JobKnown(j), j.stage \in {"rollback", "apply", "hooks"},
         NEW A, NEW B, Fresh(j, A), B \subseteq A \cup {Head(j.todo)}
  PROVE  Fresh(Advanced(j), B)
<1>1. CASE j.stage = "apply"
  BY <1>1, AdvancedCases, FirstOfList DEF Fresh
<1>2. CASE j.stage # "apply"
  BY <1>2, AdvancedCases DEF Fresh
<1> QED
  BY <1>1, <1>2

LEMMA CandidatesAre ==
  ASSUME NEW cmd \in Commands, ~cmd.all, applied \subseteq Migrations
  PROVE  ToSet(Candidates(cmd)) =
           IF Forward(cmd) THEN Migrations \ applied ELSE applied
<1> DEFINE P == {m \in Migrations : Forward(cmd) <=> m \notin applied}
<1>1. ToSet(Only(Files, P)) = Migrations \cap P
  <2> HIDE DEF P
  <2> QED
    BY GraphOfFiles, OnlyMembers
<1> QED
  BY <1>1 DEF Candidates

\* Who is in the body of lock() is the only one with a job.
LEMMA AloneJob ==
  ASSUME RowHeld, SessionInv, NEW s \in Backends, Lock!InBody(s),
         NEW t \in Backends, t # s
  PROVE  job[t] = NoJob
<1>1. pc[t] # "holding"
  BY BodyIsHolding DEF RowHeld
<1> QED
  BY <1>1 DEF SessionInv, Knows, NoJobOutside

LEMMA OneJobChanges ==
  ASSUME RowHeld, SessionInv, JobsKnown, NEW s \in Backends, Lock!InBody(s),
         NEW j, SetJob(s, j)
  PROVE  job'[s] = j /\ \A t \in Backends : t # s => job'[t] = NoJob
<1>1. job' = [t \in Backends |-> IF t = s THEN j ELSE job[t]]
  BY DEF SetJob, JobsKnown
<1> QED
  BY <1>1, AloneJob

LEMMA ReselectedList ==
  ASSUME DataType, JobsKnown, NEW s \in Backends, Reselect(s)
  PROVE  \E todo, j :
           /\ SetJob(s, j) /\ j.todo = todo /\ j.stage \in {"done", "apply"}
           /\ ToSet(todo) = ToSet(job[s].again) \ applied
           /\ ToSet(todo) \cap Broken = {}
           /\ \A m \in ToSet(todo) : \A d \in Depends[m] \cap ToSet(todo) :
                Precedes(todo, d, m)
<1> DEFINE again == job[s].again
           P == Migrations \ applied
           unapplied == Only(again, P)
<1>1. JobKnown(job[s]) /\ job[s].stage = "reselect"
  BY DEF JobsKnown, Reselect, At
<1>2. again \in Seq(Migrations) /\ IsInjective(again)
      /\ ToSet(again) \subseteq Migrations
  BY <1>1, MembersOfSeq DEF JobKnown, Jobs
<1>3. PICK todo \in TopologicalSorts(Depends, unapplied) :
        SetJob(s, [job[s] EXCEPT !.todo = todo, !.again = <<>>,
                     !.stage = IF todo = <<>> THEN "done" ELSE "apply"])
  BY DEF Reselect
<1>4. ToSet(unapplied) \cap Broken = {}
  BY DEF Reselect
<1>5. PartOf(unapplied, again) /\ ToSet(unapplied) = ToSet(again) \cap P
  <2> HIDE DEF P, again
  <2> QED
    BY <1>2, OnlyIsPart, OnlyMembers
<1> HIDE DEF unapplied
<1>6. unapplied \in Seq(Migrations) /\ IsInjective(unapplied)
      /\ ToSet(unapplied) \subseteq Migrations
  BY <1>5, MembersOfSeq DEF PartOf
<1>7. Acyclic(Depends, ToSet(unapplied))
  BY <1>6, GraphOfFiles, PartIsAcyclic
<1>8. /\ ToSet(todo) = ToSet(unapplied)
      /\ \A m \in ToSet(todo) : \A p \in Depends[m] \cap ToSet(unapplied) :
           Precedes(todo, p, m)
  BY <1>6, <1>7, GraphOfFiles, SortedList
<1> DEFINE j == [job[s] EXCEPT !.todo = todo, !.again = <<>>,
                   !.stage = IF todo = <<>> THEN "done" ELSE "apply"]
<1>9. j.todo = todo /\ j.stage \in {"done", "apply"}
  BY <1>1 DEF JobKnown, Jobs
<1>10. SetJob(s, j)
  BY <1>3
<1>11. ToSet(todo) = ToSet(again) \ applied
  BY <1>2, <1>5, <1>8
<1> HIDE DEF j
<1> QED
  BY <1>4, <1>8, <1>9, <1>10, <1>11

LEMMA StepKeepsFresh ==
  ASSUME \A cmd \in Commands : cmd.all => ~Forward(cmd),
         RowHeld, SessionInv, JobsKnown, DataType, AllFresh, [Next]_vars
  PROVE  AllFresh'
<1>1. CASE \E s \in Backends : SessionStep(s)
  <2> PICK s \in Backends : SessionStep(s)
    BY <1>1
  <2>1. JobKnown(job[s]) /\ Fresh(job[s], applied)
    BY DEF JobsKnown, AllFresh
  <2>2. \A A : Fresh(NoJob, A)
    BY DEF Fresh, NoJob
  <2>3. ASSUME Lock!InBody(s), NEW j, SetJob(s, j), Fresh(j, applied')
        PROVE  AllFresh'
    BY <2>2, <2>3, OneJobChanges DEF AllFresh
  <2>4. CASE Select(s)
    <3>1. PICK cmd \in Commands :
            \E listed, todo : Selects(s, cmd, listed, todo)
      BY <2>4, SelectMakesJob
    <3>2. PICK listed, todo : Selects(s, cmd, listed, todo)
      BY <3>1
    <3>3. ToSet(todo) \subseteq ToSet(Candidates(cmd))
      BY <3>2, SelectedList DEF Selects
    <3>4. Fresh(NewJob(cmd, todo), applied)
      BY <3>3, CandidatesAre DEF DataType, Fresh, NewJob, Forward
    <3> QED
      BY <2>3, <2>4, <3>2, <3>4 DEF Select, Selects, At, dataVars
  <2>5. CASE Reselect(s)
    <3>1. PICK todo, j :
            /\ SetJob(s, j) /\ j.todo = todo
            /\ ToSet(todo) = ToSet(job[s].again) \ applied
      BY <2>5, ReselectedList
    <3>2. Fresh(j, applied)
      BY <3>1 DEF Fresh
    <3> QED
      BY <2>3, <2>5, <3>1, <3>2 DEF Reselect, At, dataVars
  <2>6. CASE SkipBroken(s)
    <3>1. Fresh(Advanced(job[s]), applied)
      BY <2>1, <2>6, AdvancedFresh DEF SkipBroken, Processing, At
    <3> QED
      BY <2>3, <2>6, <3>1 DEF SkipBroken, Processing, At, dataVars
  <2>7. CASE CommitSteps(s)
    <3> DEFINE j == [job[s] EXCEPT !.step = "log"]
    <3>1. j.todo = job[s].todo /\ j.stage = job[s].stage /\ SetJob(s, j)
      BY <2>1, <2>7 DEF CommitSteps, JobKnown, Jobs
    <3> HIDE DEF j
    <3>2. Fresh(j, applied)
      BY <2>1, <3>1 DEF Fresh
    <3> QED
      BY <2>3, <2>7, <3>1, <3>2 DEF CommitSteps, Processing, At
  <2>8. CASE WriteLog(s)
    <3>1. CASE job[s].stage = "hooks"
      <4>1. Fresh(Advanced(job[s]), applied)
        BY <2>1, <3>1, AdvancedFresh
      <4> QED
        BY <2>3, <2>8, <3>1, <4>1 DEF WriteLog, Processing, At
    <3>2. CASE job[s].stage # "hooks"
      <4> DEFINE j == [job[s] EXCEPT !.step = "table"]
      <4>1. j.todo = job[s].todo /\ j.stage = job[s].stage /\ SetJob(s, j)
        BY <2>1, <2>8, <3>2 DEF WriteLog, JobKnown, Jobs
      <4> HIDE DEF j
      <4>2. Fresh(j, applied)
        BY <2>1, <4>1 DEF Fresh
      <4> QED
        BY <2>3, <2>8, <4>1, <4>2 DEF WriteLog, Processing, At
    <3> QED
      BY <3>1, <3>2
  <2>9. CASE WriteTable(s)
    <3>1. applied' \subseteq applied \cup {Head(job[s].todo)}
      BY <2>9 DEF WriteTable, Current
    <3>2. Fresh(Advanced(job[s]), applied')
      BY <2>1, <2>9, <3>1, AdvancedFresh DEF WriteTable, Processing, At
    <3> QED
      BY <2>3, <2>9, <3>2 DEF WriteTable, Processing, At
  <2>10. CASE MarkAll(s) \/ UnmarkAll(s)
    <3> DEFINE j == [job[s] EXCEPT !.stage = "done", !.todo = <<>>]
    <3>1. j.stage = "done" /\ SetJob(s, j)
      BY <2>1, <2>10 DEF MarkAll, UnmarkAll, JobKnown, Jobs
    <3> HIDE DEF j
    <3>2. Fresh(j, applied')
      BY <3>1 DEF Fresh
    <3> QED
      BY <2>3, <2>10, <3>1, <3>2 DEF MarkAll, UnmarkAll, At
  <2>11. CASE FailSteps(s) \/ Raise(s) \/ Finish(s) \/ Crash(s)
    <3>1. \A t \in Backends : job'[t] = NoJob \/ job'[t] = job[t]
      BY <2>11
      DEF FailSteps, Raise, Finish, Crash, Abandon, SetJob, JobsKnown
    <3>2. applied' = applied
      BY <2>11 DEF FailSteps, Raise, Finish, Crash, dataVars
    <3> QED
      BY <2>2, <3>1, <3>2 DEF AllFresh
  <2>12. CASE Start(s) \/ WaitForLock(s) \/ Release(s) \/ FailToRelease(s)
    BY <2>12 DEF Start, WaitForLock, Release, FailToRelease, dataVars, AllFresh
  <2> QED
    BY <2>4, <2>5, <2>6, <2>7, <2>8, <2>9, <2>10, <2>11, <2>12
    DEF SessionStep, Work
<1>2. CASE BreakLock \/ UNCHANGED vars
  BY <1>2 DEF BreakLock, vars, dataVars, AllFresh
<1> QED
  BY <1>1, <1>2 DEF Next

LEMMA FreshHolds ==
  ASSUME BreakPolicy # "any", \A cmd \in Commands : cmd.all => ~Forward(cmd)
  PROVE  Spec => []AllFresh
<1>1. Init => AllFresh
  BY DEF Init, AllFresh, Fresh, NoJob
<1>2. RowHeld /\ SessionInv /\ JobsKnown /\ DataType /\ AllFresh /\ [Next]_vars
        => AllFresh'
  BY StepKeepsFresh
<1> QED
  BY <1>1, <1>2, RowIsHeld, SessionInvHolds, TypesHold, PTL DEF Spec

\* When the lock of a live session is not broken and nobody applies or marks
\* with --all, no session finds a migration that it is to record already in
\* the table, however many others run, raise and die.
THEOREM SelectionStaysTrueHolds ==
  ASSUME BreakPolicy # "any", \A cmd \in Commands : cmd.all => ~Forward(cmd)
  PROVE  Spec => []SelectionStaysTrue
<1>1. AllFresh => SelectionStaysTrue
  BY DEF AllFresh, Fresh, SelectionStaysTrue, At
<1> QED
  BY <1>1, FreshHolds, PTL

-----------------------------------------------------------------------------
(***************************************************************************)
(* The commands implement SchemaHistory when they leave the choice of      *)
(* migrations to the dependencies: with --batch and without --all.         *)
(***************************************************************************)
Unattended == \A cmd \in Commands : cmd.batch /\ ~cmd.all

Closed(table) == \A m \in table : Depends[m] \subseteq table

\* Each of the list can be recorded when those before it have been.
CanRecord(list, table) ==
  \A m \in ToSet(list) : \A d \in Depends[m] :
    d \in table \/ Precedes(list, d, m)

\* Each of the list can be removed when those before it have been.
CanRemove(list, table) ==
  /\ ToSet(list) \subseteq table
  /\ \A m \in ToSet(list), x \in table :
       m \in Depends[x] => Precedes(list, x, m)

\* What a session relies on when it goes through its list in order.  What
\* reapply has rolled back depends on nothing else that is missing.
InOrder(j, table) ==
  /\ j.stage \in {"apply", "mark"} => CanRecord(j.todo, table)
  /\ j.stage \in {"rollback", "unmark"} => CanRemove(j.todo, table)
  /\ j.stage \in {"rollback", "apply"} => ToSet(j.todo) \cap Broken = {}
  /\ j.stage = "rollback" /\ j.kind = "reapply" =>
       ToSet(j.todo) \subseteq ToSet(j.again)
  /\ j.stage \in {"rollback", "reselect"} /\ j.kind = "reapply" =>
       \A m \in ToSet(j.again) : Depends[m] \subseteq table \cup ToSet(j.again)

HistoryInv ==
  Closed(applied) /\ AllFresh /\ \A s \in Backends : InOrder(job[s], applied)

-----------------------------------------------------------------------------
LEMMA NewJobInOrder ==
  ASSUME Unattended, applied \subseteq Migrations, Closed(applied),
         NEW s, NEW cmd \in Commands, NEW listed, NEW todo,
         Selects(s, cmd, listed, todo)
  PROVE  InOrder(NewJob(cmd, todo), applied)
<1> DEFINE P == Related(cmd, listed) \cup {cmd.revision}
<1>1. /\ cmd.batch /\ ~cmd.all
      /\ cmd.kind \in Operations \cup {"reapply"}
      /\ cmd.revision # NoRevision => cmd.revision \in Migrations
  BY SessionAssumption DEF Unattended
<1>2. /\ CanSelect(cmd) /\ listed \in Listed(cmd)
      /\ todo \in Chosen(cmd, OfRevision(cmd, listed))
  BY DEF Selects
<1>3. PartOf(Candidates(cmd), Files)
  BY CandidateList
<1>4. /\ listed \in Seq(Migrations) /\ IsInjective(listed)
      /\ ToSet(listed) = ToSet(Candidates(cmd))
  BY <1>2, ListedList
<1>5. ToSet(listed) = IF Forward(cmd) THEN Migrations \ applied ELSE applied
  BY <1>1, <1>4, CandidatesAre
<1>6. ToSet(todo) \subseteq ToSet(listed)
  BY <1>2, <1>4, SelectedList
<1>7. ToSet(todo) \cap Broken = {}
  BY <1>1, <1>2, <1>4, <1>6 DEF CanSelect, Loaded
<1>8. ToSet(<<>>) = {}
  BY DEF ToSet
<1>9. cmd.revision # NoRevision =>
        /\ OfRevision(cmd, listed) = Only(listed, P)
        /\ ToSet(Only(listed, P)) = ToSet(listed) \cap P
        /\ \A x, y : Precedes(Only(listed, P), x, y) <=>
                       Precedes(listed, x, y) /\ x \in P /\ y \in P
  <2>1. cmd.revision # NoRevision => OfRevision(cmd, listed) = Only(listed, P)
    BY DEF OfRevision
  <2> HIDE DEF P
  <2> QED
    BY <1>4, <2>1, OnlyMembers
<1>10. \A m \in Migrations : Depends[m] \subseteq Migrations
  BY SessionAssumption
<1>11. Forward(cmd) => CanRecord(todo, applied)
  <2> SUFFICES ASSUME Forward(cmd),
                      NEW m \in ToSet(todo),
                      NEW d \in Depends[m], d \notin applied
               PROVE  Precedes(todo, d, m)
    BY DEF CanRecord
  <2>1. listed \in TopologicalSorts(Depends, Candidates(cmd))
    BY <1>1, <1>2 DEF Listed
  <2>2. m \in Migrations /\ m \in ToSet(listed)
    BY <1>5, <1>6
  <2>3. d \in ToSet(Candidates(cmd))
    BY <1>4, <1>5, <1>10, <2>2
  <2>4. Precedes(listed, d, m)
    BY <1>3, <2>1, <2>2, <2>3, SortedPart
  <2>5. todo = OfRevision(cmd, listed)
    BY <1>1, <1>2 DEF Chosen, Forward
  <2>6. CASE cmd.revision = NoRevision
    BY <2>4, <2>5, <2>6 DEF OfRevision
  <2>7. CASE cmd.revision # NoRevision
    <3>1. P = Ancestors(Depends, cmd.revision) \cup {cmd.revision}
      BY DEF Related
    <3>2. m \in P
      BY <1>9, <2>5, <2>7
    <3>3. d \in P
      BY <1>1, <2>7, <3>1, <3>2, GraphOfFiles, AncestorsClosed
    <3> HIDE DEF P
    <3> QED
      BY <1>9, <2>4, <2>5, <2>7, <3>2, <3>3
  <2> QED
    BY <2>6, <2>7
<1>12. ~Forward(cmd) => CanRemove(todo, applied)
  <2> SUFFICES ASSUME ~Forward(cmd),
                      NEW m \in ToSet(todo), NEW x \in applied, m \in Depends[x]
               PROVE  Precedes(todo, x, m)
    BY <1>5, <1>6 DEF CanRemove
  <2>1. PICK sorted \in TopologicalSorts(Depends, Candidates(cmd)) :
          listed = Reverse(sorted)
    BY <1>1, <1>2 DEF Listed
  <2>2. sorted \in Seq(Migrations)
        /\ ToSet(sorted) = ToSet(Candidates(cmd))
        /\ \A a \in ToSet(sorted) :
             \A d \in Depends[a] \cap ToSet(Candidates(cmd)) :
               Precedes(sorted, d, a)
    BY <1>3, <2>1, SortedPart
  <2>3. m \in ToSet(listed) /\ x \in ToSet(listed)
    BY <1>5, <1>6
  <2>4. Precedes(sorted, m, x)
    BY <1>4, <2>2, <2>3
  <2>5. Precedes(listed, x, m)
    BY <2>1, <2>2, <2>4, ReverseMembers
  <2>6. CASE cmd.revision = NoRevision /\ todo = listed
    BY <2>5, <2>6
  <2>7. CASE /\ cmd.revision = NoRevision
             /\ listed # <<>> /\ todo = <<Head(listed)>>
    <3>1. m = Head(listed)
      BY <2>7 DEF ToSet
    <3>2. Precedes(Tail(listed), x, m) \/ x = m
      BY <1>4, <2>5, <2>7, <3>1, PrecedesTail
    <3>3. x # m
      BY <1>4, <2>5, InjectivePrecedes
    <3>4. m \in ToSet(Tail(listed))
      BY <3>2, <3>3, PrecedesMembers
    <3> QED
      BY <1>4, <2>7, <3>1, <3>4, HeadTailMembers
  <2>8. CASE cmd.revision # NoRevision
    <3>1. todo = Only(listed, P)
      BY <1>1, <1>2, <1>9, <2>8 DEF Chosen
    <3>2. P = {cmd.revision}
                \cup Descendants(Depends, cmd.revision, ToSet(listed))
      BY DEF Related
    <3>3. m \in P
      BY <1>9, <2>8, <3>1
    <3>4. x \in P
      BY <2>3, <3>2, <3>3, DescendantsClosed
    <3> HIDE DEF P
    <3> QED
      BY <1>9, <2>5, <2>8, <3>1, <3>3, <3>4
  <2> QED
    BY <1>1, <1>2, <2>6, <2>7, <2>8 DEF Chosen, OfRevision
<1> DEFINE j == NewJob(cmd, todo)
<1>13. /\ j.todo = todo /\ j.kind = cmd.kind
       /\ cmd.kind = "reapply" => j.again = todo
       /\ j.stage \in {"apply", "mark"} => Forward(cmd)
       /\ j.stage \in {"rollback", "unmark"} => ~Forward(cmd)
       /\ j.stage # "reselect"
  BY <1>1 DEF NewJob, Forward, Operations
<1>14. j.stage = "rollback" /\ j.kind = "reapply" =>
         \A m \in ToSet(j.again) : Depends[m] \subseteq applied
  BY <1>5, <1>6, <1>13 DEF Closed
<1> HIDE DEF j
<1>15. InOrder(j, applied)
  BY <1>7, <1>11, <1>12, <1>13, <1>14 DEF InOrder
<1> QED
  BY <1>15 DEF j

LEMMA AppliedInOrder ==
  ASSUME NEW j, JobKnown(j), j.stage = "apply", NEW A, InOrder(j, A)
  PROVE  InOrder(Advanced(j), A \cup {Head(j.todo)})
<1>1. CASE Advanced(j).stage = "apply"
  <2>1. Advanced(j).todo = Tail(j.todo)
    BY <1>1, AdvancedCases
  <2>2. CanRecord(Tail(j.todo), A \cup {Head(j.todo)})
    BY FirstOfList DEF InOrder, CanRecord
  <2>3. ToSet(Tail(j.todo)) \cap Broken = {}
    BY FirstOfList DEF InOrder
  <2> QED
    BY <1>1, <2>1, <2>2, <2>3 DEF InOrder
<1>2. CASE Advanced(j).stage # "apply"
  BY <1>2, AdvancedCases DEF InOrder
<1> QED
  BY <1>1, <1>2

LEMMA RolledBackInOrder ==
  ASSUME NEW j, JobKnown(j), j.stage = "rollback", NEW A, InOrder(j, A)
  PROVE  InOrder(Advanced(j), A \ {Head(j.todo)})
<1> DEFINE B == A \ {Head(j.todo)}
           k == Advanced(j)
<1>1. /\ k.kind = j.kind /\ k.again = j.again
      /\ \/ k.stage = "rollback" /\ k.todo = Tail(j.todo)
         \/ k.stage \in {"hooks", "done", "reselect"}
  BY AdvancedCases
<1>2. j.kind = "reapply" =>
        \A m \in ToSet(j.again) : Depends[m] \subseteq B \cup ToSet(j.again)
  BY FirstOfList DEF InOrder
<1>3. CanRemove(Tail(j.todo), B)
  BY FirstOfList DEF InOrder, CanRemove
<1>4. /\ ToSet(Tail(j.todo)) \cap Broken = {}
      /\ j.kind = "reapply" => ToSet(Tail(j.todo)) \subseteq ToSet(j.again)
  BY FirstOfList DEF InOrder
<1> HIDE DEF B, k
<1>5. InOrder(k, B)
  BY <1>1, <1>2, <1>3, <1>4 DEF InOrder
<1> QED
  BY <1>5 DEF B, k

\* Nothing is expected of a session without a list to go through.
LEMMA NothingInOrder ==
  ASSUME NEW j, NEW table, j.stage \in {"select", "hooks", "done"}
  PROVE  InOrder(j, table)
BY DEF InOrder

\* The row of the first of the list.
LEMMA RowIsChange ==
  ASSUME NEW j, JobKnown(j), j.stage \in {"rollback", "apply"},
         applied \subseteq Migrations, Closed(applied), InOrder(j, applied),
         IF j.stage = "rollback" THEN applied' = applied \ {Head(j.todo)}
         ELSE /\ Head(j.todo) \notin applied
              /\ applied' = applied \cup {Head(j.todo)}
  PROVE  History!Next
<1> DEFINE m == Head(j.todo)
<1>1. /\ m \in Migrations /\ m \in ToSet(j.todo)
      /\ \A x : ~Precedes(j.todo, x, m)
  BY FirstOfList
<1>2. CASE j.stage = "rollback"
  <2>1. /\ m \in applied
        /\ \A x \in applied : m \in Depends[x] => Precedes(j.todo, x, m)
    BY <1>1, <1>2 DEF InOrder, CanRemove
  <2>2. {m} \subseteq applied /\ History!Closed(applied \ {m})
    BY <1>1, <2>1 DEF Closed, History!Closed
  <2>3. History!Remove({m})
    BY <1>2, <2>2 DEF History!Remove
  <2> QED
    BY <1>1, <2>3 DEF History!Next
<1>3. CASE j.stage = "apply"
  <2>1. Depends[m] \subseteq applied
    BY <1>1, <1>3 DEF InOrder, CanRecord
  <2>2. {m} \cap applied = {} /\ History!Closed(applied \cup {m})
    BY <1>3, <2>1 DEF Closed, History!Closed
  <2>3. History!Record({m})
    BY <1>3, <2>2 DEF History!Record
  <2> QED
    BY <1>1, <2>3 DEF History!Next
<1> QED
  BY <1>2, <1>3

\* The rows of mark and unmark.
LEMMA RowsAreChange ==
  ASSUME NEW j, JobKnown(j), j.stage \in {"mark", "unmark"},
         applied \subseteq Migrations, Closed(applied), InOrder(j, applied),
         IF j.stage = "unmark" THEN applied' = applied \ ToSet(j.todo)
         ELSE /\ ToSet(j.todo) \cap applied = {}
              /\ applied' = applied \cup ToSet(j.todo)
  PROVE  History!Next
<1> DEFINE S == ToSet(j.todo)
<1>1. S \subseteq Migrations
  BY MembersOfSeq DEF JobKnown
<1>2. CASE j.stage = "unmark"
  <2>1. /\ S \subseteq applied
        /\ \A m \in S, x \in applied : m \in Depends[x] => x \in S
    BY <1>2, PrecedesMembers DEF InOrder, CanRemove
  <2>2. History!Closed(applied \ S)
    BY <2>1 DEF Closed, History!Closed
  <2>3. History!Remove(S)
    BY <1>2, <2>1, <2>2 DEF History!Remove
  <2> QED
    BY <1>1, <2>3 DEF History!Next
<1>3. CASE j.stage = "mark"
  <2>1. \A m \in S : Depends[m] \subseteq applied \cup S
    BY <1>3, PrecedesMembers DEF InOrder, CanRecord
  <2>2. History!Closed(applied \cup S)
    BY <2>1 DEF Closed, History!Closed
  <2>3. History!Record(S)
    BY <1>3, <2>2 DEF History!Record
  <2> QED
    BY <1>1, <2>3 DEF History!Next
<1> QED
  BY <1>2, <1>3

\* A change leaves the table closed.
LEMMA ChangeIsClosed ==
  ASSUME History!Next
  PROVE  Closed(applied')
<1>1. PICK S \in SUBSET Migrations : History!Record(S) \/ History!Remove(S)
  BY DEF History!Next
<1> QED
  BY <1>1 DEF History!Record, History!Remove, History!Closed, Closed

\* A step of a session and what it means for the table.
LEMMA StepKeepsHistory ==
  ASSUME Unattended, RowHeld, SessionInv, JobsKnown, DataType, HistoryInv,
         [Next]_vars
  PROVE  HistoryInv' /\ [History!Next]_applied
<1>1. AllFresh'
  BY StepKeepsFresh DEF HistoryInv, Unattended
<1>2. /\ applied \subseteq Migrations /\ Closed(applied)
      /\ \A t \in Backends : InOrder(job[t], applied)
  BY DEF DataType, HistoryInv
<1>3. \A table : InOrder(NoJob, table)
  BY NothingInOrder DEF NoJob
<1>4. ASSUME NEW s \in Backends, Lock!InBody(s), NEW j, SetJob(s, j),
             InOrder(j, applied'),
             History!Next \/ applied' = applied
      PROVE  HistoryInv' /\ [History!Next]_applied
  <2>1. \A t \in Backends : InOrder(job'[t], applied')
    BY <1>3, <1>4, OneJobChanges
  <2>2. Closed(applied')
    BY <1>2, <1>4, ChangeIsClosed
  <2> QED
    BY <1>1, <1>4, <2>1, <2>2 DEF HistoryInv, Closed
<1>5. CASE \E s \in Backends : SessionStep(s)
  <2> PICK s \in Backends : SessionStep(s)
    BY <1>5
  <2> DEFINE j0 == job[s]
  <2>1. JobKnown(j0) /\ InOrder(j0, applied) /\ Fresh(j0, applied)
    BY <1>2 DEF JobsKnown, HistoryInv, AllFresh
  <2>2. CASE Select(s)
    <3>1. PICK cmd \in Commands :
            \E listed, todo : Selects(s, cmd, listed, todo)
      BY <2>2, SelectMakesJob
    <3>2. PICK listed, todo : Selects(s, cmd, listed, todo)
      BY <3>1
    <3>3. InOrder(NewJob(cmd, todo), applied)
      BY <1>2, <3>2, NewJobInOrder
    <3> QED
      BY <1>4, <2>2, <3>2, <3>3 DEF Select, Selects, At, dataVars
  <2>3. CASE Reselect(s)
    <3>1. PICK todo, j :
            /\ SetJob(s, j) /\ j.todo = todo /\ j.stage \in {"done", "apply"}
            /\ ToSet(todo) = ToSet(j0.again) \ applied
            /\ ToSet(todo) \cap Broken = {}
            /\ \A m \in ToSet(todo) : \A d \in Depends[m] \cap ToSet(todo) :
                 Precedes(todo, d, m)
      BY <2>3, ReselectedList
    <3>2. \A m \in ToSet(j0.again) :
            Depends[m] \subseteq applied \cup ToSet(j0.again)
      BY <2>1, <2>3 DEF Reselect, At, InOrder, JobKnown
    <3>3. CanRecord(todo, applied)
      BY <3>1, <3>2 DEF CanRecord
    <3>4. InOrder(j, applied)
      BY <3>1, <3>3 DEF InOrder
    <3> QED
      BY <1>4, <2>3, <3>1, <3>4 DEF Reselect, At, dataVars
  <2>4. CASE SkipBroken(s)
    <3>1. j0.stage = "hooks"
      BY <2>1, <2>4, FirstOfList
      DEF SkipBroken, Processing, At, InOrder, Current
    <3>2. InOrder(Advanced(j0), applied)
      BY <2>1, <3>1, AdvancedCases, NothingInOrder
    <3> QED
      BY <1>4, <2>4, <3>2 DEF SkipBroken, Processing, At, dataVars
  <2>5. CASE CommitSteps(s)
    <3> DEFINE j == [j0 EXCEPT !.step = "log"]
    <3>1. /\ j.todo = j0.todo /\ j.stage = j0.stage /\ j.kind = j0.kind
          /\ j.again = j0.again /\ SetJob(s, j)
      BY <2>1, <2>5 DEF CommitSteps, JobKnown, Jobs
    <3> HIDE DEF j
    <3>2. InOrder(j, applied)
      BY <2>1, <3>1 DEF InOrder
    <3> QED
      BY <1>4, <2>5, <3>1, <3>2 DEF CommitSteps, Processing, At
  <2>6. CASE WriteLog(s)
    <3>1. CASE j0.stage = "hooks"
      <4>1. InOrder(Advanced(j0), applied)
        BY <2>1, <3>1, AdvancedCases, NothingInOrder
      <4> QED
        BY <1>4, <2>6, <3>1, <4>1 DEF WriteLog, Processing, At
    <3>2. CASE j0.stage # "hooks"
      <4> DEFINE j == [j0 EXCEPT !.step = "table"]
      <4>1. /\ j.todo = j0.todo /\ j.stage = j0.stage /\ j.kind = j0.kind
            /\ j.again = j0.again /\ SetJob(s, j)
        BY <2>1, <2>6, <3>2 DEF WriteLog, JobKnown, Jobs
      <4> HIDE DEF j
      <4>2. InOrder(j, applied)
        BY <2>1, <4>1 DEF InOrder
      <4> QED
        BY <1>4, <2>6, <4>1, <4>2 DEF WriteLog, Processing, At
    <3> QED
      BY <3>1, <3>2
  <2>7. CASE WriteTable(s)
    <3>1. j0.stage \in {"rollback", "apply"}
      BY <2>1, <2>7 DEF WriteTable, Processing, JobKnown
    <3>2. IF j0.stage = "rollback" THEN applied' = applied \ {Head(j0.todo)}
          ELSE /\ Head(j0.todo) \notin applied
               /\ applied' = applied \cup {Head(j0.todo)}
      BY <2>7 DEF WriteTable, Current
    <3>3. History!Next
      BY <1>2, <2>1, <3>1, <3>2, RowIsChange
    <3>4. InOrder(Advanced(j0), applied')
      BY <2>1, <3>1, <3>2, AppliedInOrder, RolledBackInOrder
    <3> QED
      BY <1>4, <2>7, <3>3, <3>4 DEF WriteTable, Processing, At
  <2>8. CASE MarkAll(s) \/ UnmarkAll(s)
    <3> DEFINE j == [j0 EXCEPT !.stage = "done", !.todo = <<>>]
    <3>1. j.stage = "done" /\ SetJob(s, j)
      BY <2>1, <2>8 DEF MarkAll, UnmarkAll, JobKnown, Jobs
    <3> HIDE DEF j
    <3>2. InOrder(j, applied')
      BY <3>1, NothingInOrder
    <3>3. /\ j0.stage \in {"mark", "unmark"}
          /\ IF j0.stage = "unmark" THEN applied' = applied \ ToSet(j0.todo)
             ELSE /\ ToSet(j0.todo) \cap applied = {}
                  /\ applied' = applied \cup ToSet(j0.todo)
      BY <2>8 DEF MarkAll, UnmarkAll, At
    <3>4. History!Next
      BY <1>2, <2>1, <3>3, RowsAreChange
    <3> QED
      BY <1>4, <2>8, <3>1, <3>2, <3>4 DEF MarkAll, UnmarkAll, At
  <2>9. CASE FailSteps(s) \/ Raise(s) \/ Finish(s) \/ Crash(s)
    <3>1. \A t \in Backends : job'[t] = NoJob \/ job'[t] = job[t]
      BY <2>9
      DEF FailSteps, Raise, Finish, Crash, Abandon, SetJob, JobsKnown
    <3>2. applied' = applied
      BY <2>9 DEF FailSteps, Raise, Finish, Crash, dataVars
    <3>3. \A t \in Backends : InOrder(job'[t], applied)
      BY <1>2, <1>3, <3>1
    <3> QED
      BY <1>1, <1>2, <3>2, <3>3 DEF HistoryInv
  <2>10. CASE Start(s) \/ WaitForLock(s) \/ Release(s) \/ FailToRelease(s)
    <3>1. applied' = applied /\ job' = job
      BY <2>10 DEF Start, WaitForLock, Release, FailToRelease, dataVars
    <3> QED
      BY <1>1, <1>2, <3>1 DEF HistoryInv
  <2> QED
    BY <2>2, <2>3, <2>4, <2>5, <2>6, <2>7, <2>8, <2>9, <2>10
    DEF SessionStep, Work
<1>6. CASE BreakLock \/ UNCHANGED vars
  <2>1. applied' = applied /\ job' = job
    BY <1>6 DEF BreakLock, vars, dataVars
  <2> QED
    BY <1>1, <1>2, <2>1 DEF HistoryInv
<1> QED
  BY <1>5, <1>6 DEF Next

LEMMA InitHistory == Init => HistoryInv /\ History!Init
<1> SUFFICES ASSUME Init PROVE HistoryInv /\ History!Init
  OBVIOUS
<1>1. applied = {} /\ \A s \in Backends : job[s] = NoJob
  BY DEF Init
<1>2. InOrder(NoJob, applied) /\ Fresh(NoJob, applied)
  BY NothingInOrder DEF NoJob, Fresh
<1> QED
  BY <1>1, <1>2 DEF HistoryInv, AllFresh, Closed, History!Init

\* Whatever sessions interleave, raise and die: in batch mode and without --all
\* the table of applied migrations changes only as SchemaHistory allows, each
\* migration recorded behind all it depends on and removed before them.
THEOREM CommandsKeepHistory ==
  ASSUME BreakPolicy # "any", Unattended
  PROVE  Spec => HistorySpec
<1>1. RowHeld /\ SessionInv /\ JobsKnown /\ DataType /\ HistoryInv
      /\ [Next]_vars => HistoryInv' /\ [History!Next]_applied
  BY StepKeepsHistory
<1> QED
  BY <1>1, InitHistory, RowIsHeld, SessionInvHolds, TypesHold, PTL
  DEF Spec, HistorySpec, History!Spec

\* So no migration is in the table without those it depends on: it takes --all
\* or a user who picks migrations to bring that about.
THEOREM DependencyClosedHolds ==
  ASSUME BreakPolicy # "any", Unattended
  PROVE  Spec => []DependencyClosed
<1>1. RowHeld /\ SessionInv /\ JobsKnown /\ DataType /\ HistoryInv
      /\ [Next]_vars => HistoryInv'
  BY StepKeepsHistory
<1>2. HistoryInv => DependencyClosed
  BY DEF HistoryInv, Closed, DependencyClosed
<1> QED
  BY <1>1, <1>2, InitHistory, RowIsHeld, SessionInvHolds, TypesHold, PTL
  DEF Spec
==============================================================================
