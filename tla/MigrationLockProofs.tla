------------------------- MODULE MigrationLockProofs -------------------------
(***************************************************************************)
(* Theorems about MigrationLock, for any backends, pids and bounds.        *)
(*                                                                         *)
(* They assume that the operator breaks no lock whose owner is still in    *)
(* its block (BreakPolicy # "any").  Which programs call lock() again on a *)
(* backend whose last lock() block raised (Retrying) is left open; where   *)
(* none does, no two bodies overlap at all.                                *)
(***************************************************************************)
EXTENDS MigrationLock, TLAPS

(***************************************************************************)
(* What a backend knows of the lock table from where it is: from its       *)
(* INSERT to its DELETE the row is its own.  The flag of a program that    *)
(* does not go on behind an exception is down while it is outside or       *)
(* waiting, so that the flag never lets it in without a row.               *)
(***************************************************************************)
OwnsRow(b) == HasInserted(b) => lock_table = b

OutsideClean(b) ==
  b \notin Retrying /\ pc[b] \in {"idle", "polling"} => ~is_locked[b]

NeverBorrows(b) == b \notin Retrying => pc[b] # "borrowing"

LockInv ==
  \A b \in Backends : OwnsRow(b) /\ OutsideClean(b) /\ NeverBorrows(b)

-----------------------------------------------------------------------------
LEMMA InitType == Init => TypeOK
BY LockAssumption DEF Init, TypeOK, PCs

LEMMA StepType == TypeOK /\ [Next]_vars => TypeOK'
<1> SUFFICES ASSUME TypeOK, [Next]_vars PROVE TypeOK'
  OBVIOUS
<1> USE LockAssumption DEF TypeOK, PCs, Goto, AfterRaise
<1>1. CASE \E b \in Backends : BackendStep(b)
  <2> PICK b \in Backends : BackendStep(b)
    BY <1>1
  <2>1. CASE CallLock(b)
    BY <2>1 DEF CallLock
  <2>2. CASE Borrow(b)
    BY <2>2 DEF Borrow
  <2>3. CASE EnterNested(b)
    BY <2>3 DEF EnterNested
  <2>4. CASE LeaveNested(b)
    BY <2>4 DEF LeaveNested
  <2>5. CASE Poll(b)
    <3>1. CASE InsertLockRow(b)
      BY <3>1 DEF InsertLockRow
    <3>2. CASE PollAgain(b)
      BY <3>2 DEF PollAgain
    <3>3. CASE LockTimeout(b)
      BY <3>3 DEF LockTimeout
    <3> QED
      BY <2>5, <3>1, <3>2, <3>3 DEF Poll
  <2>6. CASE BodyReturns(b)
    BY <2>6 DEF BodyReturns
  <2>7. CASE BodyRaises(b)
    BY <2>7 DEF BodyRaises
  <2>8. CASE DeleteLockRow(b)
    BY <2>8 DEF DeleteLockRow
  <2>9. CASE DeleteFails(b)
    BY <2>9 DEF DeleteFails
  <2>10. CASE Crash(b)
    BY <2>10 DEF Crash
  <2> QED
    BY <2>1, <2>2, <2>3, <2>4, <2>5, <2>6, <2>7, <2>8, <2>9, <2>10
    DEF BackendStep
<1>2. CASE BreakLock
  BY <1>2 DEF BreakLock
<1>3. CASE UNCHANGED vars
  BY <1>3 DEF vars
<1> QED
  BY <1>1, <1>2, <1>3 DEF Next

\* Every variable keeps its type, under every policy and for every program.
THEOREM TypeCorrect == Spec => []TypeOK
BY InitType, StepType, PTL DEF Spec

-----------------------------------------------------------------------------
\* A step keeps the invariant when live locks are not broken.
LEMMA StepInv ==
  ASSUME BreakPolicy # "any",
         TypeOK, LockInv, [Next]_vars
  PROVE  LockInv'
<1> USE LockAssumption DEF TypeOK, LockInv, OwnsRow, OutsideClean,
        NeverBorrows, HasInserted, InBody, Goto, AfterRaise
<1>1. CASE \E b \in Backends : BackendStep(b)
  <2> PICK b \in Backends : BackendStep(b)
    BY <1>1
  <2>1. CASE CallLock(b)
    BY <2>1 DEF CallLock
  <2>2. CASE Borrow(b)
    BY <2>2 DEF Borrow
  <2>3. CASE EnterNested(b)
    BY <2>3 DEF EnterNested
  <2>4. CASE LeaveNested(b)
    BY <2>4 DEF LeaveNested
  <2>5. CASE Poll(b)
    <3>1. CASE InsertLockRow(b)
      BY <3>1 DEF InsertLockRow
    <3>2. CASE PollAgain(b)
      BY <3>2 DEF PollAgain
    <3>3. CASE LockTimeout(b)
      BY <3>3 DEF LockTimeout
    <3> QED
      BY <2>5, <3>1, <3>2, <3>3 DEF Poll
  <2>6. CASE BodyReturns(b)
    BY <2>6 DEF BodyReturns
  <2>7. CASE BodyRaises(b)
    BY <2>7 DEF BodyRaises
  <2>8. CASE DeleteLockRow(b)
    \* The row is b's own, so the DELETE finds it whatever the other pids are.
    <3>1. lock_table = b
      BY <2>8 DEF DeleteLockRow
    <3>2. lock_table' = NoRow
      BY <2>8, <3>1 DEF DeleteLockRow
    <3> QED
      BY <2>8, <3>1, <3>2 DEF DeleteLockRow
  <2>9. CASE DeleteFails(b)
    BY <2>9 DEF DeleteFails
  <2>10. CASE Crash(b)
    BY <2>10 DEF Crash
  <2> QED
    BY <2>1, <2>2, <2>3, <2>4, <2>5, <2>6, <2>7, <2>8, <2>9, <2>10
    DEF BackendStep
<1>2. CASE BreakLock
  \* Only a stale row is removed, and no backend in its block has lost one.
  BY <1>2 DEF BreakLock, StaleRow
<1>3. CASE UNCHANGED vars
  BY <1>3 DEF vars
<1> QED
  BY <1>1, <1>2, <1>3 DEF Next

LEMMA InvHolds ==
  ASSUME BreakPolicy # "any"
  PROVE  Spec => [](TypeOK /\ LockInv)
<1>1. Init => LockInv
  BY LockAssumption DEF Init, LockInv, OwnsRow, OutsideClean, NeverBorrows,
                        HasInserted
<1>2. TypeOK /\ LockInv /\ [Next]_vars => TypeOK' /\ LockInv'
  BY StepType, StepInv
<1> QED
  BY InitType, <1>1, <1>2, PTL DEF Spec

LEMMA InvExcludes == LockInv => MutualExclusion
BY DEF LockInv, OwnsRow, NeverBorrows, HasInserted, InBody, MutualExclusion

\* At most one backend is in the body of a lock() block, but for those that an
\* exception has left flagged, whatever pids the processes share.
THEOREM MutualExclusionHolds ==
  ASSUME BreakPolicy # "any"
  PROVE  Spec => []MutualExclusion
BY InvHolds, InvExcludes, PTL

\* And at most one without exception where no program goes on behind one.
THEOREM NoConcurrentMigrationsHolds ==
  ASSUME BreakPolicy # "any", Retrying = {}
  PROVE  Spec => []NoConcurrentMigrations
<1>1. MutualExclusion => NoConcurrentMigrations
  BY DEF MutualExclusion, NoConcurrentMigrations
<1> QED
  BY MutualExclusionHolds, <1>1, PTL

\* A row that nobody stands behind any more stays until the operator removes
\* it: whoever runs a finally clause has the row of its own, so that a shared
\* pid does no harm, and the row's backend does not get back to one.
THEOREM StaleRowStaysHolds ==
  ASSUME BreakPolicy # "any"
  PROVE  Spec => StaleRowStays
<1>1. TypeOK /\ LockInv /\ [Next]_vars
        => [StaleRow => lock_table' = lock_table \/ BreakLock]_vars
  <2> SUFFICES ASSUME TypeOK, LockInv, Next, StaleRow, ~BreakLock
               PROVE  lock_table' = lock_table
    OBVIOUS
  <2>1. PICK b \in Backends : BackendStep(b)
    BY DEF Next
  <2>2. ~InsertLockRow(b)
    BY DEF StaleRow, InsertLockRow
  <2>3. ~DeleteLockRow(b)
    <3>1. pc[b] = "deleting" => HasInserted(b) /\ lock_table = b
      BY DEF LockInv, OwnsRow, HasInserted
    <3> QED
      BY <3>1 DEF StaleRow, DeleteLockRow
  <2> QED
    BY <2>1, <2>2, <2>3
    DEF BackendStep, Poll, CallLock, Borrow, EnterNested, LeaveNested,
        PollAgain, LockTimeout, BodyReturns, BodyRaises, DeleteFails, Crash
<1> QED
  BY InvHolds, <1>1, PTL DEF Spec, StaleRowStays

-----------------------------------------------------------------------------
\* Distinct pids are what keeps a DELETE from removing a foreign row; no other
\* assumption is needed, not even that live locks stay unbroken.
THEOREM NoForeignReleaseHolds ==
  ASSUME \A a, b \in Backends : PidOf[a] = PidOf[b] => a = b
  PROVE  Spec => NoForeignRelease
<1> DEFINE Kept ==
      \A b \in Backends :
        pc[b] = "deleting" /\ pc'[b] # "deleting" /\ lock_table # b
          => lock_table' = lock_table
<1>1. TypeOK /\ [Next]_vars => [Kept]_vars
  <2> SUFFICES ASSUME TypeOK, Next,
                      NEW b \in Backends,
                      pc[b] = "deleting", pc'[b] # "deleting",
                      lock_table # b
               PROVE  lock_table' = lock_table
    OBVIOUS
  <2> USE DEF TypeOK, Goto
  \* Only b's own steps move b, and BreakLock moves nobody.
  <2>1. PICK c \in Backends : BackendStep(c)
    BY DEF Next, BreakLock
  <2>2. CASE DeleteLockRow(c)
    <3>1. c = b
      BY <2>2 DEF DeleteLockRow
    <3> QED
      BY <2>2, <3>1 DEF DeleteLockRow
  <2>3. CASE InsertLockRow(c)
    BY <2>3 DEF InsertLockRow
  <2>4. CASE ~(DeleteLockRow(c) \/ InsertLockRow(c))
    BY <2>1, <2>4
    DEF BackendStep, Poll, CallLock, Borrow, EnterNested, LeaveNested,
        PollAgain, LockTimeout, BodyReturns, BodyRaises, DeleteFails, Crash
  <2> QED
    BY <2>2, <2>3, <2>4
<1> QED
  BY TypeCorrect, <1>1, PTL DEF Spec, NoForeignRelease
==============================================================================
