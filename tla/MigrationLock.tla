---------------------------- MODULE MigrationLock ----------------------------
(***************************************************************************)
(* The migration lock of yoyo/backends.py: DatabaseBackend.lock() and the  *)
(* methods it calls, and break_lock().                                     *)
(*                                                                         *)
(* The lock is a row of the table yoyo_lock.  Its primary key is the       *)
(* column "locked", which is always 1, so the table has at most one row.   *)
(* A backend inserts the row to enter its with-block and deletes it on the *)
(* way out; the flag _is_locked makes lock() re-entrant on one backend.    *)
(*                                                                         *)
(* The INSERT and the DELETE each run in a transaction of their own, so    *)
(* each is one atomic step; everything between them interleaves.           *)
(***************************************************************************)
EXTENDS Naturals

CONSTANTS
  Backends,     \* the DatabaseBackend objects, each with its own connection
  PidOf,        \* the os.getpid() of the process a backend lives in; threads,
                \* and processes on two hosts, may have the same one
  Retrying,     \* the backends whose program catches an exception raised by a
                \* lock() block and calls lock() on the same object again
  BreakPolicy,  \* when the operator runs "yoyo break-lock": "never", when the
                \* lock is "stale", or at "any" time
  MaxPolls,     \* polls that fit in the lock timeout (timeout / poll_interval)
  MaxNested,    \* bound on lock() blocks nested in the outermost one
  NoRow         \* the lock table is empty

ASSUME LockAssumption ==
  /\ NoRow \notin Backends
  /\ Retrying \subseteq Backends
  /\ BreakPolicy \in {"never", "stale", "any"}
  /\ MaxPolls \in Nat
  /\ MaxNested \in Nat

VARIABLES
  lock_table,   \* the backend that inserted the row of yoyo_lock, or NoRow;
                \* the row itself holds only that backend's pid
  is_locked,    \* DatabaseBackend._is_locked
  pc,           \* where each backend is in its outermost lock() block
  nested,       \* how many lock() blocks are open inside the outermost one
  polls         \* failed INSERTs of the current _insert_lock_row call

vars == <<lock_table, is_locked, pc, nested, polls>>

(***************************************************************************)
(* "polling" is the loop of _insert_lock_row.  A body is "holding" when    *)
(* its lock() call inserted the row and "borrowing" when it was let in by  *)
(* the flag.  "deleting" is the finally clause.  A program whose lock()    *)
(* block raised has "ended" unless it is one that retries.                 *)
(***************************************************************************)
PCs == {"idle", "polling", "holding", "borrowing", "deleting", "ended",
        "crashed"}

TypeOK ==
  /\ lock_table \in Backends \cup {NoRow}
  /\ is_locked \in [Backends -> BOOLEAN]
  /\ pc \in [Backends -> PCs]
  /\ nested \in [Backends -> 0..MaxNested]
  /\ polls \in [Backends -> 0..MaxPolls]

Init ==
  /\ lock_table = NoRow
  /\ is_locked = [b \in Backends |-> FALSE]
  /\ pc = [b \in Backends |-> "idle"]
  /\ nested = [b \in Backends |-> 0]
  /\ polls = [b \in Backends |-> 0]

InBody(b) == pc[b] \in {"holding", "borrowing"}

\* b is between the INSERT of its row and the end of the finally clause.
HasInserted(b) == pc[b] \in {"holding", "deleting"}

\* Where a backend is once an exception has left its lock() block.
AfterRaise(b) == IF b \in Retrying THEN "idle" ELSE "ended"

Goto(b, label) == pc' = [pc EXCEPT ![b] = label]

-----------------------------------------------------------------------------
\* lock() on a backend that is not flagged: start polling.
CallLock(b) ==
  /\ pc[b] = "idle"
  /\ ~is_locked[b]
  /\ polls' = [polls EXCEPT ![b] = 0]
  /\ Goto(b, "polling")
  /\ UNCHANGED <<lock_table, is_locked, nested>>

\* lock() on a flagged backend, whatever set the flag: enter without a row.
Borrow(b) ==
  /\ pc[b] = "idle"
  /\ is_locked[b]
  /\ Goto(b, "borrowing")
  /\ UNCHANGED <<lock_table, is_locked, nested, polls>>

\* The same call from inside a body, as ensure_internal_schema_updated makes.
EnterNested(b) ==
  /\ InBody(b)
  /\ is_locked[b]
  /\ nested[b] < MaxNested
  /\ nested' = [nested EXCEPT ![b] = @ + 1]
  /\ UNCHANGED <<lock_table, is_locked, pc, polls>>

\* A nested block ends, normally or not: lock() has nothing to undo for it.
LeaveNested(b) ==
  /\ InBody(b)
  /\ nested[b] > 0
  /\ nested' = [nested EXCEPT ![b] = @ - 1]
  /\ UNCHANGED <<lock_table, is_locked, pc, polls>>

\* Mutant: the column "locked" is not a key.
InsertWithoutKey(b) ==
  /\ pc[b] = "polling"
  /\ lock_table' = b
  /\ is_locked' = [is_locked EXCEPT ![b] = TRUE]
  /\ Goto(b, "holding")
  /\ UNCHANGED <<nested, polls>>

\* The INSERT succeeds only on an empty table: "locked" is the primary key.
InsertLockRow(b) ==
  /\ pc[b] = "polling"
  /\ lock_table = NoRow
  /\ lock_table' = b
  /\ is_locked' = [is_locked EXCEPT ![b] = TRUE]
  /\ Goto(b, "holding")
  /\ UNCHANGED <<nested, polls>>

\* Mutant: the test of the timeout lets one poll too many pass.
PollOnceMore(b) ==
  /\ pc[b] = "polling"
  /\ polls[b] <= MaxPolls
  /\ polls' = [polls EXCEPT ![b] = @ + 1]
  /\ UNCHANGED <<lock_table, is_locked, pc, nested>>

\* Mutant: the clock is started again on every turn of the loop.
PollRestarting(b) ==
  /\ pc[b] = "polling"
  /\ polls' = [polls EXCEPT ![b] = (@ + 1) % (MaxPolls + 1)]
  /\ UNCHANGED <<lock_table, is_locked, pc, nested>>

\* The INSERT raises a DatabaseError, because of the row or of any other
\* cause, and the timeout has not passed: sleep and try again.
PollAgain(b) ==
  /\ pc[b] = "polling"
  /\ polls[b] < MaxPolls
  /\ polls' = [polls EXCEPT ![b] = @ + 1]
  /\ UNCHANGED <<lock_table, is_locked, pc, nested>>

\* The same error after the timeout.  One slow INSERT may use it up, and at
\* MaxPolls it has passed for certain.
LockTimeout(b) ==
  /\ pc[b] = "polling"
  /\ Goto(b, AfterRaise(b))
  /\ UNCHANGED <<lock_table, is_locked, nested, polls>>

\* Mutant: the finally clause also runs for a block that inserted no row.
BodyReturnsReleasing(b) ==
  /\ nested[b] = 0
  /\ InBody(b)
  /\ is_locked' = [is_locked EXCEPT ![b] = FALSE]
  /\ Goto(b, "deleting")
  /\ UNCHANGED <<lock_table, nested, polls>>

\* The outermost block ends normally.
BodyReturns(b) ==
  /\ nested[b] = 0
  /\ \/ /\ pc[b] = "holding"
        /\ is_locked' = [is_locked EXCEPT ![b] = FALSE]
        /\ Goto(b, "deleting")
     \/ /\ pc[b] = "borrowing"
        /\ Goto(b, "idle")
        /\ UNCHANGED is_locked
  /\ UNCHANGED <<lock_table, nested, polls>>

\* The outermost block raises: the finally clause runs, but the assignment
\* that clears _is_locked is skipped.
BodyRaises(b) ==
  /\ nested[b] = 0
  /\ InBody(b)
  /\ Goto(b, IF pc[b] = "holding" THEN "deleting" ELSE AfterRaise(b))
  /\ UNCHANGED <<lock_table, is_locked, nested, polls>>

\* Mutant: DELETE without WHERE, as in break_lock.
DeleteAnyRow(b) ==
  /\ pc[b] = "deleting"
  /\ lock_table' = NoRow
  /\ Goto(b, IF is_locked[b] THEN AfterRaise(b) ELSE "idle")
  /\ UNCHANGED <<is_locked, nested, polls>>

\* DELETE ... WHERE pid = :pid.  The flag is still set just when the body
\* raised, and then the exception goes on to the caller.
DeleteLockRow(b) ==
  /\ pc[b] = "deleting"
  /\ lock_table' = IF lock_table # NoRow /\ PidOf[lock_table] = PidOf[b]
                   THEN NoRow ELSE lock_table
  /\ Goto(b, IF is_locked[b] THEN AfterRaise(b) ELSE "idle")
  /\ UNCHANGED <<is_locked, nested, polls>>

\* The DELETE raises a DatabaseError: its transaction is rolled back.
DeleteFails(b) ==
  /\ pc[b] = "deleting"
  /\ Goto(b, AfterRaise(b))
  /\ UNCHANGED <<lock_table, is_locked, nested, polls>>

\* The process dies.  A committed row stays in the table.
Crash(b) ==
  /\ pc[b] = "polling" \/ InBody(b) \/ pc[b] = "deleting"
  /\ Goto(b, "crashed")
  /\ UNCHANGED <<lock_table, is_locked, nested, polls>>

\* The row belongs to a backend that is no longer in its lock() block.
StaleRow == lock_table # NoRow /\ ~HasInserted(lock_table)

\* The operator runs "yoyo break-lock".
BreakLock ==
  /\ \/ BreakPolicy = "any" /\ lock_table # NoRow
     \/ BreakPolicy = "stale" /\ StaleRow
  /\ lock_table' = NoRow
  /\ UNCHANGED <<is_locked, pc, nested, polls>>

-----------------------------------------------------------------------------
\* One iteration of the loop of _insert_lock_row.
Poll(b) == InsertLockRow(b) \/ PollAgain(b) \/ LockTimeout(b)

BackendStep(b) ==
  \/ CallLock(b) \/ Borrow(b) \/ EnterNested(b) \/ LeaveNested(b)
  \/ Poll(b)
  \/ BodyReturns(b) \/ BodyRaises(b)
  \/ DeleteLockRow(b) \/ DeleteFails(b)
  \/ Crash(b)

Next == (\E b \in Backends : BackendStep(b)) \/ BreakLock

Spec == Init /\ [][Next]_vars

\* The loop of _insert_lock_row keeps running: every INSERT returns or raises.
FairSpec == Spec /\ \A b \in Backends : WF_vars(Poll(b))

-----------------------------------------------------------------------------
\* "Create a lock to prevent concurrent migrations" (lock's docstring): the
\* bodies of two backends never run at the same time, unless one of them has
\* been let in by the flag that an exception left up, in a program that goes on
\* behind it.
MutualExclusion ==
  \A a, b \in Backends :
    InBody(a) /\ InBody(b) /\ a # b =>
      \E c \in {a, b} \cap Retrying : pc[c] = "borrowing"

\* The docstring without that exception.
NoConcurrentMigrations ==
  \A a, b \in Backends : InBody(a) /\ InBody(b) => a = b

\* "run yoyo break-lock to remove this lock" (the message of LockTimeout):
\* nothing else does.  A row whose backend crashed, or went on after its DELETE
\* failed, is in the way of all, that backend included, and no finally clause
\* takes it away: not that of the backend's own later blocks, nor that of
\* another backend with the same pid.
StaleRowStays ==
  [][StaleRow => lock_table' = lock_table \/ BreakLock]_vars

\* Leaving a lock() block never removes the row of another backend, even when
\* break-lock took the leaving backend's row away and another has since
\* inserted its own.
NoForeignRelease ==
  [][\A b \in Backends :
       pc[b] = "deleting" /\ pc'[b] # "deleting" /\ lock_table # b
         => lock_table' = lock_table]_vars

\* A call of lock() does not wait for ever: it gets the lock or times out,
\* also behind the row of a process that crashed.
LockCallEnds ==
  \A b \in Backends : pc[b] = "polling" ~> pc[b] # "polling"
=============================================================================
