------------------------ MODULE MigrationStepsProofs ------------------------
(***************************************************************************)
(* Theorems about the steps of a migration, for every tree of steps and    *)
(* groups and every choice of ignore_errors: what a command that fails or  *)
(* dies leaves in the database, and which errors stop a migration.  Behind *)
(* them are lemmas about the tree, and about the stack of the wrappers     *)
(* that are open while process_steps goes through it: which steps are      *)
(* still to be reached, and that no step is reached twice.                 *)
(***************************************************************************)
EXTENDS MigrationSteps, SequenceTheorems, TLAPS

-----------------------------------------------------------------------------
(* Types.                                                                  *)

CaseKnown == \E pair \in Cases : migration = pair[1] /\ driver = pair[2]

Frame == [node : Nodes, dir : {"apply", "rollback"}, sp : Nat,
          todo : Seq(Nodes)]

Savepoint == [id : Nat, contents : SUBSET Contents]

\* TypeOK, conjunct by conjunct.
Typed ==
  /\ migration.ignore \in [Nodes -> IgnoreValues]
  /\ work \subseteq Contents /\ stable \subseteq Contents
  /\ savepoints \in Seq(Savepoint) /\ next_id \in Nat
  /\ loop \in {"idle", "locked", "main", "undo", "returned", "leaving"}
  /\ direction \in {"apply", "rollback"}
  /\ driver \in {"sqlite", "postgresql", "mysql"}
  /\ in_transaction \in BOOLEAN /\ autocommit \in BOOLEAN /\ force \in BOOLEAN
  /\ todo \in Seq(Nodes) /\ executed \in Seq(Nodes)
  /\ frames \in Seq(Frame)
  /\ error \in {"none", "database", "other"}
  /\ fatal \in BOOLEAN /\ not_undone \in BOOLEAN /\ cut_off \in BOOLEAN
  /\ outcome \in {"none", "apply", "rollback", "unrecorded", "failed",
                  "crashed"}
  /\ before \subseteq Steps /\ skipped \subseteq Steps

TypeInv == CaseKnown /\ Typed

LEMMA CaseFacts ==
  ASSUME CaseKnown
  PROVE  /\ Items \in [Nodes -> Seq(Nodes)]
         /\ Top \in Seq(Nodes)
         /\ migration.ignore \in [Nodes -> IgnoreValues]
         /\ UseTransactions \in BOOLEAN
         /\ LockRow \notin Steps /\ TableRow \notin Steps
         /\ driver \in {"sqlite", "postgresql", "mysql"}
BY StepsAssumption DEF CaseKnown, Items, Nodes, Top, UseTransactions, Steps,
   StepsOf

\* The migration is the same in every state.
LEMMA SameCase ==
  ASSUME [Next]_vars
  PROVE  /\ migration' = migration /\ driver' = driver
         /\ Nodes' = Nodes /\ Items' = Items /\ Steps' = Steps /\ Top' = Top
         /\ Contents' = Contents /\ Frame' = Frame /\ Savepoint' = Savepoint
         /\ UseTransactions' = UseTransactions
         /\ has_transactional_ddl' = has_transactional_ddl
<1>1. migration' = migration /\ driver' = driver
  BY DEF Next, vars, call, Lock, Begin, FailBegin, OpenTop, OpenItem, Open,
     NoStatement, Statement, FailStatement, EndGroup, IgnoreError, PassError,
     StartUndo, Abort, Commit, FailCommit, Record, FailLog, FailRecord, Release,
     FailRelease, Crash, BreakLock
<1>2. Nodes' = Nodes /\ Items' = Items /\ Steps' = Steps /\ Top' = Top
  BY <1>1 DEF Nodes, Items, Steps, Top
<1>3. Contents' = Contents
  BY <1>2 DEF Contents
<1> QED
  BY <1>1, <1>2, <1>3
     DEF Frame, Savepoint, UseTransactions, has_transactional_ddl

\* What SequencesExt says of the ends of a sequence, and of its reverse.
LEMMA EndsOf ==
  ASSUME NEW S, NEW s \in Seq(S), s # <<>>
  PROVE  /\ Last(s) \in S /\ Last(s) = s[Len(s)] /\ Len(s) \in DOMAIN s
         /\ Front(s) \in Seq(S)
         /\ Len(Front(s)) = Len(s) - 1
         /\ \A i \in 1..(Len(s) - 1) : Front(s)[i] = s[i]
<1>1. Len(s) \in Nat /\ Len(s) > 0 /\ DOMAIN s = 1..Len(s)
  OBVIOUS
<1>2. \A i \in 1..Len(s) : s[i] \in S
  BY <1>1
<1>3. \A i \in 1..(Len(s) - 1) : s[i] \in S
  BY <1>1, <1>2
<1>4. /\ SubSeq(s, 1, Len(s) - 1) \in Seq(S)
      /\ Len(SubSeq(s, 1, Len(s) - 1)) = Len(s) - 1
      /\ \A i \in 1..(Len(s) - 1) : SubSeq(s, 1, Len(s) - 1)[i] = s[i]
  BY <1>1, <1>3
<1> QED
  BY <1>1, <1>2, <1>4 DEF Last, Front

LEMMA NoElements ==
  <<>> \in Seq(Frame) /\ <<>> \in Seq(Savepoint) /\ <<>> \in Seq(Nodes)
OBVIOUS

LEMMA Reversed ==
  ASSUME NEW S, NEW s \in Seq(S)
  PROVE  Reverse(s) \in Seq(S)
<1>1. Reverse(s) = [i \in 1..Len(s) |-> s[(Len(s) - i) + 1]]
  BY DEF Reverse
<1>2. \A i \in 1..Len(s) : s[(Len(s) - i) + 1] \in S
  OBVIOUS
<1> QED
  BY <1>1, <1>2

LEMMA InitTypes == Init => TypeInv
<1> SUFFICES ASSUME Init PROVE TypeInv
  OBVIOUS
<1>1. CaseKnown
  BY DEF Init, CaseKnown
<1> QED
  BY <1>1, CaseFacts, NoElements DEF Init, TypeInv, Typed, Contents

\* The wrapper that returns is taken off the stack.
LEMMA ReturnTypes ==
  ASSUME TypeInv, frames # <<>>, Return
  PROVE  frames' \in Seq(Frame) /\ executed' \in Seq(Nodes)
<1>1. frames \in Seq(Frame) /\ executed \in Seq(Nodes)
  BY DEF TypeInv, Typed
<1>2. Front(frames) \in Seq(Frame) /\ Last(frames) \in Frame
  BY <1>1, EndsOf
<1>3. Innermost.node \in Nodes
  BY <1>2 DEF Innermost, Frame
<1> QED
  BY <1>1, <1>2, <1>3 DEF Return

LEMMA OpenTypes ==
  ASSUME TypeInv, NEW n \in Nodes, NEW d \in {"apply", "rollback"},
         NEW outer \in Seq(Frame), Open(n, d, outer)
  PROVE  /\ frames' \in Seq(Frame) /\ savepoints' \in Seq(Savepoint)
         /\ next_id' \in Nat
<1>1. /\ Items[n] \in Seq(Nodes) /\ next_id \in Nat /\ work \subseteq Contents
      /\ savepoints \in Seq(Savepoint)
  BY CaseFacts DEF TypeInv, Typed
<1> DEFINE frame == [node |-> n, dir |-> d, todo |-> Items[n],
                     sp |-> IF UseTransactions THEN next_id ELSE 0]
           point == [id |-> next_id, contents |-> work]
<1>2. frame \in Frame
  BY <1>1 DEF Frame
<1>3. point \in Savepoint
  BY <1>1 DEF Savepoint
<1>4. frames' = Append(outer, frame)
  BY DEF Open
<1>5. savepoints' = Append(savepoints, point) \/ savepoints' = savepoints
  BY DEF Open
<1>6. next_id' \in Nat
  BY <1>1 DEF Open
<1> HIDE DEF frame, point
<1> QED
  BY <1>1, <1>2, <1>3, <1>4, <1>5, <1>6

LEMMA RollbackToTypes ==
  ASSUME TypeInv, NEW i \in DOMAIN savepoints, RollbackTo(i)
  PROVE  work' \subseteq Contents /\ savepoints' \in Seq(Savepoint)
<1>1. savepoints \in Seq(Savepoint)
  BY DEF TypeInv, Typed
<1>2. savepoints[i] \in Savepoint
  BY <1>1
<1>3. SubSeq(savepoints, 1, i) \in Seq(Savepoint)
  BY <1>1
<1> QED
  BY <1>2, <1>3 DEF RollbackTo, Savepoint

LEMMA StepTypes == TypeInv /\ [Next]_vars => TypeInv'
<1> SUFFICES ASSUME TypeInv, [Next]_vars PROVE TypeInv'
  OBVIOUS
<1> USE SameCase, CaseFacts, NoElements
<1>0. CaseKnown /\ CaseKnown'
  BY DEF TypeInv, CaseKnown
<1> SUFFICES Typed'
  BY <1>0 DEF TypeInv
<1>1. CASE Lock
  BY <1>0, <1>1 DEF Lock, TypeInv, Typed, call, connection, Contents
<1>2. ASSUME NEW d \in {"apply", "rollback"}, Begin(d)
      PROVE  Typed'
  <2>1. Reverse(Top) \in Seq(Nodes) /\ Top \in Seq(Nodes)
    BY <1>0, Reversed
  <2>2. todo' \in Seq(Nodes) /\ force' \in BOOLEAN
    BY <1>2, <2>1, StepsAssumption DEF Begin
  <2> QED
    BY <1>0, <1>2, <2>2 DEF Begin, TypeInv, Typed, database, history
<1>3. CASE OpenTop
  <2>1. /\ todo \in Seq(Nodes) /\ todo # <<>>
        /\ LoopDirection \in {"apply", "rollback"}
    BY <1>3 DEF OpenTop, TypeInv, Typed, LoopDirection, Opposite
  <2>2. Head(todo) \in Nodes /\ Tail(todo) \in Seq(Nodes)
    BY <2>1
  <2>3. <<>> \in Seq(Frame)
    OBVIOUS
  <2>4. /\ frames' \in Seq(Frame) /\ savepoints' \in Seq(Savepoint)
        /\ next_id' \in Nat
    BY <1>3, <2>1, <2>2, <2>3, OpenTypes DEF OpenTop
  <2> QED
    BY <1>0, <1>3, <2>2, <2>4
       DEF OpenTop, Open, TypeInv, Typed, call, connection, history
<1>4. CASE OpenItem
  <2>1. frames \in Seq(Frame) /\ frames # <<>>
    BY <1>4 DEF OpenItem, InGroup, TypeInv, Typed
  <2>2. Last(frames) \in Frame /\ Len(frames) \in DOMAIN frames
    BY <2>1, EndsOf
  <2>3. Innermost.todo \in Seq(Nodes) /\ Innermost.todo # <<>>
    BY <1>4, <2>2 DEF OpenItem, Innermost, Frame
  <2>4. Head(Innermost.todo) \in Nodes /\ Tail(Innermost.todo) \in Seq(Nodes)
    BY <2>3
  <2> DEFINE outer == [frames EXCEPT ![Len(frames)].todo = Tail(@)]
  <2>5. outer \in Seq(Frame)
    <3>1. frames[Len(frames)] = Innermost /\ Innermost \in Frame
      BY <2>1, <2>2, EndsOf DEF Innermost
    <3>2. [Innermost EXCEPT !.todo = Tail(@)] \in Frame
      BY <3>1, <2>4 DEF Frame
    <3>3. outer = [frames EXCEPT ![Len(frames)] =
                                   [Innermost EXCEPT !.todo = Tail(@)]]
      BY <3>1, <2>1, <2>2
    <3> HIDE DEF outer
    <3> QED
      BY <3>2, <3>3, <2>1, <2>2
  <2>6. /\ frames' \in Seq(Frame) /\ savepoints' \in Seq(Savepoint)
        /\ next_id' \in Nat
    BY <1>4, <2>4, <2>5, OpenTypes DEF OpenItem
  <2> QED
    BY <1>0, <1>4, <2>6
       DEF OpenItem, Open, TypeInv, Typed, call, connection, history
<1>5. CASE NoStatement \/ EndGroup
  <2>1. frames # <<>> /\ Return
    BY <1>5 DEF NoStatement, EndGroup, InStep, InGroup
  <2>2. frames' \in Seq(Frame) /\ executed' \in Seq(Nodes)
    BY <2>1, ReturnTypes
  <2> QED
    BY <1>0, <1>5, <2>2 DEF NoStatement, EndGroup, TypeInv, Typed, call,
       database, connection, history
<1>6. CASE Statement
  <2>1. frames # <<>> /\ Return /\ InStep
    BY <1>6 DEF Statement, HasStatement, InStep
  <2>2. frames' \in Seq(Frame) /\ executed' \in Seq(Nodes)
    BY <2>1, ReturnTypes
  <2>3. Innermost.node \in Steps
    <3>1. Last(frames) \in Frame
      BY <2>1, EndsOf DEF TypeInv, Typed
    <3> QED
      BY <3>1, <2>1 DEF InStep, Innermost, Frame, Steps, StepsOf, Items, Nodes
  <2>4. work' \subseteq Contents
    BY <1>6, <2>3 DEF Statement, TypeInv, Typed, Contents
  <2>5. stable' \subseteq Contents /\ savepoints' \in Seq(Savepoint)
    BY <1>6, <2>4 DEF Statement, TypeInv, Typed
  <2> QED
    BY <1>0, <1>6, <2>2, <2>4, <2>5
       DEF Statement, TypeInv, Typed, call, connection, history
<1>7. CASE FailStatement
  <2>1. stable' \subseteq Contents /\ savepoints' \in Seq(Savepoint)
    BY <1>7 DEF FailStatement, TypeInv, Typed
  <2>2. fatal' \in BOOLEAN /\ not_undone' \in BOOLEAN
    BY <1>7 DEF FailStatement, TypeInv, Typed
  <2> QED
    BY <1>0, <1>7, <2>1, <2>2
       DEF FailStatement, TypeInv, Typed, call, connection, history
<1>8. CASE IgnoreError
  <2>1. frames # <<>> /\ Return
    BY <1>8 DEF IgnoreError
  <2>2. frames' \in Seq(Frame) /\ executed' \in Seq(Nodes)
    BY <2>1, ReturnTypes
  <2>3. work' \subseteq Contents /\ savepoints' \in Seq(Savepoint)
    BY <1>8, RollbackToTypes DEF IgnoreError, SavepointAt, TypeInv, Typed
  <2>4. skipped' \subseteq Steps
    BY <1>8 DEF IgnoreError, Under, TypeInv, Typed
  <2> QED
    BY <1>0, <1>8, <2>2, <2>3, <2>4
       DEF IgnoreError, TypeInv, Typed, call, connection, history
<1>9. CASE PassError
  <2>1. Front(frames) \in Seq(Frame)
    BY <1>9, EndsOf DEF PassError, TypeInv, Typed
  <2>2. work' \subseteq Contents /\ savepoints' \in Seq(Savepoint)
    BY <1>9, RollbackToTypes DEF PassError, SavepointAt, TypeInv, Typed
  <2> QED
    BY <1>0, <1>9, <2>1, <2>2
       DEF PassError, TypeInv, Typed, call, connection, history
<1>10. CASE StartUndo
  <2>1. Reverse(executed) \in Seq(Nodes)
    BY Reversed DEF TypeInv, Typed
  <2> QED
    BY <1>0, <1>10, <2>1
       DEF StartUndo, TypeInv, Typed, call, database, connection, history
<1>11. CASE Abort
  BY <1>0, <1>11 DEF Abort, Rollback, TypeInv, Typed, call, history
<1>12. CASE Commit
  BY <1>0, <1>12 DEF Commit, TypeInv, Typed, call, history
<1>13. CASE FailCommit
  BY <1>0, <1>13 DEF FailCommit, TypeInv, Typed, call, connection
<1>14. CASE Record \/ FailLog \/ FailRecord
  <2>1. CASE Record
    BY <1>0, <2>1 DEF Record, TypeInv, Typed, call, connection, history, Contents
  <2>2. CASE FailLog
    BY <1>0, <2>2 DEF FailLog, TypeInv, Typed, call, database, connection,
       history
  <2>3. CASE FailRecord
    <3>1. /\ stable' \in {stable, work}
          /\ in_transaction' \in BOOLEAN /\ cut_off' = in_transaction'
      BY <2>3 DEF FailRecord
    <3>2. stable' \subseteq Contents /\ cut_off' \in BOOLEAN
      BY <3>1 DEF TypeInv, Typed
    <3> QED
      BY <1>0, <2>3, <3>1, <3>2 DEF FailRecord, TypeInv, Typed, call
  <2> QED
    BY <1>14, <2>1, <2>2, <2>3
<1>15. CASE Release \/ FailRelease
  <2>1. stable \subseteq Contents /\ work \subseteq Contents
    BY DEF TypeInv, Typed
  <2>2. /\ stable' \subseteq Contents /\ work' \subseteq Contents
        /\ savepoints' = <<>> /\ next_id' = 1
        /\ in_transaction' = FALSE /\ autocommit' = FALSE
    <3>1. CASE Release
      BY <2>1, <3>1 DEF Release, Close
    <3>2. CASE FailRelease
      BY <2>1, <3>2 DEF FailRelease, Close
    <3> QED
      BY <1>15, <3>1, <3>2
  <2>3. /\ UNCHANGED <<call, todo, executed, frames, outcome>>
        /\ UNCHANGED <<before, skipped, fatal, not_undone>> /\ error' = "none"
        /\ loop' = "idle" /\ (cut_off' = TRUE \/ cut_off' = cut_off)
    BY <1>15 DEF Release, FailRelease, history
  <2>4. savepoints' \in Seq(Savepoint) /\ next_id' \in Nat
    BY <2>2
  <2>5. cut_off' \in BOOLEAN
    BY <2>3 DEF TypeInv, Typed
  <2> QED
    BY <1>0, <2>2, <2>3, <2>4, <2>5 DEF TypeInv, Typed, call
<1>16. CASE Crash
  BY <1>0, <1>16 DEF Crash, Close, TypeInv, Typed, call
<1>17. CASE BreakLock
  BY <1>0, <1>17 DEF BreakLock, TypeInv, Typed, call, connection, control,
     history
<1>18. CASE UNCHANGED vars
  BY <1>0, <1>18 DEF vars, TypeInv, Typed, call, database, connection, control,
     history
<1>19. ASSUME NEW d \in {"apply", "rollback"}, FailBegin(d)
       PROVE  Typed'
  <2>1. force' \in BOOLEAN
    BY <1>19, StepsAssumption DEF FailBegin
  <2> QED
    BY <1>0, <1>19, <2>1 DEF FailBegin, TypeInv, Typed, database
<1> QED
  BY <1>1, <1>2, <1>3, <1>4, <1>5, <1>6, <1>7, <1>8, <1>9, <1>10, <1>11,
     <1>12, <1>13, <1>14, <1>15, <1>16, <1>17, <1>18, <1>19 DEF Next

\* The type invariant, for every set of migrations.
THEOREM TypeCorrect == Spec => []TypeOK
<1>1. TypeInv => TypeOK
  BY DEF TypeInv, Typed, TypeOK, Frame, Savepoint
<1> QED
  BY InitTypes, StepTypes, <1>1, PTL DEF Spec

-----------------------------------------------------------------------------
(* The connection.                                                         *)

\* What _in_transaction, the connection and the outcome are where the command
\* is.  When it comes to its end the flag is set just behind a BEGIN or a COMMIT
\* that raised, and autocommit is on just behind a migration that failed outside
\* a transaction.
Phases ==
  /\ loop \in {"idle", "locked", "returned", "leaving"} => frames = <<>>
  /\ loop \in {"idle", "locked", "returned"} =>
       ~in_transaction /\ ~autocommit /\ error = "none"
  /\ loop \in {"locked", "main", "undo", "returned"} => ~cut_off
  /\ loop \in {"main", "undo"} =>
       /\ in_transaction = UseTransactions
       /\ autocommit <=> driver = "postgresql" /\ ~UseTransactions
  /\ loop = "leaving" =>
       (in_transaction <=> cut_off) /\ (autocommit <=> LeavesAutocommit)

Outcomes ==
  /\ loop \in {"locked", "main", "undo"} => outcome = "none"
  /\ loop = "returned" => outcome = "unrecorded"
  /\ loop = "leaving" => outcome # "crashed"

PhaseInv == TypeInv /\ Phases /\ Outcomes

\* The actions of the loops, between the BEGIN and the COMMIT or ROLLBACK.
LoopStep ==
  \/ OpenTop \/ OpenItem \/ NoStatement \/ Statement \/ FailStatement
  \/ EndGroup \/ IgnoreError \/ PassError \/ StartUndo

LEMMA LoopStays ==
  ASSUME PhaseInv, LoopStep
  PROVE  /\ loop \in {"main", "undo"} /\ loop' \in {"main", "undo"}
         /\ loop' = loop \/ StartUndo
         /\ UNCHANGED <<connection, outcome, before, cut_off, call>>
<1>1. frames # <<>> \/ StartUndo \/ OpenTop
  BY DEF LoopStep, OpenItem, NoStatement, Statement, FailStatement, EndGroup,
     HasStatement, InStep, InGroup, IgnoreError, PassError
<1>2. loop \in {"main", "undo"}
  BY <1>1 DEF PhaseInv, TypeInv, Typed, Phases, OpenTop, StartUndo
<1>3. CASE OpenTop \/ OpenItem
  BY <1>2, <1>3 DEF OpenTop, OpenItem, Open, history
<1>4. CASE NoStatement \/ Statement \/ EndGroup
  BY <1>2, <1>4 DEF NoStatement, Statement, EndGroup, history
<1>5. CASE FailStatement \/ IgnoreError
  BY <1>2, <1>5 DEF FailStatement, IgnoreError, history
<1>6. CASE PassError \/ StartUndo
  BY <1>2, <1>6 DEF PassError, StartUndo, history
<1> QED
  BY <1>3, <1>4, <1>5, <1>6 DEF LoopStep

LEMMA InitPhases == Init => PhaseInv
BY InitTypes DEF Init, PhaseInv, Phases, Outcomes

LEMMA StepPhases == PhaseInv /\ [Next]_vars => PhaseInv'
<1> SUFFICES ASSUME PhaseInv, [Next]_vars PROVE (Phases /\ Outcomes)'
  BY StepTypes DEF PhaseInv
<1> USE SameCase DEF LeavesAutocommit
<1>1. CASE Lock
  BY <1>1 DEF Lock, PhaseInv, Phases, Outcomes, connection
<1>2. ASSUME NEW d \in {"apply", "rollback"}, Begin(d)
      PROVE  (Phases /\ Outcomes)'
  <2>1. autocommit' <=> driver = "postgresql" /\ ~UseTransactions
    BY <1>2 DEF Begin
  <2>2. /\ loop = "locked" /\ loop' = "main"
        /\ in_transaction' = UseTransactions
        /\ UNCHANGED <<frames, error, outcome, cut_off>>
    BY <1>2 DEF Begin, history
  <2> QED
    BY <2>1, <2>2 DEF PhaseInv, Phases, Outcomes
<1>3. CASE LoopStep
  BY <1>3, LoopStays DEF PhaseInv, Phases, Outcomes, connection
<1>4. CASE Abort
  <2>1. loop \in {"main", "undo"}
    BY <1>4 DEF Abort, Ends
  <2>2. /\ autocommit <=> driver = "postgresql" /\ ~UseTransactions
        /\ ~cut_off
    BY <2>1 DEF PhaseInv, Phases
  <2>3. /\ frames = <<>> /\ frames' = frames /\ cut_off' = cut_off
        /\ loop' = "leaving" /\ outcome' = "failed"
        /\ ~in_transaction' /\ autocommit' = autocommit
    BY <1>4 DEF Abort, history
  <2> QED
    BY <2>2, <2>3 DEF Phases, Outcomes
<1>5. CASE Commit
  BY <1>5 DEF Commit, Completed, PhaseInv, Phases, Outcomes, history
<1>6. CASE FailCommit
  BY <1>6 DEF FailCommit, Completed, PhaseInv, Phases, Outcomes, connection
<1>7. CASE Record \/ FailLog \/ FailRecord
  <2>1. /\ loop = "returned" /\ loop' = "leaving"
        /\ UNCHANGED <<autocommit, frames>>
        /\ \/ UNCHANGED <<in_transaction, cut_off>>
           \/ cut_off' = in_transaction'
        /\ outcome' \in {direction, outcome}
    BY <1>7 DEF Record, FailLog, FailRecord, connection, history
  <2>2. outcome' \notin {"crashed", "failed"}
    BY <2>1 DEF PhaseInv, TypeInv, Typed, Outcomes
  <2> QED
    BY <2>1, <2>2 DEF PhaseInv, Phases, Outcomes
<1>8. CASE Release \/ FailRelease
  BY <1>8 DEF Release, FailRelease, Close, PhaseInv, Phases, Outcomes
<1>9. CASE Crash
  BY <1>9 DEF Crash, Close, PhaseInv, Phases, Outcomes
<1>10. CASE BreakLock
  BY <1>10 DEF BreakLock, PhaseInv, Phases, Outcomes, connection, control
<1>11. CASE UNCHANGED vars
  BY <1>11 DEF vars, call, database, connection, control, history, PhaseInv,
     Phases, Outcomes
<1>12. ASSUME NEW d \in {"apply", "rollback"}, FailBegin(d)
       PROVE  (Phases /\ Outcomes)'
  BY <1>12 DEF FailBegin, PhaseInv, Phases, Outcomes
<1> QED
  BY <1>1, <1>2, <1>3, <1>4, <1>5, <1>6, <1>7, <1>8, <1>9, <1>10, <1>11, <1>12
     DEF Next, LoopStep

-----------------------------------------------------------------------------
(* The row of the lock.                                                    *)

\* While a command runs its row is in the database, durable or not, and in
\* every savepoint that an error may take the connection back to.
RowInv ==
  /\ loop = "idle" => savepoints = <<>>
  /\ loop # "idle" =>
       /\ LockRow \in stable /\ LockRow \in work
       /\ \A i \in DOMAIN savepoints : LockRow \in savepoints[i].contents

LEMMA InitRow == Init => RowInv
BY DEF Init, RowInv

\* The wrappers and the statements of a migration leave the row alone.
LEMMA LoopKeepsRow ==
  ASSUME PhaseInv, RowInv, LoopStep
  PROVE  RowInv'
<1>1. loop # "idle" /\ loop' # "idle"
  BY LoopStays
<1>2. /\ LockRow \in stable /\ LockRow \in work
      /\ \A i \in DOMAIN savepoints : LockRow \in savepoints[i].contents
  BY <1>1 DEF RowInv
<1>3. savepoints \in Seq(Savepoint) /\ frames \in Seq(Frame)
  BY DEF PhaseInv, TypeInv, Typed
<1> SUFFICES /\ LockRow \in stable' /\ LockRow \in work'
             /\ \A i \in DOMAIN savepoints' :
                  LockRow \in savepoints'[i].contents
  BY <1>1 DEF RowInv
<1>4. ASSUME NEW n, NEW d, NEW outer, Open(n, d, outer)
      PROVE  /\ UNCHANGED <<stable, work>>
             /\ \A i \in DOMAIN savepoints' :
                  LockRow \in savepoints'[i].contents
  <2>1. CASE UseTransactions
    <3>1. savepoints' = Append(savepoints, [id |-> next_id, contents |-> work])
      BY <1>4, <2>1 DEF Open
    <3> QED
      BY <1>2, <1>3, <1>4, <3>1 DEF Open
  <2>2. CASE ~UseTransactions
    BY <1>2, <1>4, <2>2 DEF Open
  <2> QED
    BY <2>1, <2>2
<1>5. CASE OpenTop \/ OpenItem
  BY <1>2, <1>4, <1>5 DEF OpenTop, OpenItem
<1>6. CASE NoStatement \/ EndGroup \/ StartUndo
  BY <1>2, <1>6 DEF NoStatement, EndGroup, StartUndo, database
<1>7. CASE Statement
  <2>1. Innermost.node \in Steps
    <3>1. frames # <<>> /\ Items[Innermost.node] = <<>>
      BY <1>7 DEF Statement, HasStatement, InStep
    <3>2. Innermost \in Frame
      BY <1>3, <3>1, EndsOf DEF Innermost
    <3> QED
      BY <3>1, <3>2 DEF Frame, Steps, StepsOf, Items, Nodes
  <2>2. LockRow # Innermost.node
    BY <2>1, CaseFacts DEF PhaseInv, TypeInv
  <2>3. LockRow \in work'
    BY <1>2, <1>7, <2>2 DEF Statement
  <2> QED
    BY <1>2, <1>7, <2>3 DEF Statement
<1>8. CASE FailStatement
  BY <1>2, <1>8 DEF FailStatement
<1>9. CASE IgnoreError \/ PassError
  <2>1. stable' = stable
    BY <1>9 DEF IgnoreError, PassError
  <2>2. \/ UNCHANGED <<work, savepoints>>
        \/ \E i \in SavepointAt(Innermost) : RollbackTo(i)
    BY <1>9 DEF IgnoreError, PassError
  <2>3. CASE UNCHANGED <<work, savepoints>>
    BY <1>2, <2>1, <2>3
  <2>4. ASSUME NEW i \in SavepointAt(Innermost), RollbackTo(i)
        PROVE  /\ LockRow \in work'
               /\ \A j \in DOMAIN savepoints' :
                    LockRow \in savepoints'[j].contents
    <3>1. i \in 1..Len(savepoints) /\ DOMAIN savepoints = 1..Len(savepoints)
      BY <1>3 DEF SavepointAt
    <3>2. /\ work' = savepoints[i].contents
          /\ savepoints' = SubSeq(savepoints, 1, i)
      BY <2>4 DEF RollbackTo
    <3>3. \A j \in DOMAIN savepoints' :
            j \in DOMAIN savepoints /\ savepoints'[j] = savepoints[j]
      BY <1>3, <3>1, <3>2
    <3> QED
      BY <1>2, <3>1, <3>2, <3>3
  <2> QED
    BY <1>2, <2>1, <2>2, <2>3, <2>4
<1> QED
  BY <1>5, <1>6, <1>7, <1>8, <1>9 DEF LoopStep

LEMMA StepRow == PhaseInv /\ RowInv /\ [Next]_vars => RowInv'
<1> SUFFICES ASSUME PhaseInv, RowInv, [Next]_vars PROVE RowInv'
  OBVIOUS
<1>1. CASE Lock
  BY <1>1 DEF Lock, RowInv
<1>2. ASSUME NEW d \in {"apply", "rollback"}, Begin(d) \/ FailBegin(d)
      PROVE  RowInv'
  BY <1>2 DEF Begin, FailBegin, RowInv, database
<1>3. CASE LoopStep
  BY <1>3, LoopKeepsRow
<1>4. CASE Abort
  <2>1. loop \in {"main", "undo"}
    BY <1>4 DEF Abort, Ends
  <2> QED
    BY <1>4, <2>1 DEF Abort, Rollback, RowInv
<1>5. CASE Commit \/ FailCommit
  BY <1>5 DEF Commit, FailCommit, Completed, RowInv
<1>6. CASE Record
  <2>1. LockRow # TableRow
    BY StepsAssumption
  <2> QED
    BY <1>6, <2>1 DEF Record, RowInv
<1>7. CASE FailLog \/ FailRecord
  BY <1>7 DEF FailLog, FailRecord, RowInv, database
<1>8. CASE Release \/ FailRelease \/ Crash
  BY <1>8 DEF Release, FailRelease, Crash, Close, RowInv
<1>9. CASE BreakLock
  BY <1>9 DEF BreakLock, RowInv, control
<1>10. CASE UNCHANGED vars
  BY <1>10 DEF vars, database, control, RowInv
<1> QED
  BY <1>1, <1>2, <1>3, <1>4, <1>5, <1>6, <1>7, <1>8, <1>9, <1>10
     DEF Next, LoopStep

LEMMA StepReleased ==
  ASSUME PhaseInv, RowInv, [Next]_vars, loop # "idle", loop' = "idle"
  PROVE  LockRow \in stable' <=> cut_off' \/ LeavesAutocommit'
<1> USE SameCase DEF LeavesAutocommit
<1>a. LockRow \in stable /\ LockRow \in work
  BY DEF RowInv
<1>1. CASE Release
  <2>1. /\ loop = "leaving" /\ UNCHANGED <<outcome, cut_off>>
        /\ stable' = IF in_transaction \/ autocommit THEN stable
                     ELSE work \ {LockRow}
    BY <1>1 DEF Release, Close, history
  <2>2. (in_transaction <=> cut_off) /\ (autocommit <=> LeavesAutocommit)
    BY <2>1 DEF PhaseInv, Phases
  <2> QED
    BY <1>a, <2>1, <2>2
<1>2. CASE FailRelease
  BY <1>a, <1>2 DEF FailRelease, Close
<1>3. CASE Crash
  BY <1>a, <1>3 DEF Crash, Close
<1>4. CASE LoopStep
  BY <1>4, LoopStays
<1>5. \A d \in {"apply", "rollback"} : ~Begin(d) /\ ~FailBegin(d)
  BY DEF Begin, FailBegin
<1>6. ~Lock /\ ~Abort /\ ~Commit /\ ~FailCommit
  BY DEF Lock, Abort, Commit, FailCommit
<1>7. ~Record /\ ~FailLog /\ ~FailRecord /\ ~BreakLock
  BY DEF Record, FailLog, FailRecord, BreakLock
<1>8. ~UNCHANGED vars
  BY DEF vars, control
<1> QED
  BY <1>1, <1>2, <1>3, <1>4, <1>5, <1>6, <1>7, <1>8 DEF Next, LoopStep

\* A command that ends leaves its lock row behind just for the reasons that
\* LockRowReleased names, whatever the migration is, whichever of its
\* statements fail, and wherever the errors of its transactions leave the flag.
THEOREM LockRowReleasedHolds == Spec => LockRowReleased
<1>1. PhaseInv /\ RowInv /\ [Next]_vars =>
        [loop # "idle" /\ loop' = "idle" =>
           (LockRow \in stable' <=> cut_off' \/ LeavesAutocommit')]_vars
  BY StepReleased
<1> QED
  BY InitPhases, StepPhases, InitRow, StepRow, <1>1, PTL
     DEF Spec, LockRowReleased

-----------------------------------------------------------------------------
(* Transactions leave no trace.                                            *)

Transactional == UseTransactions /\ has_transactional_ddl

\* Until its COMMIT nothing of a migration is durable, and what is rolled back
\* does not come back with a later one.
TraceInv ==
  Transactional =>
    /\ loop \in {"locked", "main"} => InDatabase = before
    /\ loop # "undo"
    /\ loop = "leaving" /\ outcome = "failed" =>
         InDatabase = before /\ (~in_transaction => work = stable)
    /\ loop = "idle" /\ outcome \in {"failed", "crashed"} => InDatabase = before

\* No statement of a transaction is durable by itself.
LEMMA LoopKeepsStable ==
  ASSUME PhaseInv, Transactional, LoopStep
  PROVE  stable' = stable
<1>1. loop \in {"main", "undo"}
  BY LoopStays
<1>2. in_transaction
  BY <1>1 DEF PhaseInv, Phases, Transactional
<1>3. ASSUME NEW n PROVE ~ImplicitCommit(n) /\ ~DurableAtOnce
  BY <1>2 DEF ImplicitCommit, DurableAtOnce, Transactional
<1>4. CASE Statement
  BY <1>3, <1>4 DEF Statement
<1>5. CASE FailStatement
  BY <1>3, <1>5 DEF FailStatement
<1> QED
  BY <1>4, <1>5 DEF LoopStep, OpenTop, OpenItem, Open, NoStatement, EndGroup,
     IgnoreError, PassError, StartUndo, database

LEMMA InitTrace == Init => TraceInv
BY DEF Init, TraceInv

LEMMA StepTrace == PhaseInv /\ TraceInv /\ [Next]_vars => TraceInv'
<1> SUFFICES ASSUME PhaseInv, TraceInv, [Next]_vars, Transactional
             PROVE  TraceInv'
  BY SameCase DEF TraceInv, Transactional
<1> USE SameCase DEF InDatabase
<1>0. LockRow \notin Steps /\ UseTransactions
  BY CaseFacts DEF PhaseInv, TypeInv, Transactional
<1>1. CASE Lock
  BY <1>0, <1>1 DEF Lock, TraceInv
<1>2. ASSUME NEW d \in {"apply", "rollback"}, Begin(d)
      PROVE  TraceInv'
  BY <1>2 DEF Begin, TraceInv, Transactional, database, history
<1>3. CASE LoopStep
  <2>1. stable' = stable /\ before' = before
    BY <1>3, LoopKeepsStable, LoopStays
  <2>2. ~StartUndo
    BY DEF StartUndo, Transactional
  <2>3. loop' = loop /\ loop = "main"
    BY <1>3, <2>2, LoopStays DEF TraceInv, Transactional
  <2> QED
    BY <2>1, <2>3 DEF TraceInv, Transactional
<1>4. CASE Abort
  <2>1. loop = "main"
    BY <1>4 DEF Abort, Ends, TraceInv, Transactional
  <2> QED
    BY <1>0, <1>4, <2>1 DEF Abort, Rollback, TraceInv, Transactional, history
<1>5. CASE Commit
  BY <1>5 DEF Commit, TraceInv
<1>6. CASE FailCommit
  <2>1. in_transaction'
    BY <1>0, <1>6 DEF FailCommit, Completed, PhaseInv, Phases, connection
  <2> QED
    BY <1>6, <2>1 DEF FailCommit, Completed, TraceInv, Transactional
<1>7. CASE Record \/ FailLog \/ FailRecord
  <2>1. loop' = "leaving" /\ outcome' # "failed"
    BY <1>7 DEF Record, FailLog, FailRecord, PhaseInv, TypeInv, Typed, Outcomes
  <2> QED
    BY <2>1 DEF TraceInv
<1>8. CASE Release \/ FailRelease
  <2>1. /\ loop = "leaving" /\ loop' = "idle"
        /\ UNCHANGED <<outcome, before>>
    BY <1>8 DEF Release, FailRelease, history
  <2>2. outcome' # "crashed"
    BY <2>1 DEF PhaseInv, Outcomes
  <2>3. ASSUME outcome = "failed"
        PROVE  InDatabase' = before'
    <3>1. InDatabase = before /\ (~in_transaction => work = stable)
      BY <2>1, <2>3 DEF TraceInv, Transactional
    <3>2. stable' \in {stable, stable \ {LockRow}}
      <4>1. CASE Release
        BY <3>1, <4>1 DEF Release, Close
      <4>2. CASE FailRelease
        BY <3>1, <4>2 DEF FailRelease, Close
      <4> QED
        BY <1>8, <4>1, <4>2
    <3> QED
      BY <1>0, <2>1, <3>1, <3>2
  <2> QED
    BY <2>1, <2>2, <2>3 DEF TraceInv
<1>9. CASE Crash
  <2>1. stable' = stable /\ before' = before /\ loop' = "idle"
    BY <1>9 DEF Crash, Close
  <2>2. CASE loop \in {"returned", "leaving"}
    BY <1>9, <2>1, <2>2
       DEF Crash, TraceInv, Transactional, PhaseInv, Outcomes
  <2>3. CASE loop \in {"locked", "main"}
    BY <2>1, <2>3 DEF TraceInv, Transactional
  <2> QED
    BY <1>9, <2>2, <2>3
       DEF Crash, TraceInv, Transactional, PhaseInv, TypeInv, Typed
<1>10. CASE BreakLock
  BY <1>0, <1>10 DEF BreakLock, TraceInv, Transactional, control, history
<1>11. CASE UNCHANGED vars
  BY <1>11 DEF vars, call, database, connection, control, history, TraceInv,
     Transactional
<1>12. ASSUME NEW d \in {"apply", "rollback"}, FailBegin(d)
       PROVE  TraceInv'
  BY <1>12 DEF FailBegin, TraceInv, Transactional, database
<1> QED
  BY <1>1, <1>2, <1>3, <1>4, <1>5, <1>6, <1>7, <1>8, <1>9, <1>10, <1>11, <1>12
     DEF Next, LoopStep

\* A command that dies anywhere leaves nothing of a transactional migration.
THEOREM CrashLeavesNoTraceHolds == Spec => []CrashLeavesNoTrace
<1>1. TraceInv => CrashLeavesNoTrace
  BY DEF TraceInv, CrashLeavesNoTrace, Transactional, Done
<1> QED
  BY InitPhases, StepPhases, InitTrace, StepTrace, <1>1, PTL DEF Spec

\* FailureLeavesNoTrace with transactional DDL, where it holds for every tree,
\* also when an exception is no DatabaseError.
TransactionLeavesNoTrace ==
  Done("failed") /\ UseTransactions /\ has_transactional_ddl =>
    InDatabase = before

\* A migration that fails in a transaction, at any depth of its groups or in
\* its COMMIT, leaves the database as it was.
THEOREM TransactionLeavesNoTraceHolds == Spec => []TransactionLeavesNoTrace
<1>1. TraceInv => TransactionLeavesNoTrace
  BY DEF TraceInv, TransactionLeavesNoTrace, Transactional, Done
<1> QED
  BY InitPhases, StepPhases, InitTrace, StepTrace, <1>1, PTL DEF Spec

-----------------------------------------------------------------------------
(* Ignored errors do not stop a migration.                                 *)

\* The savepoint of every open wrapper is known, in the order in which they
\* were opened: going back to an inner one leaves the outer ones.
Matched(open, known, next) ==
  /\ \A i \in DOMAIN open : \E j \in DOMAIN known : known[j].id = open[i].sp
  /\ \A j \in DOMAIN known : known[j].id < next
  /\ \A i, j \in DOMAIN known : i < j => known[i].id < known[j].id
  /\ \A i, j \in DOMAIN open : i < j => open[i].sp < open[j].sp

SavepointsKnown ==
  /\ loop \in {"idle", "locked"} => savepoints = <<>>
  /\ Transactional /\ loop = "main" => Matched(frames, savepoints, next_id)

\* A DatabaseError that no statement outside of ignoring wrappers has raised
\* still has a wrapper before it that ignores it.
ErrorKnown ==
  ~CommitsEarly =>
    /\ loop = "main" /\ error = "database" =>
         fatal \/ \E i \in DOMAIN frames : Ignores(frames[i])
    /\ loop = "main" /\ error = "other" => fatal
    /\ loop = "undo" => fatal
    /\ loop \in {"leaving", "idle"} /\ outcome = "failed" => fatal

LEMMA InitSavepoints == Init => SavepointsKnown
BY DEF Init, SavepointsKnown

LEMMA Numbers ==
  ASSUME PhaseInv
  PROVE  /\ \A j \in DOMAIN savepoints : savepoints[j].id \in Nat
         /\ \A i \in DOMAIN frames : frames[i].sp \in Nat
<1>1. savepoints \in Seq(Savepoint) /\ frames \in Seq(Frame)
  BY DEF PhaseInv, TypeInv, Typed
<1>2. \A j \in DOMAIN savepoints : savepoints[j] \in Savepoint
  BY <1>1
<1>3. \A i \in DOMAIN frames : frames[i] \in Frame
  BY <1>1
<1>4. \A f \in Frame : f.sp \in Nat
  BY DEF Frame
<1>5. \A p \in Savepoint : p.id \in Nat
  BY DEF Savepoint
<1> HIDE DEF Frame, Savepoint
<1> QED
  BY <1>2, <1>3, <1>4, <1>5

\* A wrapper is entered.
LEMMA OpenKeepsSavepoints ==
  ASSUME PhaseInv, SavepointsKnown, Transactional, loop = "main",
         NEW n \in Nodes, NEW d, NEW outer \in Seq(Frame),
         Len(outer) = Len(frames),
         \A i \in DOMAIN outer : outer[i].sp = frames[i].sp,
         Open(n, d, outer)
  PROVE  Matched(frames', savepoints', next_id')
<1> DEFINE frame == [node |-> n, dir |-> d, todo |-> Items[n],
                     sp |-> IF UseTransactions THEN next_id ELSE 0]
           point == [id |-> next_id, contents |-> work]
<1>1. /\ frames' = Append(outer, frame)
      /\ savepoints' = Append(savepoints, point)
      /\ next_id' = next_id + 1
  BY DEF Open, Transactional
<1>2. frame.sp = next_id /\ point.id = next_id
  BY DEF Transactional
<1>3. /\ savepoints \in Seq(Savepoint) /\ next_id \in Nat
      /\ frames \in Seq(Frame)
  BY DEF PhaseInv, TypeInv, Typed
<1>4. /\ \A j \in DOMAIN savepoints : savepoints[j].id \in Nat
      /\ \A i \in DOMAIN frames : frames[i].sp \in Nat
  BY Numbers
<1>5. /\ \A i \in DOMAIN frames :
           \E j \in DOMAIN savepoints : savepoints[j].id = frames[i].sp
      /\ \A j \in DOMAIN savepoints : savepoints[j].id < next_id
      /\ \A i, j \in DOMAIN savepoints :
           i < j => savepoints[i].id < savepoints[j].id
      /\ \A i, j \in DOMAIN frames : i < j => frames[i].sp < frames[j].sp
  BY DEF SavepointsKnown, Matched
<1> HIDE DEF frame, point
<1>6. /\ DOMAIN frames' = 1..(Len(frames) + 1)
      /\ \A i \in 1..Len(frames) : frames'[i] = outer[i]
      /\ frames'[Len(frames) + 1] = frame
      /\ DOMAIN frames = 1..Len(frames) /\ DOMAIN outer = 1..Len(frames)
      /\ Len(frames) \in Nat
  BY <1>1, <1>3
<1>7. /\ DOMAIN savepoints' = 1..(Len(savepoints) + 1)
      /\ \A j \in 1..Len(savepoints) : savepoints'[j] = savepoints[j]
      /\ savepoints'[Len(savepoints) + 1] = point
      /\ DOMAIN savepoints = 1..Len(savepoints) /\ Len(savepoints) \in Nat
  BY <1>1, <1>3
<1>8. \A i \in 1..Len(frames) : frames'[i].sp = frames[i].sp
  BY <1>6
<1>9. \A i \in DOMAIN frames' :
        \E j \in DOMAIN savepoints' : savepoints'[j].id = frames'[i].sp
  <2> TAKE i \in DOMAIN frames'
  <2>1. CASE i = Len(frames) + 1
    BY <1>2, <1>6, <1>7, <2>1
  <2>2. CASE i \in 1..Len(frames)
    <3>1. PICK j \in DOMAIN savepoints : savepoints[j].id = frames[i].sp
      BY <1>5, <1>6, <2>2
    <3> QED
      BY <1>7, <1>8, <2>2, <3>1
  <2> QED
    BY <1>6, <2>1, <2>2
<1>10. \A j \in DOMAIN savepoints' : savepoints'[j].id < next_id'
  BY <1>1, <1>2, <1>3, <1>4, <1>5, <1>7
<1>11. \A i, j \in DOMAIN savepoints' :
         i < j => savepoints'[i].id < savepoints'[j].id
  BY <1>2, <1>4, <1>5, <1>7
<1>12. \A i \in 1..Len(frames) : frames[i].sp < next_id
  BY <1>5, <1>6
<1>13. \A i, j \in DOMAIN frames' : i < j => frames'[i].sp < frames'[j].sp
  BY <1>2, <1>4, <1>5, <1>6, <1>8, <1>12
<1> QED
  BY <1>9, <1>10, <1>11, <1>13 DEF Matched

\* A wrapper is left, behind a rollback to its savepoint or without one.
LEMMA LeaveKeepsSavepoints ==
  ASSUME PhaseInv, SavepointsKnown, Transactional, loop = "main",
         frames # <<>>, frames' = Front(frames), next_id' = next_id,
         \/ savepoints' = savepoints
         \/ \E i \in SavepointAt(Innermost) : RollbackTo(i)
  PROVE  Matched(frames', savepoints', next_id')
<1>1. savepoints \in Seq(Savepoint) /\ next_id \in Nat /\ frames \in Seq(Frame)
  BY DEF PhaseInv, TypeInv, Typed
<1>2. /\ \A j \in DOMAIN savepoints : savepoints[j].id \in Nat
      /\ \A i \in DOMAIN frames : frames[i].sp \in Nat
  BY Numbers
<1>3. /\ \A i \in DOMAIN frames :
           \E j \in DOMAIN savepoints : savepoints[j].id = frames[i].sp
      /\ \A j \in DOMAIN savepoints : savepoints[j].id < next_id
      /\ \A i, j \in DOMAIN savepoints :
           i < j => savepoints[i].id < savepoints[j].id
      /\ \A i, j \in DOMAIN frames : i < j => frames[i].sp < frames[j].sp
  BY DEF SavepointsKnown, Matched
<1>4. /\ Len(frames) \in Nat /\ DOMAIN frames = 1..Len(frames)
      /\ DOMAIN frames' = 1..(Len(frames) - 1)
      /\ \A i \in 1..(Len(frames) - 1) : frames'[i] = frames[i]
      /\ Innermost = frames[Len(frames)] /\ Len(frames) \in DOMAIN frames
  BY <1>1, EndsOf DEF Innermost
<1>5. \A i, j \in DOMAIN frames' : i < j => frames'[i].sp < frames'[j].sp
  BY <1>3, <1>4
<1>6. CASE savepoints' = savepoints
  BY <1>3, <1>4, <1>5, <1>6 DEF Matched
<1>7. ASSUME NEW i \in SavepointAt(Innermost), RollbackTo(i)
      PROVE  /\ \A k \in DOMAIN frames' :
                  \E j \in DOMAIN savepoints' :
                    savepoints'[j].id = frames'[k].sp
             /\ \A j \in DOMAIN savepoints' : savepoints'[j].id < next_id'
             /\ \A k, j \in DOMAIN savepoints' :
                  k < j => savepoints'[k].id < savepoints'[j].id
  <2>1. i \in DOMAIN savepoints /\ savepoints[i].id = Innermost.sp
    BY DEF SavepointAt
  <2>2. /\ DOMAIN savepoints = 1..Len(savepoints) /\ Len(savepoints) \in Nat
        /\ i \in Nat
    BY <1>1, <2>1
  <2>3. /\ DOMAIN savepoints' = 1..i
        /\ \A j \in 1..i : savepoints'[j] = savepoints[j]
    <3>1. savepoints' = SubSeq(savepoints, 1, i)
      BY <1>7 DEF RollbackTo
    <3> QED
      BY <1>1, <2>1, <2>2, <3>1
  <2>4. ASSUME NEW k \in DOMAIN frames'
        PROVE  \E j \in DOMAIN savepoints' : savepoints'[j].id = frames'[k].sp
    <3>1. k \in DOMAIN frames /\ k < Len(frames) /\ frames'[k] = frames[k]
      BY <1>4
    <3>2. PICK j \in DOMAIN savepoints : savepoints[j].id = frames[k].sp
      BY <1>3, <3>1
    <3>3. frames[k].sp < Innermost.sp
      BY <1>3, <1>4, <3>1
    <3>4. savepoints[j].id < savepoints[i].id
      BY <2>1, <3>2, <3>3
    <3>5. j < i
      BY <1>2, <1>3, <2>1, <2>2, <3>4
    <3> QED
      BY <2>2, <2>3, <3>1, <3>2, <3>5
  <2>5. \A j \in DOMAIN savepoints' :
          j \in DOMAIN savepoints /\ savepoints'[j] = savepoints[j]
    BY <2>1, <2>2, <2>3
  <2> QED
    BY <1>3, <2>4, <2>5
<1> QED
  BY <1>5, <1>6, <1>7 DEF Matched

LEMMA StepSavepoints ==
  PhaseInv /\ TraceInv /\ SavepointsKnown /\ [Next]_vars => SavepointsKnown'
<1> SUFFICES ASSUME PhaseInv, TraceInv, SavepointsKnown, [Next]_vars
             PROVE  SavepointsKnown'
  OBVIOUS
<1> USE SameCase
<1>1. CASE Lock
  BY <1>1 DEF Lock, SavepointsKnown
<1>2. ASSUME NEW d \in {"apply", "rollback"}, Begin(d)
      PROVE  SavepointsKnown'
  <2>1. /\ savepoints' = <<>> /\ loop' = "main"
        /\ frames' = <<>>
    BY <1>2 DEF Begin, SavepointsKnown, PhaseInv, Phases, database
  <2>2. Matched(<<>>, <<>>, next_id')
    BY DEF Matched
  <2> QED
    BY <2>1, <2>2 DEF SavepointsKnown
<1>3. CASE LoopStep
  <2>1. loop' \notin {"idle", "locked"}
    BY <1>3, LoopStays
  <2> SUFFICES ASSUME Transactional, loop' = "main"
               PROVE  Matched(frames', savepoints', next_id')
    BY <2>1 DEF SavepointsKnown, Transactional
  <2>2. loop = "main" /\ ~StartUndo
    BY <1>3, LoopStays DEF StartUndo, Transactional
  <2>3. Matched(frames, savepoints, next_id)
    BY <2>2 DEF SavepointsKnown
  <2>4. frames \in Seq(Frame)
    BY DEF PhaseInv, TypeInv, Typed
  <2>5. ASSUME NEW n PROVE ~ImplicitCommit(n) /\ ~DurableAtOnce
    BY <2>2 DEF ImplicitCommit, DurableAtOnce, Transactional, PhaseInv, Phases
  <2>6. CASE OpenTop
    <3>1. todo # <<>> /\ todo \in Seq(Nodes) /\ frames = <<>>
      BY <2>6 DEF OpenTop, PhaseInv, TypeInv, Typed
    <3>2. Head(todo) \in Nodes
      BY <3>1
    <3>3. Open(Head(todo), LoopDirection, <<>>)
      BY <2>6 DEF OpenTop
    <3> QED
      BY <2>2, <3>1, <3>2, <3>3, NoElements, OpenKeepsSavepoints
  <2>7. CASE OpenItem
    <3>1. frames # <<>>
      BY <2>7 DEF OpenItem, InGroup
    <3>2. /\ Innermost \in Frame /\ Innermost = frames[Len(frames)]
          /\ Len(frames) \in DOMAIN frames
      BY <2>4, <3>1, EndsOf DEF Innermost
    <3>3. Innermost.todo \in Seq(Nodes) /\ Innermost.todo # <<>>
      BY <2>7, <3>2 DEF OpenItem, Frame
    <3>4. Head(Innermost.todo) \in Nodes /\ Tail(Innermost.todo) \in Seq(Nodes)
      BY <3>3
    <3> DEFINE outer == [frames EXCEPT ![Len(frames)].todo = Tail(@)]
               top == [Innermost EXCEPT !.todo = Tail(@)]
    <3>5. top \in Frame /\ top.sp = Innermost.sp
      BY <3>2, <3>4 DEF Frame
    <3>6. outer = [frames EXCEPT ![Len(frames)] = top]
      BY <2>4, <3>1, <3>2
    <3>7. Open(Head(Innermost.todo), "apply", outer)
      BY <2>7 DEF OpenItem
    <3> HIDE DEF outer, top
    <3>8. outer \in Seq(Frame) /\ Len(outer) = Len(frames)
      BY <2>4, <3>2, <3>5, <3>6
    <3>9. \A i \in DOMAIN outer : outer[i].sp = frames[i].sp
      BY <2>4, <3>2, <3>5, <3>6
    <3> QED
      BY <2>2, <3>4, <3>7, <3>8, <3>9, OpenKeepsSavepoints
  <2>8. CASE NoStatement \/ EndGroup \/ Statement
    <3>1. frames # <<>> /\ frames' = Front(frames) /\ next_id' = next_id
      BY <2>8 DEF NoStatement, EndGroup, Statement, HasStatement, InStep,
         InGroup, Return, database
    <3>2. savepoints' = savepoints
      BY <2>5, <2>8 DEF NoStatement, EndGroup, Statement, database
    <3> QED
      BY <2>2, <3>1, <3>2, LeaveKeepsSavepoints
  <2>9. CASE FailStatement
    <3>1. UNCHANGED <<frames, savepoints, next_id>>
      BY <2>5, <2>9 DEF FailStatement
    <3> QED
      BY <2>3, <3>1
  <2>10. CASE IgnoreError \/ PassError
    <3>1. frames # <<>> /\ frames' = Front(frames) /\ next_id' = next_id
      BY <2>10 DEF IgnoreError, PassError, Return
    <3>2. \/ savepoints' = savepoints
          \/ \E i \in SavepointAt(Innermost) : RollbackTo(i)
      BY <2>10 DEF IgnoreError, PassError
    <3> QED
      BY <2>2, <3>1, <3>2, LeaveKeepsSavepoints
  <2> QED
    BY <1>3, <2>2, <2>6, <2>7, <2>8, <2>9, <2>10 DEF LoopStep
<1>4. CASE Abort \/ Commit \/ FailCommit \/ Record \/ FailLog \/ FailRecord
  BY <1>4 DEF Abort, Commit, FailCommit, Record, FailLog, FailRecord,
     SavepointsKnown
<1>5. CASE Release \/ FailRelease \/ Crash
  BY <1>5 DEF Release, FailRelease, Crash, Close, SavepointsKnown
<1>6. CASE BreakLock
  BY <1>6 DEF BreakLock, SavepointsKnown, control
<1>7. CASE UNCHANGED vars
  BY <1>7 DEF vars, database, control, SavepointsKnown, Transactional
<1>8. ASSUME NEW d \in {"apply", "rollback"}, FailBegin(d)
      PROVE  SavepointsKnown'
  BY <1>8 DEF FailBegin, SavepointsKnown
<1> QED
  BY <1>1, <1>2, <1>3, <1>4, <1>5, <1>6, <1>7, <1>8 DEF Next, LoopStep

LEMMA InitErrors == Init => ErrorKnown
BY DEF Init, ErrorKnown

\* The wrapper that an error leaves does not ignore it, so one outside does.
LEMMA PassKeepsErrors ==
  ASSUME PhaseInv, TraceInv, SavepointsKnown, ErrorKnown, ~CommitsEarly,
         [Next]_vars, PassError
  PROVE  ErrorKnown'
<1> USE SameCase
<1>1. /\ frames \in Seq(Frame) /\ frames # <<>> /\ frames' = Front(frames)
      /\ UNCHANGED <<loop, fatal, outcome, force, migration>>
      /\ error # "none"
  BY DEF PassError, PhaseInv, TypeInv, Typed, call, history
<1>2. loop \in {"main", "undo"}
  BY LoopStays DEF LoopStep
<1>3. ~(UseTransactions /\ SavepointAt(Innermost) = {}) \/ loop = "undo"
  <2> SUFFICES ASSUME UseTransactions, loop = "main"
               PROVE  SavepointAt(Innermost) # {}
    BY <1>2
  <2>1. Matched(frames, savepoints, next_id)
    BY DEF SavepointsKnown, Transactional, CommitsEarly
  <2>2. Len(frames) \in DOMAIN frames /\ Innermost = frames[Len(frames)]
    BY <1>1, EndsOf DEF Innermost
  <2> QED
    BY <2>1, <2>2 DEF Matched, SavepointAt
<1>4. CASE loop = "undo"
  <2>1. fatal
    BY <1>4 DEF ErrorKnown
  <2> QED
    BY <1>1, <1>4, <2>1 DEF ErrorKnown
<1>5. CASE loop = "main"
  <2>1. error' = error /\ (error = "database" => ~Ignores(Innermost))
    BY <1>3, <1>5 DEF PassError
  <2>2. CASE fatal
    BY <1>1, <1>5, <2>2 DEF ErrorKnown
  <2>3. CASE ~fatal
    <3>1. error = "database" /\ error' = "database"
      BY <1>1, <1>5, <2>1, <2>3 DEF ErrorKnown, PhaseInv, TypeInv, Typed
    <3>2. PICK i \in DOMAIN frames : Ignores(frames[i])
      BY <1>5, <2>3, <3>1 DEF ErrorKnown
    <3>3. Innermost = frames[Len(frames)]
      BY <1>1, EndsOf DEF Innermost
    <3>4. i # Len(frames)
      BY <2>1, <3>1, <3>2, <3>3
    <3>5. i \in DOMAIN frames' /\ frames'[i] = frames[i]
      BY <1>1, <3>4, EndsOf
    <3>6. Ignores(frames[i])'
      BY <1>1, <3>2, <3>5 DEF Ignores
    <3> QED
      BY <1>1, <1>5, <3>1, <3>5, <3>6 DEF ErrorKnown
  <2> QED
    BY <2>2, <2>3
<1> QED
  BY <1>2, <1>4, <1>5

LEMMA StepErrors ==
  PhaseInv /\ TraceInv /\ SavepointsKnown /\ ErrorKnown /\ [Next]_vars
    => ErrorKnown'
<1> SUFFICES ASSUME PhaseInv, TraceInv, SavepointsKnown, ErrorKnown,
                    [Next]_vars, ~CommitsEarly
             PROVE  ErrorKnown'
  BY SameCase DEF ErrorKnown, CommitsEarly
<1> USE SameCase
<1>1. CASE Lock
  BY <1>1 DEF Lock, ErrorKnown
<1>2. ASSUME NEW d \in {"apply", "rollback"}, Begin(d)
      PROVE  ErrorKnown'
  BY <1>2 DEF Begin, ErrorKnown, PhaseInv, Phases
<1>3. CASE OpenTop \/ OpenItem \/ NoStatement \/ Statement \/ EndGroup
  <2>1. /\ UNCHANGED <<loop, error, outcome, fatal>> /\ error = "none"
    BY <1>3 DEF OpenTop, OpenItem, Open, NoStatement, Statement, EndGroup,
       history
  <2> QED
    BY <2>1 DEF ErrorKnown
<1>4. CASE FailStatement
  <2> DEFINE Caught == \E i \in DOMAIN frames : Ignores(frames[i])
  <2>1. /\ UNCHANGED <<loop, outcome, frames, force, migration>>
        /\ fatal' = (fatal \/ error' = "other" \/ ~Caught)
    BY <1>4 DEF FailStatement, call
  <2>2. Caught' <=> Caught
    BY <2>1 DEF Ignores
  <2> HIDE DEF Caught
  <2>3. fatal => fatal'
    BY <2>1
  <2>4. error' = "other" => fatal'
    BY <2>1
  <2>5. ~Caught => fatal'
    BY <2>1
  <2>6. ErrorKnown' <=>
          (/\ loop' = "main" /\ error' = "database" => fatal' \/ Caught'
           /\ loop' = "main" /\ error' = "other" => fatal'
           /\ loop' = "undo" => fatal'
           /\ loop' \in {"leaving", "idle"} /\ outcome' = "failed" => fatal')
    <3>1. ~CommitsEarly'
      BY DEF CommitsEarly
    <3> QED
      BY <3>1 DEF ErrorKnown, Caught
  <2> QED
    BY <2>1, <2>2, <2>3, <2>4, <2>5, <2>6 DEF ErrorKnown
<1>5. CASE IgnoreError \/ StartUndo
  <2>1. error' = "none" /\ UNCHANGED <<outcome, fatal>>
    BY <1>5 DEF IgnoreError, StartUndo, history
  <2>2. loop' = "undo" => fatal
    BY <1>5 DEF IgnoreError, StartUndo, ErrorKnown
  <2>3. loop' \in {"main", "undo"}
    BY <1>5, LoopStays DEF LoopStep
  <2> QED
    BY <2>1, <2>2, <2>3 DEF ErrorKnown
<1>6. CASE PassError
  BY <1>6, PassKeepsErrors
<1>7. CASE Abort
  <2>1. /\ frames = <<>> /\ Ends
        /\ loop' = "leaving" /\ error' = "none" /\ fatal' = fatal
    BY <1>7 DEF Abort, history
  <2>2. fatal
    BY <2>1 DEF Ends, ErrorKnown
  <2> QED
    BY <2>1, <2>2 DEF ErrorKnown
<1>8. CASE Commit \/ FailCommit
  BY <1>8 DEF Commit, FailCommit, Completed, ErrorKnown
<1>9. CASE Record \/ FailLog \/ FailRecord
  <2>1. loop' = "leaving" /\ outcome' # "failed" /\ fatal' = fatal
    BY <1>9 DEF Record, FailLog, FailRecord, PhaseInv, TypeInv, Typed, Outcomes,
       history
  <2> QED
    BY <2>1 DEF ErrorKnown
<1>10. CASE Release \/ FailRelease
  <2>1. /\ loop = "leaving" /\ loop' = "idle"
        /\ UNCHANGED <<outcome, fatal>>
    BY <1>10 DEF Release, FailRelease, history
  <2> QED
    BY <2>1 DEF ErrorKnown
<1>11. CASE Crash
  <2>1. /\ loop' = "idle" /\ fatal' = fatal
        /\ outcome' = IF loop \in {"returned", "leaving"} THEN outcome
                      ELSE "crashed"
    BY <1>11 DEF Crash
  <2>2. loop = "returned" => outcome # "failed"
    BY DEF PhaseInv, Outcomes
  <2> QED
    BY <2>1, <2>2 DEF ErrorKnown
<1>12. CASE BreakLock
  BY <1>12 DEF BreakLock, ErrorKnown, control, history
<1>13. CASE UNCHANGED vars
  <2>1. UNCHANGED <<loop, error, outcome, fatal, frames, force, migration>>
    BY <1>13 DEF vars, call, control, history
  <2>2. ASSUME NEW f PROVE Ignores(f)' <=> Ignores(f)
    BY <2>1 DEF Ignores
  <2> QED
    BY <2>1, <2>2 DEF ErrorKnown
<1>14. ASSUME NEW d \in {"apply", "rollback"}, FailBegin(d)
       PROVE  ErrorKnown'
  BY <1>14 DEF FailBegin, ErrorKnown
<1> QED
  BY <1>1, <1>2, <1>3, <1>4, <1>5, <1>6, <1>7, <1>8, <1>9, <1>10, <1>11,
     <1>12, <1>13, <1>14 DEF Next

\* A migration that has failed has met an error that no wrapper ignores: an
\* ignored one never stops it, at any depth, unless DDL has committed the
\* savepoints away.
THEOREM IgnoredErrorsDoNotStopHolds == Spec => []IgnoredErrorsDoNotStop
<1>1. ErrorKnown => IgnoredErrorsDoNotStop
  BY DEF ErrorKnown, IgnoredErrorsDoNotStop, Done
<1> QED
  BY InitPhases, StepPhases, InitTrace, StepTrace, InitSavepoints,
     StepSavepoints, InitErrors, StepErrors, <1>1, PTL DEF Spec

-----------------------------------------------------------------------------
(* The tree of steps and groups.                                           *)

\* What IsTree says, with the types of its arguments.
Tree(it, top) ==
  /\ it \in [DOMAIN it -> Seq(DOMAIN it)] /\ top \in Seq(DOMAIN it)
  /\ IsTree(it, top)

\* The elements of a sequence as a set.
LEMMA ElementsOf ==
  ASSUME NEW S, NEW s \in Seq(S)
  PROVE  /\ ToSet(s) \subseteq S
         /\ \A i \in DOMAIN s : s[i] \in ToSet(s)
         /\ \A x \in ToSet(s) : \E i \in DOMAIN s : s[i] = x
         /\ s = <<>> => ToSet(s) = {}
         /\ s # <<>> => ToSet(s) # {}
<1>1. DOMAIN s = 1..Len(s) /\ Len(s) \in Nat /\ \A i \in DOMAIN s : s[i] \in S
  OBVIOUS
<1>2. s = <<>> => ToSet(s) = {}
  BY DEF ToSet
<1>3. s # <<>> => ToSet(s) # {}
  <2>1. ASSUME s # <<>> PROVE 1 \in DOMAIN s
    BY <1>1, <2>1
  <2> QED
    BY <2>1 DEF ToSet
<1>4. ToSet(s) \subseteq S
  BY <1>1 DEF ToSet
<1>5. /\ \A i \in DOMAIN s : s[i] \in ToSet(s)
      /\ \A x \in ToSet(s) : \E i \in DOMAIN s : s[i] = x
  BY DEF ToSet
<1> QED
  BY <1>2, <1>3, <1>4, <1>5

\* Below(it, n) is the least set that has n and what is in its groups.
LEMMA BelowIsLeast ==
  ASSUME NEW it, NEW top, Tree(it, top), NEW n \in DOMAIN it
  PROVE  /\ Below(it, n) \subseteq DOMAIN it
         /\ n \in Below(it, n)
         /\ \A y \in Below(it, n) : ToSet(it[y]) \subseteq Below(it, n)
         /\ \A S \in SUBSET DOMAIN it :
              n \in S /\ (\A y \in S : ToSet(it[y]) \subseteq S)
                => Below(it, n) \subseteq S
<1>1. \A y \in DOMAIN it : it[y] \in Seq(DOMAIN it)
  BY DEF Tree
<1>2. ASSUME NEW y \in Below(it, n), NEW z \in ToSet(it[y])
      PROVE  z \in Below(it, n)
  <2>1. z \in DOMAIN it
    BY <1>1, ElementsOf DEF Below
  <2>2. ASSUME NEW S \in SUBSET DOMAIN it, n \in S,
               \A x \in S : ToSet(it[x]) \subseteq S
        PROVE  z \in S
    BY <2>2 DEF Below
  <2> QED
    BY <2>1, <2>2 DEF Below
<1> QED
  BY <1>2 DEF Below

LEMMA BelowIsTransitive ==
  ASSUME NEW it, NEW top, Tree(it, top), NEW n \in DOMAIN it,
         NEW m \in Below(it, n)
  PROVE  Below(it, m) \subseteq Below(it, n)
<1>1. /\ Below(it, n) \subseteq DOMAIN it
      /\ \A y \in Below(it, n) : ToSet(it[y]) \subseteq Below(it, n)
  BY BelowIsLeast
<1>2. m \in DOMAIN it
  BY <1>1
<1> QED
  BY <1>1, <1>2, BelowIsLeast

\* What is below a node is the node or below something in it.
LEMMA BelowSplits ==
  ASSUME NEW it, NEW top, Tree(it, top), NEW n \in DOMAIN it,
         NEW x \in Below(it, n), x # n
  PROVE  \E m \in ToSet(it[n]) : x \in Below(it, m)
<1>1. ToSet(it[n]) \subseteq DOMAIN it
  BY ElementsOf DEF Tree
<1> DEFINE S == {n} \cup UNION {Below(it, m) : m \in ToSet(it[n])}
<1>2. S \subseteq DOMAIN it
  BY <1>1, BelowIsLeast
<1>3. ASSUME NEW y \in S PROVE ToSet(it[y]) \subseteq S
  <2>1. CASE y = n
    BY <1>1, <2>1, BelowIsLeast
  <2>2. ASSUME NEW m \in ToSet(it[n]), y \in Below(it, m)
        PROVE  ToSet(it[y]) \subseteq S
    BY <1>1, <2>2, BelowIsLeast
  <2> QED
    BY <2>1, <2>2
<1>4. Below(it, n) \subseteq S
  <2>1. n \in S /\ S \in SUBSET DOMAIN it
    BY <1>2
  <2> HIDE DEF S
  <2> QED
    BY <2>1, <1>3, BelowIsLeast
<1> QED
  BY <1>4

\* All but the node itself is in a group below it.
LEMMA BelowHasParent ==
  ASSUME NEW it, NEW top, Tree(it, top), NEW n \in DOMAIN it,
         NEW x \in Below(it, n), x # n
  PROVE  \E y \in Below(it, n) : x \in ToSet(it[y])
<1> SUFFICES ASSUME \A y \in Below(it, n) : x \notin ToSet(it[y])
             PROVE  FALSE
  OBVIOUS
<1> DEFINE S == Below(it, n) \ {x}
<1>1. S \subseteq DOMAIN it /\ n \in S
  BY BelowIsLeast
<1>2. \A y \in S : ToSet(it[y]) \subseteq S
  BY BelowIsLeast
<1> QED
  BY <1>1, <1>2, BelowIsLeast

\* No group is below what is in it.
LEMMA NoCycle ==
  ASSUME NEW it, NEW top, Tree(it, top), NEW n \in DOMAIN it,
         NEW m \in ToSet(it[n])
  PROVE  n \notin Below(it, m)
<1> SUFFICES ASSUME n \in Below(it, m) PROVE FALSE
  OBVIOUS
<1> DEFINE S == {y \in Below(it, n) : n \in Below(it, y)}
<1>1. m \in DOMAIN it /\ m \in Below(it, n) /\ n \in S
  BY ElementsOf, BelowIsLeast DEF Tree
<1>2. S \in SUBSET DOMAIN it /\ S # {}
  BY <1>1, BelowIsLeast
<1>3. PICK y \in S : \A o \in S : y \notin ToSet(it[o])
  <2>1. \A T \in SUBSET DOMAIN it \ {{}} :
          \E z \in T : \A o \in T : z \notin ToSet(it[o])
    BY DEF Tree, IsTree
  <2> HIDE DEF S
  <2> QED
    BY <1>2, <2>1
<1>4. CASE y = n
  <2>1. CASE m = n
    BY <1>1, <1>3, <1>4, <2>1
  <2>2. CASE m # n
    <3>1. PICK p \in Below(it, m) : n \in ToSet(it[p])
      BY <1>1, <2>2, BelowHasParent
    <3>2. p \in Below(it, n) /\ p \in DOMAIN it
      BY <1>1, <3>1, BelowIsTransitive, BelowIsLeast
    <3>3. n \in Below(it, p)
      BY <3>1, <3>2, BelowIsLeast
    <3> QED
      BY <1>3, <1>4, <3>1, <3>2, <3>3
  <2> QED
    BY <2>1, <2>2
<1>5. CASE y # n
  <2>1. y \in Below(it, n) /\ n \in Below(it, y)
    OBVIOUS
  <2>2. PICK p \in Below(it, n) : y \in ToSet(it[p])
    BY <1>5, <2>1, BelowHasParent
  <2>3. p \in DOMAIN it /\ y \in DOMAIN it /\ y \in Below(it, p)
    BY <2>1, <2>2, BelowIsLeast
  <2>4. n \in Below(it, p)
    BY <2>1, <2>3, BelowIsTransitive
  <2> QED
    BY <1>3, <2>2, <2>4
<1> QED
  BY <1>4, <1>5

\* Two nodes that are not below each other, and of which nothing below is
\* in a group that has the one and is below the other, share nothing.
LEMMA BelowApart ==
  ASSUME NEW it, NEW top, Tree(it, top), NEW m \in DOMAIN it,
         NEW o \in DOMAIN it, o \notin Below(it, m),
         \A y \in Below(it, o) : m \notin ToSet(it[y])
  PROVE  Below(it, m) \cap Below(it, o) = {}
<1> DEFINE S == Below(it, o) \ Below(it, m)
<1>1. S \subseteq DOMAIN it /\ o \in S
  BY BelowIsLeast
<1>2. ASSUME NEW y \in S, NEW z \in ToSet(it[y]) PROVE z \in S
  <2>1. z \in Below(it, o) /\ z # m
    BY BelowIsLeast
  <2>2. ASSUME z \in Below(it, m) PROVE FALSE
    <3>1. PICK p \in Below(it, m) : z \in ToSet(it[p])
      BY <2>1, <2>2, BelowHasParent
    <3>2. p # y /\ p \in DOMAIN it /\ y \in DOMAIN it
      BY <3>1, BelowIsLeast
    <3> QED
      BY <3>1, <3>2 DEF Tree, IsTree
  <2> QED
    BY <2>1, <2>2
<1>3. Below(it, o) \subseteq S
  <2>1. o \in S /\ S \in SUBSET DOMAIN it
    BY <1>1
  <2> HIDE DEF S
  <2> QED
    BY <1>2, <2>1, BelowIsLeast
<1> QED
  BY <1>3

\* The items of a group share nothing, and the steps and groups outside groups
\* share nothing.
LEMMA SiblingsApart ==
  ASSUME NEW it, NEW top, Tree(it, top), NEW n \in DOMAIN it,
         NEW m \in ToSet(it[n]), NEW o \in ToSet(it[n]), m # o
  PROVE  Below(it, m) \cap Below(it, o) = {}
<1>1. m \in DOMAIN it /\ o \in DOMAIN it
  BY ElementsOf DEF Tree
<1>2. ASSUME NEW p \in DOMAIN it, NEW q \in ToSet(it[n]), q \in ToSet(it[p])
      PROVE  p = n
  BY <1>2 DEF Tree, IsTree
<1>3. o \notin Below(it, m)
  <2> SUFFICES ASSUME o \in Below(it, m) PROVE FALSE
    OBVIOUS
  <2>1. PICK p \in Below(it, m) : o \in ToSet(it[p])
    BY <1>1, BelowHasParent
  <2>2. p \in DOMAIN it
    BY <1>1, <2>1, BelowIsLeast
  <2>3. p = n
    BY <1>2, <2>1, <2>2
  <2> QED
    BY <2>1, <2>3, NoCycle
<1>4. ASSUME NEW y \in Below(it, o), m \in ToSet(it[y]) PROVE FALSE
  <2>1. y \in DOMAIN it
    BY <1>1, BelowIsLeast
  <2>2. y = n
    BY <1>2, <1>4, <2>1
  <2> QED
    BY <2>2, NoCycle
<1> QED
  BY <1>1, <1>3, <1>4, BelowApart

LEMMA TopsApart ==
  ASSUME NEW it, NEW top, Tree(it, top),
         NEW m \in ToSet(top), NEW o \in ToSet(top), m # o
  PROVE  Below(it, m) \cap Below(it, o) = {}
<1>1. m \in DOMAIN it /\ o \in DOMAIN it
  BY ElementsOf DEF Tree
<1>2. \A y \in DOMAIN it : m \notin ToSet(it[y]) /\ o \notin ToSet(it[y])
  BY DEF Tree, IsTree
<1>3. o \notin Below(it, m)
  BY <1>1, <1>2, BelowHasParent, BelowIsLeast
<1>4. \A y \in Below(it, o) : m \notin ToSet(it[y])
  BY <1>1, <1>2, BelowIsLeast
<1> QED
  BY <1>1, <1>3, <1>4, BelowApart

\* Everything is below something outside groups.
LEMMA AllBelowTop ==
  ASSUME NEW it, NEW top, Tree(it, top), NEW x \in DOMAIN it
  PROVE  \E n \in ToSet(top) : x \in Below(it, n)
<1> DEFINE S == {y \in DOMAIN it : \A n \in ToSet(top) : y \notin Below(it, n)}
<1> SUFFICES ASSUME x \in S PROVE FALSE
  OBVIOUS
<1>1. PICK y \in S : \A o \in S : y \notin ToSet(it[o])
  BY DEF Tree, IsTree
<1>2. ToSet(top) \subseteq DOMAIN it
  BY ElementsOf DEF Tree
<1>3. y \notin ToSet(top)
  BY <1>2, BelowIsLeast
<1>4. PICK o \in DOMAIN it : y \in ToSet(it[o])
  BY <1>3 DEF Tree, IsTree
<1>5. PICK n \in ToSet(top) : o \in Below(it, n)
  BY <1>1, <1>4
<1>6. y \in Below(it, n)
  BY <1>2, <1>4, <1>5, BelowIsLeast
<1> QED
  BY <1>6

-----------------------------------------------------------------------------
(* What is still to be reached.                                            *)

\* The steps at or below a node, and those of a list that is not done.
StepsBelow(it, n) == {x \in Below(it, n) : it[x] = <<>>}

Pending(it, s) == UNION {StepsBelow(it, n) : n \in ToSet(s)}

\* The steps that are not reached yet outside of the i-th wrapper.
Outside(it, fs, t, i) ==
  Pending(it, t) \cup UNION {Pending(it, fs[j].todo) : j \in 1..(i - 1)}

\* The innermost wrapper is that of a step.
AtStep(it, fs) == fs # <<>> /\ it[Last(fs).node] = <<>>

\* The steps whose statement has not been executed.
Left(it, fs, t) ==
  Outside(it, fs, t, Len(fs) + 1)
    \cup (IF AtStep(it, fs) THEN {Last(fs).node} ELSE {})

FrameOf(it) == [node : DOMAIN it, dir : {"apply", "rollback"}, sp : Nat,
                todo : Seq(DOMAIN it)]

\* What is below a step, a group and an item of a group.
LEMMA BelowStep ==
  ASSUME NEW it, NEW top, Tree(it, top), NEW n \in DOMAIN it, it[n] = <<>>
  PROVE  StepsBelow(it, n) = {n}
<1>1. ToSet(it[n]) = {}
  BY DEF ToSet
<1>2. {n} \in SUBSET DOMAIN it /\ \A y \in {n} : ToSet(it[y]) \subseteq {n}
  BY <1>1
<1>3. Below(it, n) \subseteq {n} /\ n \in Below(it, n)
  BY <1>2, BelowIsLeast
<1> QED
  BY <1>3 DEF StepsBelow

LEMMA BelowGroup ==
  ASSUME NEW it, NEW top, Tree(it, top), NEW n \in DOMAIN it, it[n] # <<>>
  PROVE  StepsBelow(it, n) = Pending(it, it[n])
<1>1. ToSet(it[n]) \subseteq DOMAIN it
  BY ElementsOf DEF Tree
<1>2. ASSUME NEW x \in StepsBelow(it, n) PROVE x \in Pending(it, it[n])
  <2>1. x \in Below(it, n) /\ it[x] = <<>> /\ x # n
    BY DEF StepsBelow
  <2>2. PICK m \in ToSet(it[n]) : x \in Below(it, m)
    BY <2>1, BelowSplits
  <2> QED
    BY <2>1, <2>2 DEF StepsBelow, Pending
<1>3. ASSUME NEW m \in ToSet(it[n])
      PROVE  StepsBelow(it, m) \subseteq StepsBelow(it, n)
  <2>1. m \in Below(it, n)
    BY BelowIsLeast
  <2> QED
    BY <2>1, BelowIsTransitive DEF StepsBelow
<1> QED
  BY <1>2, <1>3 DEF Pending

LEMMA BelowItem ==
  ASSUME NEW it, NEW top, Tree(it, top), NEW n \in DOMAIN it,
         NEW m \in ToSet(it[n])
  PROVE  StepsBelow(it, m) \subseteq StepsBelow(it, n)
<1>1. m \in Below(it, n)
  BY BelowIsLeast
<1> QED
  BY <1>1, BelowIsTransitive DEF StepsBelow

\* Below the steps and groups outside groups is everything.
LEMMA PendingTop ==
  ASSUME NEW it, NEW top, Tree(it, top)
  PROVE  Pending(it, top) = {x \in DOMAIN it : it[x] = <<>>}
<1>1. ToSet(top) \subseteq DOMAIN it
  BY ElementsOf DEF Tree
<1>2. \A n \in ToSet(top) : Below(it, n) \subseteq DOMAIN it
  BY <1>1, BelowIsLeast
<1>3. \A x \in DOMAIN it : \E n \in ToSet(top) : x \in Below(it, n)
  BY AllBelowTop
<1> QED
  BY <1>2, <1>3 DEF Pending, StepsBelow

\* The first element of a sequence, and the others.
LEMMA HeadAndTail ==
  ASSUME NEW S, NEW s \in Seq(S), s # <<>>
  PROVE  /\ Head(s) \in S /\ Tail(s) \in Seq(S)
         /\ ToSet(s) = {Head(s)} \cup ToSet(Tail(s))
         /\ IsInjective(s) =>
              IsInjective(Tail(s)) /\ Head(s) \notin ToSet(Tail(s))
<1>1. /\ Head(s) \in S /\ Tail(s) \in Seq(S) /\ Head(s) = s[1]
      /\ DOMAIN s = 1..Len(s) /\ Len(s) \in Nat /\ 1 \in DOMAIN s
      /\ DOMAIN Tail(s) = 1..(Len(s) - 1)
      /\ \A i \in 1..(Len(s) - 1) : Tail(s)[i] = s[i + 1]
  OBVIOUS
<1>2. \A x \in ToSet(Tail(s)) : \E i \in 1..(Len(s) - 1) : x = s[i + 1]
  BY <1>1 DEF ToSet
<1>3. \A i \in 1..(Len(s) - 1) : s[i + 1] \in ToSet(Tail(s))
  <2> TAKE i \in 1..(Len(s) - 1)
  <2>1. i \in DOMAIN Tail(s) /\ Tail(s)[i] = s[i + 1]
    BY <1>1
  <2> QED
    BY <2>1 DEF ToSet
<1>4. ToSet(s) = {Head(s)} \cup ToSet(Tail(s))
  <2>1. ASSUME NEW x \in ToSet(s) PROVE x \in {Head(s)} \cup ToSet(Tail(s))
    <3>1. PICK i \in DOMAIN s : s[i] = x
      BY DEF ToSet
    <3>2. CASE i = 1
      BY <1>1, <3>1, <3>2
    <3>3. CASE i # 1
      <4>1. i - 1 \in 1..(Len(s) - 1) /\ (i - 1) + 1 = i
        BY <1>1, <3>3
      <4> QED
        BY <1>3, <3>1, <4>1
    <3> QED
      BY <3>2, <3>3
  <2>2. ASSUME NEW x \in ToSet(Tail(s)) PROVE x \in ToSet(s)
    <3>1. PICK i \in 1..(Len(s) - 1) : x = s[i + 1]
      BY <1>2
    <3>2. i + 1 \in DOMAIN s
      BY <1>1
    <3> QED
      BY <3>1, <3>2 DEF ToSet
  <2>3. Head(s) \in ToSet(s)
    BY <1>1 DEF ToSet
  <2> QED
    BY <2>1, <2>2, <2>3
<1>5. ASSUME IsInjective(s)
      PROVE  IsInjective(Tail(s)) /\ Head(s) \notin ToSet(Tail(s))
  <2>1. \A i, j \in DOMAIN s : s[i] = s[j] => i = j
    BY <1>5 DEF IsInjective
  <2>2. \A i \in 1..(Len(s) - 1) : i + 1 \in DOMAIN s /\ i + 1 # 1
    BY <1>1
  <2>3. Head(s) \notin ToSet(Tail(s))
    BY <1>1, <1>2, <2>1, <2>2
  <2>4. ASSUME NEW i \in DOMAIN Tail(s), NEW j \in DOMAIN Tail(s),
               Tail(s)[i] = Tail(s)[j]
        PROVE  i = j
    <3>1. i + 1 = j + 1
      BY <1>1, <2>1, <2>2, <2>4
    <3> QED
      BY <1>1, <3>1
  <2> QED
    BY <2>3, <2>4 DEF IsInjective
<1> QED
  BY <1>1, <1>4, <1>5

\* A sequence in reverse has the same elements.
LEMMA ReverseKeeps ==
  ASSUME NEW S, NEW s \in Seq(S)
  PROVE  /\ Reverse(s) \in Seq(S) /\ ToSet(Reverse(s)) = ToSet(s)
         /\ IsInjective(s) => IsInjective(Reverse(s))
<1>1. /\ DOMAIN Reverse(s) = 1..Len(s) /\ DOMAIN s = 1..Len(s)
      /\ Len(s) \in Nat
      /\ \A i \in 1..Len(s) : Reverse(s)[i] = s[(Len(s) - i) + 1]
      /\ \A i \in 1..Len(s) : (Len(s) - i) + 1 \in 1..Len(s)
      /\ \A i \in 1..Len(s) : (Len(s) - ((Len(s) - i) + 1)) + 1 = i
  BY DEF Reverse
<1>2. ToSet(Reverse(s)) = ToSet(s)
  <2>1. ASSUME NEW x \in ToSet(s) PROVE x \in ToSet(Reverse(s))
    <3>1. PICK i \in DOMAIN s : x = s[i]
      BY DEF ToSet
    <3>2. Reverse(s)[(Len(s) - i) + 1] = x
      BY <1>1, <3>1
    <3> QED
      BY <1>1, <3>1, <3>2 DEF ToSet
  <2>2. ASSUME NEW x \in ToSet(Reverse(s)) PROVE x \in ToSet(s)
    <3>1. PICK i \in DOMAIN Reverse(s) : x = Reverse(s)[i]
      BY DEF ToSet
    <3> QED
      BY <1>1, <3>1 DEF ToSet
  <2> QED
    BY <2>1, <2>2
<1>3. ASSUME IsInjective(s),
             NEW i \in DOMAIN Reverse(s), NEW j \in DOMAIN Reverse(s),
             Reverse(s)[i] = Reverse(s)[j]
      PROVE  i = j
  <2>1. (Len(s) - i) + 1 = (Len(s) - j) + 1
    BY <1>1, <1>3 DEF IsInjective
  <2> QED
    BY <1>1, <2>1
<1> QED
  BY <1>2, <1>3, Reversed DEF IsInjective

\* A loop takes the first of what is left.
LEMMA PendingSplits ==
  ASSUME NEW it, NEW s \in Seq(DOMAIN it), s # <<>>
  PROVE  Pending(it, s) = StepsBelow(it, Head(s)) \cup Pending(it, Tail(s))
BY HeadAndTail DEF Pending

-----------------------------------------------------------------------------
(* The wrappers that are open, in the tree.                                *)

\* The open wrappers fs lie inside each other, and share nothing with what is
\* left of the groups around them and of the list t.
Nested(it, top, fs, t) ==
  /\ ToSet(t) \subseteq ToSet(top) /\ IsInjective(t)
  /\ \A i \in DOMAIN fs :
       /\ ToSet(fs[i].todo) \subseteq ToSet(it[fs[i].node])
       /\ IsInjective(fs[i].todo)
       /\ i = 1 <=> fs[i].node \in ToSet(top)
       /\ StepsBelow(it, fs[i].node) \cap Outside(it, fs, t, i) = {}
       /\ \A j \in 1..(i - 1) :
            /\ it[fs[j].node] # <<>>
            /\ StepsBelow(it, fs[i].node) \subseteq StepsBelow(it, fs[j].node)

\* What is outside of a wrapper does not depend on the wrappers within.
LEMMA OutsideDepends ==
  ASSUME NEW it, NEW fs, NEW gs, NEW t, NEW i \in Nat,
         \A j \in 1..(i - 1) : fs[j].todo = gs[j].todo
  PROVE  Outside(it, fs, t, i) = Outside(it, gs, t, i)
BY DEF Outside

\* What is left of the group of a wrapper.
NotReached(fs, i) == fs[i].todo

Follows(o, i) == i \in Nat /\ i # 0 /\ o = i + 1

LEMMA OutsideGrows ==
  ASSUME NEW it, NEW fs, NEW t, NEW i, NEW o, Follows(o, i)
  PROVE  Outside(it, fs, t, o)
           = Outside(it, fs, t, i) \cup Pending(it, NotReached(fs, i))
<1>1. i \in Nat /\ i # 0 /\ o = i + 1
  BY DEF Follows
<1>2. 1..(o - 1) = (1..(i - 1)) \cup {i}
  BY <1>1
<1> QED
  BY <1>2 DEF Outside, NotReached

\* The wrapper f fits into the innermost of the wrappers fs.
Fits(it, top, fs, t, f) ==
  /\ Tree(it, top) /\ t \in Seq(DOMAIN it)
  /\ fs \in Seq(FrameOf(it)) /\ f \in FrameOf(it) /\ f.todo = it[f.node]
  /\ Nested(it, top, fs, t)
  /\ Len(fs) = 0 <=> f.node \in ToSet(top)
  /\ StepsBelow(it, f.node) \cap Outside(it, fs, t, Len(fs) + 1) = {}
  /\ \A j \in DOMAIN fs :
       /\ it[fs[j].node] # <<>>
       /\ StepsBelow(it, f.node) \subseteq StepsBelow(it, fs[j].node)

\* A wrapper is entered.
LEMMA PushNested ==
  ASSUME NEW it, NEW top, NEW fs, NEW t, NEW f, Fits(it, top, fs, t, f)
  PROVE  /\ Nested(it, top, Append(fs, f), t)
         /\ \A i \in 1..(Len(fs) + 1) :
              Outside(it, Append(fs, f), t, i) = Outside(it, fs, t, i)
         /\ Left(it, Append(fs, f), t)
              = StepsBelow(it, f.node) \cup Outside(it, fs, t, Len(fs) + 1)
<1>a. /\ Tree(it, top) /\ t \in Seq(DOMAIN it)
      /\ fs \in Seq(FrameOf(it)) /\ f \in FrameOf(it) /\ f.todo = it[f.node]
      /\ Nested(it, top, fs, t)
      /\ Len(fs) = 0 <=> f.node \in ToSet(top)
      /\ StepsBelow(it, f.node) \cap Outside(it, fs, t, Len(fs) + 1) = {}
      /\ \A j \in DOMAIN fs :
           /\ it[fs[j].node] # <<>>
           /\ StepsBelow(it, f.node) \subseteq StepsBelow(it, fs[j].node)
  BY DEF Fits
<1> DEFINE gs == Append(fs, f)
           k == Len(fs) + 1
<1>1. /\ DOMAIN fs = 1..Len(fs) /\ Len(fs) \in Nat /\ k \in Nat
      /\ DOMAIN gs = 1..k /\ Len(gs) = k /\ gs # <<>>
      /\ \A i \in 1..Len(fs) : gs[i] = fs[i]
      /\ gs[k] = f /\ Last(gs) = f /\ gs \in Seq(FrameOf(it))
  BY <1>a DEF Last
<1>2. f.node \in DOMAIN it /\ f.todo \in Seq(DOMAIN it)
  BY <1>a DEF FrameOf
<1>0. k = Len(fs) + 1
  OBVIOUS
<1> HIDE DEF gs
<1>3. \A i \in 1..k : Outside(it, gs, t, i) = Outside(it, fs, t, i)
  <2> TAKE i \in 1..k
  <2>1. \A j \in 1..(i - 1) : gs[j].todo = fs[j].todo
    BY <1>1
  <2>2. i \in Nat
    BY <1>1
  <2> QED
    BY <2>1, <2>2, OutsideDepends
<1>4. Nested(it, top, gs, t)
  <2>1. ToSet(t) \subseteq ToSet(top) /\ IsInjective(t)
    BY <1>a DEF Nested
  <2>2. IsInjective(f.todo)
    BY <1>a, <1>2 DEF Tree, IsTree
  <2>3. ASSUME NEW i \in DOMAIN gs
        PROVE  /\ ToSet(gs[i].todo) \subseteq ToSet(it[gs[i].node])
               /\ IsInjective(gs[i].todo)
               /\ i = 1 <=> gs[i].node \in ToSet(top)
               /\ StepsBelow(it, gs[i].node) \cap Outside(it, gs, t, i) = {}
               /\ \A j \in 1..(i - 1) :
                    /\ it[gs[j].node] # <<>>
                    /\ StepsBelow(it, gs[i].node)
                         \subseteq StepsBelow(it, gs[j].node)
    <3>1. CASE i = k
      <4>1. gs[i] = f /\ i \in 1..k /\ (i = 1 <=> Len(fs) = 0)
        BY <1>1, <3>1
      <4>2. Outside(it, gs, t, i) = Outside(it, fs, t, Len(fs) + 1)
        BY <1>0, <1>3, <3>1, <4>1
      <4>3. \A j \in 1..(i - 1) : j \in DOMAIN fs /\ gs[j] = fs[j]
        BY <1>1, <3>1
      <4> QED
        BY <1>a, <2>2, <4>1, <4>2, <4>3
    <3>2. CASE i # k
      <4>1. /\ i \in DOMAIN fs /\ gs[i] = fs[i]
            /\ \A j \in 1..(i - 1) : gs[j] = fs[j]
        BY <1>1, <3>2
      <4>2. Outside(it, gs, t, i) = Outside(it, fs, t, i)
        BY <1>1, <1>3
      <4> QED
        BY <1>a, <4>1, <4>2 DEF Nested
    <3> QED
      BY <3>1, <3>2
  <2> QED
    BY <2>1, <2>3 DEF Nested
<1>5. Left(it, gs, t) = StepsBelow(it, f.node) \cup Outside(it, fs, t, k)
  <2>1. k # 0 /\ k \in 1..k
    BY <1>0, <1>1
  <2>2. Outside(it, gs, t, k + 1)
          = Outside(it, fs, t, k) \cup Pending(it, it[f.node])
    <3>1. Outside(it, gs, t, k + 1)
            = Outside(it, gs, t, k) \cup Pending(it, NotReached(gs, k))
      <4>1. Follows(k + 1, k)
        BY <1>1, <2>1 DEF Follows
      <4> QED
        BY <4>1, OutsideGrows
    <3> QED
      BY <1>a, <1>1, <1>3, <2>1, <3>1 DEF NotReached
  <2>3. CASE it[f.node] = <<>>
    <3>1. Pending(it, it[f.node]) = {}
      BY <2>3 DEF Pending, ToSet
    <3>2. Left(it, gs, t) = Outside(it, gs, t, k + 1) \cup {f.node}
      BY <1>1, <2>3 DEF Left, AtStep
    <3> QED
      BY <1>a, <1>2, <2>2, <2>3, <3>1, <3>2, BelowStep
  <2>4. CASE it[f.node] # <<>>
    <3>1. Left(it, gs, t) = Outside(it, gs, t, k + 1)
      BY <1>1, <2>4 DEF Left, AtStep
    <3> QED
      BY <1>a, <1>2, <2>2, <2>4, <3>1, BelowGroup
  <2> QED
    BY <2>3, <2>4
<1> QED
  BY <1>0, <1>3, <1>4, <1>5 DEF gs

Empty(fs) == fs = <<>>

\* The loop of process_steps reaches its next step or group.
Starts(it, top, fs, t, f) ==
  /\ Tree(it, top) /\ t \in Seq(DOMAIN it) /\ t # <<>>
  /\ fs \in Seq(FrameOf(it)) /\ Empty(fs) /\ Nested(it, top, fs, t)
  /\ f \in FrameOf(it) /\ f.node = Head(t) /\ f.todo = it[f.node]

LEMMA EnterTop ==
  ASSUME NEW it, NEW top, NEW t, NEW fs, NEW f, Starts(it, top, fs, t, f)
  PROVE  /\ Nested(it, top, Append(fs, f), Tail(t))
         /\ Left(it, fs, t)
              = StepsBelow(it, f.node)
                  \cup Outside(it, Append(fs, f), Tail(t), 1)
         /\ Left(it, Append(fs, f), Tail(t)) = Left(it, fs, t)
<1>a. /\ Tree(it, top) /\ t \in Seq(DOMAIN it) /\ t # <<>>
      /\ fs \in Seq(FrameOf(it)) /\ Empty(fs) /\ Nested(it, top, fs, t)
      /\ f \in FrameOf(it) /\ f.node = Head(t) /\ f.todo = it[f.node]
  BY DEF Starts
<1>1. DOMAIN fs = {} /\ Len(fs) = 0 /\ ~AtStep(it, fs)
  BY <1>a DEF Empty, AtStep
<1>2. /\ Tail(t) \in Seq(DOMAIN it) /\ f.node \in ToSet(top)
      /\ ToSet(Tail(t)) \subseteq ToSet(top) /\ IsInjective(Tail(t))
      /\ f.node \notin ToSet(Tail(t))
  BY <1>a, HeadAndTail DEF Nested
<1>3. \A s : Outside(it, fs, s, Len(fs) + 1) = Pending(it, s)
  BY <1>1 DEF Outside
<1>4. Nested(it, top, fs, Tail(t))
  BY <1>a, <1>1, <1>2 DEF Nested
<1>5. StepsBelow(it, f.node) \cap Pending(it, Tail(t)) = {}
  <2>1. ASSUME NEW n \in ToSet(Tail(t))
        PROVE  StepsBelow(it, f.node) \cap StepsBelow(it, n) = {}
    BY <1>a, <1>2, TopsApart DEF StepsBelow
  <2> QED
    BY <2>1 DEF Pending
<1>6. Left(it, fs, t) = Pending(it, t)
  BY <1>1, <1>3 DEF Left
<1>7. Pending(it, t) = StepsBelow(it, f.node) \cup Pending(it, Tail(t))
  BY <1>a, PendingSplits
<1>8. StepsBelow(it, f.node) \cap Outside(it, fs, Tail(t), Len(fs) + 1) = {}
  BY <1>3, <1>5
<1>9. /\ Nested(it, top, Append(fs, f), Tail(t))
      /\ \A i \in 1..(Len(fs) + 1) : Outside(it, Append(fs, f), Tail(t), i)
                                     = Outside(it, fs, Tail(t), i)
      /\ Left(it, Append(fs, f), Tail(t))
           = StepsBelow(it, f.node) \cup Outside(it, fs, Tail(t), Len(fs) + 1)
  <2>1. Len(fs) = 0 <=> f.node \in ToSet(top)
    BY <1>1, <1>2
  <2>2. Fits(it, top, fs, Tail(t), f)
    BY <1>a, <1>1, <1>2, <1>4, <1>8, <2>1 DEF Fits
  <2> QED
    BY <2>2, PushNested
<1>10. Outside(it, Append(fs, f), Tail(t), 1) = Pending(it, Tail(t))
  <2>1. 1 \in 1..(Len(fs) + 1) /\ Len(fs) + 1 = 1
    BY <1>1
  <2>2. Outside(it, Append(fs, f), Tail(t), 1) = Outside(it, fs, Tail(t), 1)
    BY <1>9, <2>1
  <2>3. Outside(it, fs, Tail(t), Len(fs) + 1) = Pending(it, Tail(t))
    BY <1>3
  <2> QED
    BY <2>1, <2>2, <2>3
<1> QED
  BY <1>3, <1>6, <1>7, <1>9, <1>10

\* The last wrapper is changed.
LEMMA ReplaceLast ==
  ASSUME NEW S, NEW s \in Seq(S), NEW k \in DOMAIN s, NEW x \in S,
         NEW r, r = [s EXCEPT ![k] = x]
  PROVE  /\ r \in Seq(S) /\ Len(r) = Len(s) /\ DOMAIN r = DOMAIN s
         /\ r[k] = x /\ \A i \in DOMAIN s : i # k => r[i] = s[i]
<1>1. DOMAIN r = DOMAIN s
  OBVIOUS
<1>2. r \in Seq(S) /\ Len(r) = Len(s)
  OBVIOUS
<1>3. r[k] = x
  OBVIOUS
<1>4. \A i \in DOMAIN s : i # k => r[i] = s[i]
  OBVIOUS
<1> QED
  BY <1>1, <1>2, <1>3, <1>4

\* What is left of the innermost group is one item shorter.
LEMMA OuterFacts ==
  ASSUME NEW it, NEW fs \in Seq(FrameOf(it)), fs # <<>>,
         NEW new \in FrameOf(it), new.todo = Tail(Last(fs).todo),
         new.node = Last(fs).node, new.sp = Last(fs).sp,
         new.dir = Last(fs).dir,
         NEW outer, outer = [fs EXCEPT ![Len(fs)] = new]
  PROVE  /\ outer \in Seq(FrameOf(it)) /\ Len(outer) = Len(fs)
         /\ \A i \in 1..(Len(fs) - 1) : outer[i] = fs[i]
         /\ outer[Len(fs)].todo = Tail(Last(fs).todo)
         /\ \A i \in DOMAIN fs : /\ outer[i].node = fs[i].node
                                 /\ outer[i].sp = fs[i].sp
                                 /\ outer[i].dir = fs[i].dir
<1>1. Last(fs) = fs[Len(fs)] /\ Len(fs) \in DOMAIN fs
  BY EndsOf
<1>2. /\ outer \in Seq(FrameOf(it)) /\ Len(outer) = Len(fs)
      /\ outer[Len(fs)] = new
      /\ \A i \in DOMAIN fs : i # Len(fs) => outer[i] = fs[i]
  BY <1>1, ReplaceLast
<1>3. \A i \in 1..(Len(fs) - 1) : i \in DOMAIN fs /\ i # Len(fs)
  BY <1>1
<1> QED
  BY <1>1, <1>2, <1>3

LEMMA LeftInGroup ==
  ASSUME NEW it, NEW fs \in Seq(FrameOf(it)), NEW t, NEW k \in Nat,
         Len(fs) = k, k # 0, fs # <<>>, ~AtStep(it, fs),
         NEW s, NotReached(fs, k) = s
  PROVE  Left(it, fs, t) = Outside(it, fs, t, k) \cup Pending(it, s)
<1>1. Left(it, fs, t) = Outside(it, fs, t, k + 1)
  BY DEF Left
<1>2. Outside(it, fs, t, k + 1)
        = Outside(it, fs, t, k) \cup Pending(it, NotReached(fs, k))
  <2>1. Follows(k + 1, k)
    BY DEF Follows
  <2> QED
    BY <2>1, OutsideGrows
<1> QED
  BY <1>1, <1>2

\* The wrappers outer are the wrappers fs but for what is left, s, of the k-th.
Differs(outer, fs, k, s) ==
  /\ k \in Nat /\ k # 0 /\ NotReached(outer, k) = s
  /\ \A i \in 1..(k - 1) : outer[i] = fs[i]

LEMMA OuterOutside ==
  ASSUME NEW it, NEW fs, NEW t, NEW k, NEW outer, NEW s,
         Differs(outer, fs, k, s), NEW o, Follows(o, k)
  PROVE  /\ \A i \in 1..k : Outside(it, outer, t, i) = Outside(it, fs, t, i)
         /\ Outside(it, outer, t, o)
              = Outside(it, fs, t, k) \cup Pending(it, s)
<1>a. /\ k \in Nat /\ k # 0 /\ NotReached(outer, k) = s
      /\ \A i \in 1..(k - 1) : outer[i] = fs[i]
  BY DEF Differs
<1>1. \A i \in 1..k : Outside(it, outer, t, i) = Outside(it, fs, t, i)
  <2> TAKE i \in 1..k
  <2>1. \A j \in 1..(i - 1) : j \in 1..(k - 1)
    BY <1>a
  <2>2. \A j \in 1..(i - 1) : outer[j].todo = fs[j].todo
    BY <1>a, <2>1
  <2> QED
    BY <2>2, OutsideDepends
<1>2. Outside(it, outer, t, o)
        = Outside(it, outer, t, k) \cup Pending(it, NotReached(outer, k))
  BY OutsideGrows
<1>3. k \in 1..k
  BY <1>a
<1> QED
  BY <1>a, <1>1, <1>2, <1>3

\* apply of a group reaches its next item: the wrapper f is put behind the
\* wrappers outer, which are fs with a shorter list at the end.
Advances(it, top, fs, t, k, last, outer, f) ==
  /\ Tree(it, top) /\ t \in Seq(DOMAIN it)
  /\ fs \in Seq(FrameOf(it)) /\ Len(fs) = k /\ k # 0
  /\ Nested(it, top, fs, t)
  /\ last = fs[k] /\ it[last.node] # <<>> /\ last.todo # <<>>
  /\ outer \in Seq(FrameOf(it)) /\ Len(outer) = k
  /\ \A i \in 1..(k - 1) : outer[i] = fs[i]
  /\ outer[k].todo = Tail(last.todo)
  /\ \A i \in DOMAIN fs : outer[i].node = fs[i].node
  /\ f \in FrameOf(it) /\ f.node = Head(last.todo) /\ f.todo = it[f.node]

LEMMA EnterItem ==
  ASSUME NEW it, NEW top, NEW fs, NEW t, NEW k, NEW last, NEW outer, NEW f,
         Advances(it, top, fs, t, k, last, outer, f)
  PROVE  /\ Nested(it, top, Append(outer, f), t)
         /\ Left(it, Append(outer, f), t) = Left(it, fs, t)
         /\ Left(it, fs, t)
              = StepsBelow(it, f.node)
                  \cup Outside(it, Append(outer, f), t, k + 1)
         /\ \A i \in DOMAIN fs :
              Outside(it, Append(outer, f), t, i) = Outside(it, fs, t, i)
<1>a. /\ Tree(it, top) /\ t \in Seq(DOMAIN it)
      /\ fs \in Seq(FrameOf(it)) /\ outer \in Seq(FrameOf(it))
      /\ Nested(it, top, fs, t) /\ f \in FrameOf(it) /\ f.todo = it[f.node]
  BY DEF Advances
<1>b. k \in Nat /\ k # 0 /\ Len(fs) = k /\ Len(outer) = k
  BY DEF Advances
<1>c. /\ \A i \in 1..(k - 1) : outer[i] = fs[i]
      /\ \A i \in DOMAIN fs : outer[i].node = fs[i].node
  BY DEF Advances
<1>d. /\ last = fs[k] /\ it[last.node] # <<>> /\ last.todo # <<>>
      /\ f.node = Head(last.todo) /\ outer[k].todo = Tail(last.todo)
  BY DEF Advances
<1>1. k \in DOMAIN fs /\ DOMAIN fs = 1..k /\ DOMAIN outer = 1..k
  BY <1>a, <1>b
<1>2. /\ last \in FrameOf(it) /\ last.todo \in Seq(DOMAIN it)
      /\ last.node \in DOMAIN it
  <2>1. last \in FrameOf(it)
    BY <1>a, <1>1, <1>d
  <2> QED
    BY <2>1 DEF FrameOf
<1>3. ToSet(last.todo) \subseteq ToSet(it[last.node]) /\ IsInjective(last.todo)
  BY <1>a, <1>1, <1>d DEF Nested
<1>4. /\ Tail(last.todo) \in Seq(DOMAIN it)
      /\ ToSet(last.todo) = {f.node} \cup ToSet(Tail(last.todo))
      /\ IsInjective(Tail(last.todo)) /\ f.node \notin ToSet(Tail(last.todo))
  BY <1>d, <1>2, <1>3, HeadAndTail
<1>5. /\ \A i \in 1..k : Outside(it, outer, t, i) = Outside(it, fs, t, i)
      /\ Outside(it, outer, t, k + 1)
           = Outside(it, fs, t, k) \cup Pending(it, Tail(last.todo))
  <2>1. NotReached(outer, k) = Tail(last.todo)
    BY <1>d DEF NotReached
  <2>2. Differs(outer, fs, k, Tail(last.todo))
    BY <1>b, <1>c, <2>1 DEF Differs
  <2>3. Follows(k + 1, k)
    BY <1>b DEF Follows
  <2> QED
    BY <2>2, <2>3, OuterOutside
<1>6. Nested(it, top, outer, t)
  <2>1. ToSet(t) \subseteq ToSet(top) /\ IsInjective(t)
    BY <1>a DEF Nested
  <2>2. ASSUME NEW i \in 1..k
        PROVE  /\ ToSet(outer[i].todo) \subseteq ToSet(it[outer[i].node])
               /\ IsInjective(outer[i].todo)
    <3>1. CASE i = k
      <4>1. outer[i].node = last.node
        BY <1>1, <1>c, <1>d, <3>1
      <4>2. ToSet(Tail(last.todo)) \subseteq ToSet(it[last.node])
        BY <1>3, <1>4
      <4> QED
        BY <1>4, <1>d, <3>1, <4>1, <4>2
    <3>2. CASE i # k
      <4>1. outer[i] = fs[i] /\ i \in DOMAIN fs
        BY <1>1, <1>b, <1>c, <3>2
      <4> QED
        BY <1>a, <4>1 DEF Nested
    <3> QED
      BY <3>1, <3>2
  <2>3. ASSUME NEW i \in 1..k
        PROVE  /\ i = 1 <=> outer[i].node \in ToSet(top)
               /\ StepsBelow(it, outer[i].node)
                    \cap Outside(it, outer, t, i) = {}
               /\ \A j \in 1..(i - 1) :
                    /\ it[outer[j].node] # <<>>
                    /\ StepsBelow(it, outer[i].node)
                         \subseteq StepsBelow(it, outer[j].node)
    <3>1. i \in DOMAIN fs /\ \A j \in 1..(i - 1) : j \in DOMAIN fs
      BY <1>1, <1>b
    <3>2. /\ outer[i].node = fs[i].node
          /\ \A j \in 1..(i - 1) : outer[j].node = fs[j].node
      BY <1>c, <3>1
    <3> QED
      BY <1>a, <1>5, <3>1, <3>2 DEF Nested
  <2> QED
    BY <1>1, <2>1, <2>2, <2>3 DEF Nested
<1>7. f.node \in ToSet(it[last.node]) /\ f.node \in DOMAIN it
  BY <1>a, <1>3, <1>4 DEF FrameOf
<1>8. f.node \notin ToSet(top)
  BY <1>a, <1>2, <1>7 DEF Tree, IsTree
<1>10. StepsBelow(it, f.node) \subseteq StepsBelow(it, last.node)
  BY <1>a, <1>2, <1>7, BelowItem
<1>11. StepsBelow(it, f.node) \cap Outside(it, outer, t, k + 1) = {}
  <2>1. StepsBelow(it, last.node) \cap Outside(it, fs, t, k) = {}
    BY <1>a, <1>1, <1>d DEF Nested
  <2>2. ASSUME NEW n \in ToSet(Tail(last.todo))
        PROVE  StepsBelow(it, f.node) \cap StepsBelow(it, n) = {}
    <3>1. n \in ToSet(it[last.node]) /\ n # f.node
      BY <1>3, <1>4
    <3> QED
      BY <1>a, <1>2, <1>7, <3>1, SiblingsApart DEF StepsBelow
  <2>3. StepsBelow(it, f.node) \cap Pending(it, Tail(last.todo)) = {}
    BY <2>2 DEF Pending
  <2> QED
    BY <1>5, <1>10, <2>1, <2>3
<1>12. \A j \in 1..k :
         /\ it[outer[j].node] # <<>>
         /\ StepsBelow(it, f.node) \subseteq StepsBelow(it, outer[j].node)
  <2> TAKE j \in 1..k
  <2>1. outer[j].node = fs[j].node
    BY <1>c, <1>1
  <2>2. CASE j = k
    BY <1>d, <1>10, <2>1, <2>2
  <2>3. CASE j # k
    <3>1. j \in 1..(k - 1)
      BY <1>b, <2>3
    <3>2. /\ it[fs[j].node] # <<>>
          /\ StepsBelow(it, last.node) \subseteq StepsBelow(it, fs[j].node)
      BY <1>a, <1>1, <1>d, <3>1 DEF Nested
    <3> QED
      BY <1>10, <2>1, <3>2
  <2> QED
    BY <2>2, <2>3
<1>13. /\ Nested(it, top, Append(outer, f), t)
       /\ \A i \in 1..(k + 1) :
            Outside(it, Append(outer, f), t, i) = Outside(it, outer, t, i)
       /\ Left(it, Append(outer, f), t)
            = StepsBelow(it, f.node) \cup Outside(it, outer, t, k + 1)
  <2>1. Len(outer) = 0 <=> f.node \in ToSet(top)
    BY <1>b, <1>8
  <2>2. StepsBelow(it, f.node) \cap Outside(it, outer, t, Len(outer) + 1) = {}
    BY <1>b, <1>11
  <2>3. Fits(it, top, outer, t, f)
    BY <1>a, <1>1, <1>6, <1>12, <2>1, <2>2 DEF Fits
  <2> QED
    BY <1>b, <2>3, PushNested
<1>14. Left(it, fs, t)
         = StepsBelow(it, f.node) \cup Outside(it, outer, t, k + 1)
  <2>1. fs # <<>> /\ ~AtStep(it, fs) /\ NotReached(fs, k) = last.todo
    BY <1>a, <1>b, <1>d DEF AtStep, Last, NotReached
  <2>2. Left(it, fs, t) = Outside(it, fs, t, k) \cup Pending(it, last.todo)
    <3>1. /\ fs \in Seq(FrameOf(it)) /\ k \in Nat /\ Len(fs) = k /\ k # 0
          /\ fs # <<>> /\ ~AtStep(it, fs) /\ NotReached(fs, k) = last.todo
      BY <1>a, <1>b, <2>1
    <3> QED
      BY <3>1, LeftInGroup
  <2>3. Pending(it, last.todo)
          = StepsBelow(it, f.node) \cup Pending(it, Tail(last.todo))
    BY <1>d, <1>2, PendingSplits
  <2> QED
    BY <1>5, <2>2, <2>3
<1>15. \A i \in DOMAIN fs :
         Outside(it, Append(outer, f), t, i) = Outside(it, fs, t, i)
  <2>1. \A i \in DOMAIN fs : i \in 1..k /\ i \in 1..(k + 1)
    BY <1>b, <1>1
  <2> QED
    BY <1>5, <1>13, <2>1
<1>16. Outside(it, Append(outer, f), t, k + 1) = Outside(it, outer, t, k + 1)
  <2>1. k + 1 \in 1..(k + 1)
    BY <1>b
  <2> QED
    BY <1>13, <2>1
<1> QED
  BY <1>13, <1>14, <1>15, <1>16

\* The innermost wrapper is left.
LEMMA PopNested ==
  ASSUME NEW it, NEW top, Tree(it, top), NEW t \in Seq(DOMAIN it),
         NEW fs \in Seq(FrameOf(it)), fs # <<>>, Nested(it, top, fs, t)
  PROVE  /\ Nested(it, top, Front(fs), t)
         /\ \A i \in 1..Len(fs) :
              Outside(it, Front(fs), t, i) = Outside(it, fs, t, i)
         /\ ~AtStep(it, Front(fs))
         /\ Left(it, Front(fs), t) = Outside(it, fs, t, Len(fs))
         /\ Left(it, fs, t)
              = Left(it, Front(fs), t)
                  \cup (IF AtStep(it, fs) THEN {Last(fs).node}
                        ELSE Pending(it, Last(fs).todo))
<1> DEFINE k == Len(fs)
           gs == Front(fs)
<1>a. k \in Nat /\ k # 0
  OBVIOUS
<1>0. DOMAIN fs = 1..k /\ k \in DOMAIN fs
  OBVIOUS
<1>1. /\ Last(fs) = fs[k] /\ gs \in Seq(FrameOf(it)) /\ Len(gs) = k - 1
      /\ \A i \in 1..(k - 1) : gs[i] = fs[i]
  BY EndsOf
<1>9. DOMAIN gs = 1..(k - 1)
  BY <1>1
<1> HIDE DEF gs
<1>2. \A i \in 1..k : Outside(it, gs, t, i) = Outside(it, fs, t, i)
  <2> TAKE i \in 1..k
  <2>1. \A j \in 1..(i - 1) : gs[j].todo = fs[j].todo
    BY <1>a, <1>0, <1>1, <1>9
  <2> QED
    BY <2>1, OutsideDepends
<1>3. Nested(it, top, gs, t)
  <2>1. ToSet(t) \subseteq ToSet(top) /\ IsInjective(t)
    BY DEF Nested
  <2>2. \A i \in DOMAIN gs :
          /\ i \in DOMAIN fs /\ gs[i] = fs[i]
          /\ Outside(it, gs, t, i) = Outside(it, fs, t, i)
          /\ \A j \in 1..(i - 1) : gs[j] = fs[j]
    BY <1>a, <1>0, <1>1, <1>9, <1>2
  <2> QED
    BY <2>1, <2>2 DEF Nested
<1>4. ~AtStep(it, gs)
  <2> SUFFICES ASSUME gs # <<>> PROVE it[Last(gs).node] # <<>>
    BY DEF AtStep
  <2>1. Last(gs) = fs[k - 1] /\ k - 1 \in 1..(k - 1)
    BY <1>a, <1>0, <1>1, <1>9, EndsOf
  <2> QED
    BY <1>a, <1>0, <1>1, <1>9, <2>1 DEF Nested
<1>5. Left(it, gs, t) = Outside(it, fs, t, k)
  <2>1. Left(it, gs, t) = Outside(it, gs, t, (k - 1) + 1)
    BY <1>a, <1>0, <1>1, <1>9, <1>4 DEF Left
  <2> QED
    BY <1>a, <1>0, <1>1, <1>9, <1>2, <2>1
<1>6. Outside(it, fs, t, k + 1)
        = Outside(it, fs, t, k) \cup Pending(it, Last(fs).todo)
  <2>1. Outside(it, fs, t, k + 1)
          = Outside(it, fs, t, k) \cup Pending(it, NotReached(fs, k))
    <3>1. Follows(k + 1, k)
      BY <1>a DEF Follows
    <3> QED
      BY <3>1, OutsideGrows
  <2> QED
    BY <1>1, <2>1 DEF NotReached
<1>7. ASSUME AtStep(it, fs) PROVE Pending(it, Last(fs).todo) = {}
  <2>1. it[Last(fs).node] = <<>>
    BY <1>7 DEF AtStep
  <2>2. ToSet(it[Last(fs).node]) = {}
    BY <2>1 DEF ToSet
  <2>3. ToSet(Last(fs).todo) = {}
    BY <1>a, <1>0, <1>1, <1>9, <2>2 DEF Nested
  <2> QED
    BY <2>3 DEF Pending
<1>8. Left(it, fs, t)
        = Left(it, gs, t) \cup (IF AtStep(it, fs) THEN {Last(fs).node}
                                ELSE Pending(it, Last(fs).todo))
  BY <1>5, <1>6, <1>7 DEF Left
<1> QED
  BY <1>2, <1>3, <1>4, <1>5, <1>8 DEF gs
=============================================================================
