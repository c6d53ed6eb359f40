----------------------- MODULE MigrationProgressProofs -----------------------
(***************************************************************************)
(* Theorems about what process_steps leaves behind, for every tree of      *)
(* steps and groups: what is missing after a migration is recorded, what a *)
(* rollback undoes, and that a migration which fails leaves no trace.      *)
(***************************************************************************)
EXTENDS MigrationStepsProofs

-----------------------------------------------------------------------------
(* Where the loop of process_steps is, in the tree and in the database.    *)

StepsLeft == Left(Items, frames, todo)

\* The steps that are not behind the entry of the i-th wrapper.
From(i) ==
  StepsBelow(Items, frames[i].node) \cup Outside(Items, frames, todo, i)

\* The steps outside groups that have rollback code.
Plain == Reversible \cap ToSet(Top)

\* Contents that a call has reached with the steps of ahead before it: nothing
\* is lost, nothing of a skipped step is there, and all else is applied.
Whole(all, was, gone, ahead, contents) ==
  /\ was \subseteq contents
  /\ contents \cap (gone \cup ahead) \subseteq was
  /\ (all \ ahead) \ gone \subseteq contents

\* The steps of plain are only there when they are skipped or ahead.
RolledBack(plain, gone, ahead, contents) ==
  contents \cap plain \subseteq gone \cup ahead

\* A call that applies where an ignored error takes back all under it.
Applying == direction = "apply" /\ SkipsWhole

\* Contents that the current call has reached.
Reached(ahead, contents) ==
  /\ Applying => Whole(Steps, before, skipped, ahead, contents)
  /\ direction = "rollback" => RolledBack(Plain, skipped, ahead, contents)

\* The numbers of savepoints are not used twice.
Numbered(fs, known, next) ==
  /\ \A i \in DOMAIN fs : fs[i].sp < next
  /\ \A j \in DOMAIN known : known[j].id < next

\* Only wrappers outside groups are rolled back: groups apply their items.
Directed(fs, d) ==
  \A i \in DOMAIN fs : fs[i].dir = (IF i = 1 THEN d ELSE "apply")

\* The wrappers that are open lie in the tree, with numbers of their own.
ShapeInv ==
  loop = "main" =>
    /\ Nested(Items, Top, frames, todo)
    /\ Directed(frames, direction)
    /\ UseTransactions => Numbered(frames, savepoints, next_id)

\* Every savepoint of an open wrapper holds what the call had reached there.
SavedInv ==
  loop = "main" /\ UseTransactions =>
    \A i \in DOMAIN frames, j \in DOMAIN savepoints :
      savepoints[j].id = frames[i].sp =>
        Reached(From(i), savepoints[j].contents)

\* The connection sees what the call has reached, but behind an error.
WorkInv ==
  loop = "main" =>
    /\ error = "none" \/ AtStep(Items, frames) => Reached(StepsLeft, work)
    /\ direction = "rollback" /\ frames # <<>> =>
         RolledBack(Plain, skipped, StepsLeft, work)
    /\ skipped \cap StepsLeft = {}

\* So it is when the loop ends, and what is recorded becomes durable.
EndInv ==
  /\ loop = "locked" => skipped = {} /\ before = InDatabase /\ work = stable
  /\ loop = "returned" => Reached({}, work)
  /\ loop \in {"leaving", "idle"} /\ outcome \in {"apply", "rollback"} =>
       outcome = direction /\ Reached({}, stable)
  /\ loop = "leaving" /\ outcome \in {"apply", "rollback"} => work = stable

ProgressInv == ShapeInv /\ SavedInv /\ WorkInv /\ EndInv

\* The migrations of the instance are trees.
LEMMA TreeOfCase ==
  ASSUME TypeInv
  PROVE  /\ Tree(Items, Top) /\ Frame = FrameOf(Items) /\ Nodes = DOMAIN Items
         /\ frames \in Seq(FrameOf(Items)) /\ todo \in Seq(DOMAIN Items)
         /\ savepoints \in Seq(Savepoint)
         /\ Steps = {x \in DOMAIN Items : Items[x] = <<>>}
<1>1. Frame = FrameOf(Items) /\ Nodes = DOMAIN Items
  BY DEF Frame, FrameOf, Nodes, Items
<1>2. Tree(Items, Top)
  <2>1. PICK pair \in Cases : migration = pair[1]
    BY DEF TypeInv, CaseKnown
  <2> QED
    BY <2>1, StepsAssumption DEF Tree, Items, Top
<1>3. Steps = {x \in DOMAIN Items : Items[x] = <<>>}
  BY DEF Steps, StepsOf, Items
<1> QED
  BY <1>1, <1>2, <1>3 DEF TypeInv, Typed

\* Nothing that the invariants depend on changes with the call.
LEMMA SameCall ==
  ASSUME [Next]_vars, direction' = direction, force' = force
  PROVE  /\ (Applying' <=> Applying) /\ Plain' = Plain
         /\ (SkipsWhole' <=> SkipsWhole)
<1>1. migration' = migration
  BY SameCase
<1>2. Plain' = Plain
  BY <1>1 DEF Plain, Reversible, Top
<1>3. SkipsWhole' <=> SkipsWhole
  BY <1>1 DEF SkipsWhole, UseTransactions, Nodes, Steps
<1> QED
  BY <1>2, <1>3 DEF Applying

\* Under of the specification is StepsBelow.
LEMMA BelowIsUnder ==
  ASSUME TypeInv, NEW n \in Nodes
  PROVE  Under(n) = StepsBelow(Items, n) /\ StepsBelow(Items, n) \subseteq Steps
<1>1. Tree(Items, Top) /\ Nodes = DOMAIN Items
      /\ Steps = {x \in DOMAIN Items : Items[x] = <<>>}
  BY TreeOfCase
<1>2. Below(Items, n) \subseteq DOMAIN Items
  BY <1>1, BelowIsLeast
<1> QED
  BY <1>1, <1>2 DEF Under, StepsBelow

\* A wrapper f is entered, behind the k wrappers outer, with savepoint p.
Enters(k, outer, f, p) ==
  /\ loop = "main" /\ error = "none"
  /\ UNCHANGED <<direction, force, loop, error, before, skipped, work>>
  /\ k \in Nat /\ Len(frames) = k /\ outer \in Seq(Frame) /\ Len(outer) = k
  /\ \A i \in 1..k : /\ outer[i].node = frames[i].node
                     /\ outer[i].sp = frames[i].sp
                     /\ outer[i].dir = frames[i].dir
  /\ f \in Frame /\ f.dir = (IF k = 0 THEN direction ELSE "apply")
  /\ p \in Savepoint
  /\ UseTransactions => /\ f.sp = next_id /\ next_id' = next_id + 1
                        /\ savepoints' = Append(savepoints, p)
                        /\ p.id = next_id /\ p.contents = work
  /\ frames' = Append(outer, f)
  /\ Nested(Items, Top, frames', todo')
  /\ Left(Items, frames', todo') = StepsLeft
  /\ StepsLeft = StepsBelow(Items, f.node)
                   \cup Outside(Items, frames', todo', k + 1)
  /\ \A i \in 1..k : Outside(Items, frames', todo', i)
                     = Outside(Items, frames, todo, i)

LEMMA OpenKeepsProgress ==
  ASSUME TypeInv, ShapeInv, SavedInv, WorkInv, [Next]_vars,
         NEW k, NEW outer, NEW f, NEW p, Enters(k, outer, f, p)
  PROVE  ShapeInv' /\ SavedInv' /\ WorkInv'
<1>a. /\ loop = "main" /\ error = "none"
      /\ UNCHANGED <<direction, force, loop, error, before, skipped, work>>
  BY DEF Enters
<1>b. /\ k \in Nat /\ Len(frames) = k
      /\ outer \in Seq(Frame) /\ Len(outer) = k /\ frames' = Append(outer, f)
      /\ f \in Frame /\ p \in Savepoint
  BY DEF Enters
<1>c. /\ \A i \in 1..k : /\ outer[i].node = frames[i].node
                         /\ outer[i].sp = frames[i].sp
                         /\ outer[i].dir = frames[i].dir
      /\ f.dir = (IF k = 0 THEN direction ELSE "apply")
  BY DEF Enters
<1>d. UseTransactions => /\ f.sp = next_id /\ next_id' = next_id + 1
                        /\ savepoints' = Append(savepoints, p)
                        /\ p.id = next_id /\ p.contents = work
  BY DEF Enters
<1>e. /\ Nested(Items, Top, frames', todo')
      /\ Left(Items, frames', todo') = StepsLeft
      /\ StepsLeft = StepsBelow(Items, f.node)
                       \cup Outside(Items, frames', todo', k + 1)
      /\ \A i \in 1..k : Outside(Items, frames', todo', i)
                         = Outside(Items, frames, todo, i)
  BY DEF Enters
<1>1. /\ DOMAIN frames = 1..k /\ DOMAIN frames' = 1..(k + 1)
      /\ \A i \in 1..k : frames'[i] = outer[i]
      /\ frames'[k + 1] = f
  <2>1. DOMAIN frames = 1..k
    BY <1>b DEF TypeInv, Typed
  <2> QED
    BY <1>b, <2>1
<1>2. \A i \in 1..k : /\ frames'[i].node = frames[i].node
                      /\ frames'[i].sp = frames[i].sp
                      /\ frames'[i].dir = frames[i].dir
  BY <1>1, <1>c
<1>3. Items' = Items /\ Top' = Top /\ Steps' = Steps /\ Plain' = Plain
      /\ (Applying' <=> Applying) /\ UseTransactions' = UseTransactions
      /\ migration' = migration
  BY <1>a, SameCase, SameCall
<1>4. next_id \in Nat /\ savepoints \in Seq(Savepoint)
  BY DEF TypeInv, Typed
<1>5. ASSUME UseTransactions
      PROVE  /\ DOMAIN savepoints = 1..Len(savepoints)
             /\ DOMAIN savepoints' = 1..(Len(savepoints) + 1)
             /\ \A j \in DOMAIN savepoints : savepoints'[j] = savepoints[j]
             /\ savepoints'[Len(savepoints) + 1] = p
             /\ Len(savepoints) \in Nat
  BY <1>b, <1>d, <1>4, <1>5
<1>6. Reached(StepsLeft, work)
  BY <1>a DEF WorkInv
<1> DEFINE Again(ahead, contents) ==
             /\ Applying' => Whole(Steps', before', skipped', ahead, contents)
             /\ direction' = "rollback" =>
                  RolledBack(Plain', skipped', ahead, contents)
<1>7. ASSUME NEW ahead, NEW contents, Reached(ahead, contents)
      PROVE  Again(ahead, contents)
  BY <1>a, <1>3, <1>7 DEF Reached
<1>8. \A i \in 1..k : From(i)' = From(i)
  <2> TAKE i \in 1..k
  <2>1. Outside(Items, frames', todo', i) = Outside(Items, frames, todo, i)
    BY <1>e
  <2> QED
    BY <1>2, <1>3, <2>1 DEF From
<1>9. From(k + 1)' = StepsLeft
  BY <1>e, <1>1, <1>3 DEF From
<1>10. ShapeInv'
  <2>1. Nested(Items, Top, frames, todo) /\ Directed(frames, direction)
    BY <1>a DEF ShapeInv
  <2>2. Directed(frames', direction')
    <3> SUFFICES ASSUME NEW i \in 1..(k + 1)
                 PROVE  frames'[i].dir = IF i = 1 THEN direction ELSE "apply"
      BY <1>a, <1>1 DEF Directed
    <3>1. CASE i = k + 1
      BY <1>b, <1>c, <1>1, <3>1
    <3>2. CASE i # k + 1
      <4>1. i \in 1..k
        BY <1>b, <3>2
      <4> QED
        BY <1>1, <1>2, <2>1, <4>1 DEF Directed
    <3> QED
      BY <3>1, <3>2
  <2>3. ASSUME UseTransactions
        PROVE  Numbered(frames', savepoints', next_id')
    <3>1. /\ next_id' = next_id + 1 /\ f.sp = next_id /\ p.id = next_id
          /\ Numbered(frames, savepoints, next_id)
      BY <1>a, <1>d, <2>3 DEF ShapeInv
    <3>2. /\ \A i \in DOMAIN frames : frames[i].sp \in Nat
          /\ \A j \in DOMAIN savepoints : savepoints[j].id \in Nat
      <4>1. /\ \A x \in Frame : x.sp \in Nat
            /\ \A x \in Savepoint : x.id \in Nat
        BY DEF Frame, Savepoint
      <4>2. /\ \A i \in DOMAIN frames : frames[i] \in Frame
            /\ \A j \in DOMAIN savepoints : savepoints[j] \in Savepoint
        <5>1. frames \in Seq(Frame) /\ savepoints \in Seq(Savepoint)
          BY DEF TypeInv, Typed
        <5> HIDE DEF Frame, Savepoint
        <5> QED
          BY <5>1
      <4> QED
        BY <4>1, <4>2
    <3>3. \A i \in DOMAIN frames' : frames'[i].sp < next_id'
      <4> SUFFICES ASSUME NEW i \in 1..(k + 1) PROVE frames'[i].sp < next_id'
        BY <1>1
      <4>1. CASE i = k + 1
        BY <1>1, <1>4, <3>1, <4>1
      <4>2. CASE i # k + 1
        <5>1. i \in DOMAIN frames /\ frames'[i].sp = frames[i].sp
          BY <1>b, <1>1, <1>2, <4>2
        <5>2. frames[i].sp < next_id /\ frames[i].sp \in Nat
          BY <3>1, <3>2, <5>1 DEF Numbered
        <5> QED
          BY <1>4, <3>1, <5>1, <5>2
      <4> QED
        BY <4>1, <4>2
    <3>4. \A j \in DOMAIN savepoints' : savepoints'[j].id < next_id'
      <4> TAKE j \in DOMAIN savepoints'
      <4>1. CASE j = Len(savepoints) + 1
        BY <1>4, <1>5, <2>3, <3>1, <4>1
      <4>2. CASE j # Len(savepoints) + 1
        <5>1. j \in DOMAIN savepoints /\ savepoints'[j] = savepoints[j]
          BY <1>5, <2>3, <4>2
        <5>2. savepoints[j].id < next_id /\ savepoints[j].id \in Nat
          BY <3>1, <3>2, <5>1 DEF Numbered
        <5> QED
          BY <1>4, <3>1, <5>1, <5>2
      <4> QED
        BY <4>1, <4>2
    <3> QED
      BY <3>3, <3>4 DEF Numbered
  <2> QED
    BY <1>e, <1>3, <2>2, <2>3 DEF ShapeInv
<1>11. SavedInv'
  <2> SUFFICES ASSUME UseTransactions,
                      NEW i \in 1..(k + 1), NEW j \in DOMAIN savepoints',
                      savepoints'[j].id = frames'[i].sp
               PROVE  Again(From(i)', savepoints'[j].contents)
    BY <1>1, <1>3 DEF SavedInv, Reached
  <2>1. /\ f.sp = next_id /\ p.id = next_id /\ p.contents = work
        /\ Numbered(frames, savepoints, next_id)
    BY <1>a, <1>d DEF ShapeInv
  <2>2. CASE i = k + 1 /\ j = Len(savepoints) + 1
    <3>1. savepoints'[j] = p /\ From(i)' = StepsLeft
      BY <1>5, <1>9, <2>2
    <3> QED
      BY <1>6, <1>7, <2>1, <3>1
  <2>3. CASE i # k + 1 /\ j # Len(savepoints) + 1
    <3>1. i \in 1..k /\ j \in DOMAIN savepoints
      BY <1>b, <1>5, <2>3
    <3>2. /\ savepoints'[j] = savepoints[j] /\ frames'[i].sp = frames[i].sp
          /\ From(i)' = From(i) /\ i \in DOMAIN frames
      BY <1>1, <1>2, <1>5, <1>8, <3>1
    <3>3. Reached(From(i), savepoints[j].contents)
      BY <1>a, <3>1, <3>2 DEF SavedInv
    <3> QED
      BY <1>7, <3>2, <3>3
  <2>4. CASE i = k + 1 /\ j # Len(savepoints) + 1
    <3>1. /\ j \in DOMAIN savepoints /\ savepoints'[j] = savepoints[j]
          /\ frames'[i].sp = next_id
      BY <1>1, <1>5, <2>1, <2>4
    <3>2. savepoints[j].id < next_id
      BY <2>1, <3>1 DEF Numbered
    <3> QED
      BY <1>4, <3>1, <3>2
  <2>5. CASE i # k + 1 /\ j = Len(savepoints) + 1
    <3>1. i \in DOMAIN frames /\ frames'[i].sp = frames[i].sp
          /\ savepoints'[j].id = next_id
      BY <1>b, <1>1, <1>2, <1>5, <2>1, <2>5
    <3>2. frames[i].sp < next_id
      BY <2>1, <3>1 DEF Numbered
    <3> QED
      BY <1>4, <3>1, <3>2
  <2> QED
    BY <2>2, <2>3, <2>4, <2>5
<1>12. WorkInv'
  <2>1. StepsLeft' = StepsLeft
    BY <1>e, <1>3 DEF StepsLeft
  <2>2. Again(StepsLeft', work')
    BY <1>a, <1>6, <1>7, <2>1
  <2>3. skipped' \cap StepsLeft' = {}
    BY <1>a, <2>1 DEF WorkInv
  <2> QED
    BY <2>2, <2>3 DEF WorkInv, Reached
<1> QED
  BY <1>10, <1>11, <1>12

\* The actions of the loops, one by one.
LEMMA OpenTopProgress ==
  ASSUME TypeInv, ShapeInv, SavedInv, WorkInv, [Next]_vars,
         loop = "main", OpenTop
  PROVE  ShapeInv' /\ SavedInv' /\ WorkInv'
<1>1. /\ frames = <<>> /\ todo # <<>> /\ error = "none" /\ todo' = Tail(todo)
      /\ Open(Head(todo), direction, <<>>)
  BY DEF OpenTop, LoopDirection
<1>2. /\ Tree(Items, Top) /\ Frame = FrameOf(Items) /\ Nodes = DOMAIN Items
      /\ frames \in Seq(FrameOf(Items)) /\ todo \in Seq(DOMAIN Items)
  BY TreeOfCase
<1>3. Nested(Items, Top, frames, todo)
  BY DEF ShapeInv
<1> DEFINE f == [node |-> Head(todo), dir |-> direction,
                 todo |-> Items[Head(todo)],
                 sp |-> IF UseTransactions THEN next_id ELSE 0]
           p == [id |-> next_id, contents |-> work]
<1>4. f \in Frame /\ p \in Savepoint
  <2>1. Head(todo) \in Nodes /\ Items[Head(todo)] \in Seq(Nodes)
    BY <1>1, <1>2, HeadAndTail, CaseFacts DEF TypeInv
  <2>2. next_id \in Nat /\ direction \in {"apply", "rollback"}
        /\ work \subseteq Contents
    BY DEF TypeInv, Typed
  <2> QED
    BY <2>1, <2>2 DEF Frame, Savepoint
<1>5. /\ f.node = Head(todo) /\ f.todo = Items[f.node] /\ f.dir = direction
      /\ UseTransactions => f.sp = next_id
      /\ p.id = next_id /\ p.contents = work
  OBVIOUS
<1>6. /\ frames' = Append(frames, f)
      /\ UseTransactions => /\ savepoints' = Append(savepoints, p)
                            /\ next_id' = next_id + 1
      /\ UNCHANGED <<direction, force, loop, error, before, skipped, work>>
  BY <1>1 DEF Open, call, history
<1> HIDE DEF f, p
<1>7. /\ Nested(Items, Top, Append(frames, f), Tail(todo))
      /\ Left(Items, frames, todo)
           = StepsBelow(Items, f.node)
               \cup Outside(Items, Append(frames, f), Tail(todo), 1)
      /\ Left(Items, Append(frames, f), Tail(todo)) = Left(Items, frames, todo)
  <2>1. Empty(frames)
    BY <1>1 DEF Empty
  <2>2. f \in FrameOf(Items)
    BY <1>2, <1>4
  <2>3. Starts(Items, Top, frames, todo, f)
    BY <1>1, <1>2, <1>3, <1>5, <2>1, <2>2 DEF Starts
  <2> QED
    BY <2>3, EnterTop
<1>8. Len(frames) = 0 /\ DOMAIN frames = {}
  BY <1>1
<1>9. Enters(0, frames, f, p)
  <2>1. \A i \in 1..0 : FALSE
    OBVIOUS
  <2>2. frames' = Append(frames, f) /\ todo' = Tail(todo)
    BY <1>1, <1>6
  <2>3. /\ Nested(Items, Top, frames', todo')
        /\ Left(Items, frames', todo') = StepsLeft
        /\ StepsLeft = StepsBelow(Items, f.node)
                         \cup Outside(Items, frames', todo', 0 + 1)
    BY <1>7, <2>2 DEF StepsLeft
  <2>4. frames \in Seq(Frame) /\ 0 \in Nat
    BY <1>2
  <2> QED
    BY <1>1, <1>4, <1>5, <1>6, <1>8, <2>1, <2>3, <2>4 DEF Enters
<1> QED
  BY <1>9, OpenKeepsProgress

LEMMA OpenItemProgress ==
  ASSUME TypeInv, ShapeInv, SavedInv, WorkInv, [Next]_vars,
         loop = "main", OpenItem
  PROVE  ShapeInv' /\ SavedInv' /\ WorkInv'
<1> DEFINE last == Last(frames)
           outer == [frames EXCEPT ![Len(frames)].todo = Tail(@)]
           new == [last EXCEPT !.todo = Tail(@)]
           f == [node |-> Head(last.todo), dir |-> "apply",
                 todo |-> Items[Head(last.todo)],
                 sp |-> IF UseTransactions THEN next_id ELSE 0]
           p == [id |-> next_id, contents |-> work]
<1>1. /\ frames # <<>> /\ last.todo # <<>> /\ error = "none" /\ todo' = todo
      /\ Items[last.node] # <<>>
      /\ Open(Head(last.todo), "apply", outer)
  BY DEF OpenItem, InGroup, Innermost
<1>2. /\ Tree(Items, Top) /\ Frame = FrameOf(Items) /\ Nodes = DOMAIN Items
      /\ frames \in Seq(FrameOf(Items)) /\ todo \in Seq(DOMAIN Items)
  BY TreeOfCase
<1>3. Nested(Items, Top, frames, todo)
  BY DEF ShapeInv
<1>4. /\ last \in Frame /\ last = frames[Len(frames)]
      /\ Len(frames) \in DOMAIN frames
  BY <1>1, <1>2, EndsOf
<1>5. /\ last.todo \in Seq(Nodes) /\ Head(last.todo) \in Nodes
      /\ Tail(last.todo) \in Seq(Nodes)
  <2>1. last.todo \in Seq(Nodes)
    BY <1>4 DEF Frame
  <2> QED
    BY <1>1, <2>1
<1>6. /\ new \in Frame /\ new.todo = Tail(last.todo) /\ new.node = last.node
      /\ new.sp = last.sp /\ new.dir = last.dir
  BY <1>4, <1>5 DEF Frame
<1>7. outer = [frames EXCEPT ![Len(frames)] = new]
  BY <1>2, <1>4
<1>8. f \in Frame /\ p \in Savepoint
  <2>1. Items[Head(last.todo)] \in Seq(Nodes)
    BY <1>5, CaseFacts DEF TypeInv
  <2>2. next_id \in Nat /\ work \subseteq Contents
    BY DEF TypeInv, Typed
  <2> QED
    BY <1>5, <2>1, <2>2 DEF Frame, Savepoint
<1>9. /\ f.node = Head(last.todo) /\ f.todo = Items[f.node] /\ f.dir = "apply"
      /\ UseTransactions => f.sp = next_id
      /\ p.id = next_id /\ p.contents = work
  OBVIOUS
<1>10. /\ frames' = Append(outer, f)
       /\ UseTransactions => /\ savepoints' = Append(savepoints, p)
                             /\ next_id' = next_id + 1
       /\ UNCHANGED <<direction, force, loop, error, before, skipped, work>>
  BY <1>1 DEF Open, call, history
<1> HIDE DEF f, p, new, outer, last
<1>11. PICK k \in Nat : Len(frames) = k /\ k # 0 /\ k = Len(frames)
  BY <1>1, <1>2
<1>12. /\ outer \in Seq(FrameOf(Items)) /\ Len(outer) = k
       /\ \A i \in 1..(k - 1) : outer[i] = frames[i]
       /\ outer[k].todo = Tail(last.todo)
       /\ \A i \in DOMAIN frames : /\ outer[i].node = frames[i].node
                                   /\ outer[i].sp = frames[i].sp
                                   /\ outer[i].dir = frames[i].dir
  <2>1. /\ outer \in Seq(FrameOf(Items)) /\ Len(outer) = Len(frames)
        /\ \A i \in 1..(Len(frames) - 1) : outer[i] = frames[i]
        /\ outer[Len(frames)].todo = Tail(last.todo)
        /\ \A i \in DOMAIN frames : /\ outer[i].node = frames[i].node
                                    /\ outer[i].sp = frames[i].sp
                                    /\ outer[i].dir = frames[i].dir
    <3>1. new \in FrameOf(Items)
      BY <1>2, <1>6
    <3> QED
      BY <1>1, <1>2, <1>6, <1>7, <3>1, OuterFacts DEF last
  <2> QED
    BY <1>11, <2>1
<1>13. Advances(Items, Top, frames, todo, k, last, outer, f)
  <2>1. last = frames[k]
    BY <1>4, <1>11
  <2>2. \A i \in DOMAIN frames : outer[i].node = frames[i].node
    BY <1>12
  <2>3. f \in FrameOf(Items)
    BY <1>2, <1>8
  <2> QED
    BY <1>1, <1>2, <1>3, <1>9, <1>11, <1>12, <2>1, <2>2, <2>3 DEF Advances
<1>14. /\ Nested(Items, Top, Append(outer, f), todo)
       /\ Left(Items, Append(outer, f), todo) = Left(Items, frames, todo)
       /\ Left(Items, frames, todo)
            = StepsBelow(Items, f.node)
                \cup Outside(Items, Append(outer, f), todo, k + 1)
       /\ \A i \in DOMAIN frames : Outside(Items, Append(outer, f), todo, i)
                                   = Outside(Items, frames, todo, i)
  BY <1>13, EnterItem
<1>15. DOMAIN frames = 1..k
  BY <1>2, <1>11
<1>16. Enters(k, outer, f, p)
  <2>1. /\ Nested(Items, Top, frames', todo')
        /\ Left(Items, frames', todo') = StepsLeft
        /\ StepsLeft = StepsBelow(Items, f.node)
                         \cup Outside(Items, frames', todo', k + 1)
        /\ \A i \in 1..k : Outside(Items, frames', todo', i)
                           = Outside(Items, frames, todo, i)
    BY <1>1, <1>10, <1>14, <1>15 DEF StepsLeft
  <2>2. \A i \in 1..k : /\ outer[i].node = frames[i].node
                        /\ outer[i].sp = frames[i].sp
                        /\ outer[i].dir = frames[i].dir
    BY <1>12, <1>15
  <2>3. outer \in Seq(Frame)
    BY <1>2, <1>12
  <2> QED
    BY <1>1, <1>8, <1>9, <1>10, <1>11, <1>12, <2>1, <2>2, <2>3 DEF Enters
<1> QED
  BY <1>16, OpenKeepsProgress

\* The innermost wrapper is left: what remains on the stack keeps its place,
\* and only the steps under the wrapper that is left can become skipped.
LeavesWrapper ==
  /\ loop = "main" /\ frames # <<>> /\ frames' = Front(frames)
  /\ UNCHANGED <<direction, force, loop, before, todo, next_id>>
  /\ \A j \in DOMAIN savepoints' :
       j \in DOMAIN savepoints /\ savepoints'[j] = savepoints[j]
  /\ skipped \subseteq skipped'
  /\ skipped' \subseteq skipped \cup StepsBelow(Items, Innermost.node)

LEMMA LeaveKeepsProgress ==
  ASSUME TypeInv, ShapeInv, SavedInv, WorkInv, [Next]_vars, LeavesWrapper
  PROVE  /\ ShapeInv' /\ SavedInv'
         /\ skipped' \cap StepsLeft' = {}
         /\ StepsLeft' = Outside(Items, frames, todo, Len(frames))
         /\ StepsLeft
              = StepsLeft' \cup (IF AtStep(Items, frames) THEN {Innermost.node}
                                 ELSE Pending(Items, Innermost.todo))
         /\ ~AtStep(Items, frames')
<1>1. /\ loop = "main" /\ frames # <<>> /\ frames' = Front(frames)
      /\ UNCHANGED <<direction, force, loop, before, todo, next_id>>
  BY DEF LeavesWrapper
<1>2. \A j \in DOMAIN savepoints' :
        j \in DOMAIN savepoints /\ savepoints'[j] = savepoints[j]
  BY DEF LeavesWrapper
<1>3. /\ skipped \subseteq skipped'
      /\ skipped' \subseteq skipped \cup StepsBelow(Items, Innermost.node)
  BY DEF LeavesWrapper
<1>4. /\ Tree(Items, Top) /\ frames \in Seq(FrameOf(Items))
      /\ todo \in Seq(DOMAIN Items)
  BY TreeOfCase
<1>5. Nested(Items, Top, frames, todo) /\ Directed(frames, direction)
  BY <1>1 DEF ShapeInv
<1>6. Items' = Items /\ Top' = Top /\ Steps' = Steps /\ Plain' = Plain
      /\ (Applying' <=> Applying) /\ UseTransactions' = UseTransactions
  BY <1>1, SameCase, SameCall
<1>7. /\ Nested(Items, Top, Front(frames), todo)
      /\ \A i \in 1..Len(frames) : Outside(Items, Front(frames), todo, i)
                                   = Outside(Items, frames, todo, i)
      /\ ~AtStep(Items, Front(frames))
      /\ Left(Items, Front(frames), todo)
           = Outside(Items, frames, todo, Len(frames))
      /\ Left(Items, frames, todo)
           = Left(Items, Front(frames), todo)
               \cup (IF AtStep(Items, frames) THEN {Last(frames).node}
                     ELSE Pending(Items, Last(frames).todo))
  BY <1>1, <1>4, <1>5, PopNested
<1>8. StepsLeft' = Left(Items, Front(frames), todo)
  BY <1>1, <1>6 DEF StepsLeft
<1>9. PICK k \in Nat : Len(frames) = k /\ k # 0 /\ k = Len(frames)
  BY <1>1, <1>4
<1>10. /\ DOMAIN frames = 1..k /\ DOMAIN frames' = 1..(k - 1)
       /\ \A i \in 1..(k - 1) : frames'[i] = frames[i]
       /\ Innermost = frames[k]
  BY <1>1, <1>4, <1>9, EndsOf DEF Innermost
<1>11. \A i \in DOMAIN frames' :
         i \in DOMAIN frames /\ frames'[i] = frames[i] /\ i \in 1..(k - 1)
  BY <1>9, <1>10
<1>12. ShapeInv'
  <2>1. Directed(frames', direction')
    BY <1>1, <1>5, <1>11 DEF Directed
  <2>2. ASSUME UseTransactions
        PROVE  Numbered(frames', savepoints', next_id')
    BY <1>1, <1>2, <1>11, <2>2 DEF ShapeInv, Numbered
  <2> QED
    BY <1>1, <1>6, <1>7, <2>1, <2>2 DEF ShapeInv
<1>13. \A i \in 1..(k - 1) : From(i)' = From(i)
  <2> TAKE i \in 1..(k - 1)
  <2>1. i \in 1..Len(frames) /\ frames'[i] = frames[i]
    BY <1>9, <1>10
  <2>2. Outside(Items, Front(frames), todo, i) = Outside(Items, frames, todo, i)
    BY <1>7, <2>1
  <2> QED
    BY <1>1, <1>6, <2>1, <2>2 DEF From
<1>14. \A i \in 1..(k - 1) : StepsBelow(Items, Innermost.node) \subseteq From(i)
  <2> TAKE i \in 1..(k - 1)
  <2>1. StepsBelow(Items, frames[k].node)
          \subseteq StepsBelow(Items, frames[i].node)
    <3>1. k \in DOMAIN frames
      BY <1>9, <1>10
    <3> QED
      BY <1>5, <3>1 DEF Nested
  <2> QED
    BY <1>10, <2>1 DEF From
<1>15. SavedInv'
  <2> DEFINE Again(ahead, contents) ==
               /\ Applying' => Whole(Steps', before', skipped', ahead, contents)
               /\ direction' = "rollback" =>
                    RolledBack(Plain', skipped', ahead, contents)
  <2> SUFFICES ASSUME UseTransactions,
                      NEW i \in 1..(k - 1), NEW j \in DOMAIN savepoints',
                      savepoints'[j].id = frames'[i].sp
               PROVE  Again(From(i)', savepoints'[j].contents)
    BY <1>6, <1>10 DEF SavedInv, Reached
  <2>1. /\ i \in DOMAIN frames /\ frames'[i] = frames[i]
        /\ j \in DOMAIN savepoints /\ savepoints'[j] = savepoints[j]
    BY <1>2, <1>9, <1>10
  <2>2. Reached(From(i), savepoints[j].contents)
    BY <1>1, <2>1 DEF SavedInv
  <2>3. /\ StepsBelow(Items, Innermost.node) \subseteq From(i)
        /\ From(i)' = From(i)
    BY <1>13, <1>14
  <2>4. Applying' => Whole(Steps', before', skipped', From(i),
                           savepoints[j].contents)
    BY <1>1, <1>3, <1>6, <2>2, <2>3 DEF Reached, Whole
  <2>5. direction' = "rollback" =>
          RolledBack(Plain', skipped', From(i), savepoints[j].contents)
    BY <1>1, <1>3, <1>6, <2>2 DEF Reached, RolledBack
  <2> QED
    BY <2>1, <2>3, <2>4, <2>5
<1>16. skipped' \cap StepsLeft' = {}
  <2>1. StepsLeft' \subseteq StepsLeft /\ skipped \cap StepsLeft = {}
    BY <1>1, <1>7, <1>8 DEF StepsLeft, WorkInv
  <2>2. StepsBelow(Items, Innermost.node) \cap StepsLeft' = {}
    <3>1. k \in DOMAIN frames
      BY <1>9, <1>10
    <3>2. StepsBelow(Items, frames[k].node) \cap Outside(Items, frames, todo, k)
            = {}
      BY <1>5, <3>1 DEF Nested
    <3> QED
      BY <1>7, <1>8, <1>9, <1>10, <3>2
  <2> QED
    BY <1>3, <2>1, <2>2
<1> QED
  BY <1>1, <1>6, <1>7, <1>8, <1>12, <1>15, <1>16 DEF Innermost, StepsLeft

\* No step or group of the list is below an item of a group.
LEMMA ItemsAreNotTop ==
  ASSUME NEW it, NEW top, Tree(it, top), NEW n \in DOMAIN it,
         n \notin ToSet(top)
  PROVE  StepsBelow(it, n) \cap ToSet(top) = {}
<1> SUFFICES ASSUME NEW x \in Below(it, n), x \in ToSet(top) PROVE FALSE
  BY DEF StepsBelow
<1>1. PICK y \in Below(it, n) : x \in ToSet(it[y])
  BY BelowHasParent
<1>2. y \in DOMAIN it
  BY BelowIsLeast
<1> QED
  BY <1>1, <1>2 DEF Tree, IsTree

\* What is known of the innermost wrapper.
LEMMA InnermostFacts ==
  ASSUME TypeInv, ShapeInv, loop = "main", frames # <<>>
  PROVE  /\ Innermost \in Frame /\ Innermost.node \in Nodes
         /\ Innermost = frames[Len(frames)] /\ Len(frames) \in DOMAIN frames
         /\ direction = "apply" => Innermost.dir = "apply"
         /\ Innermost.dir = "rollback" => direction = "rollback"
         /\ direction = "rollback" /\ Innermost.dir = "apply" =>
              Innermost.node \notin ToSet(Top)
         /\ Front(frames) # <<>> =>
              StepsBelow(Items, Innermost.node) \cap ToSet(Top) = {}
         /\ AtStep(Items, frames) <=> Innermost.node \in Steps
         /\ InStep <=> AtStep(Items, frames)
         /\ AtStep(Items, frames) =>
              /\ StepsBelow(Items, Innermost.node) = {Innermost.node}
              /\ Innermost.node \in StepsLeft
         /\ StepsBelow(Items, Innermost.node)
              \cap Outside(Items, frames, todo, Len(frames)) = {}
         /\ ~AtStep(Items, frames) =>
              Pending(Items, Innermost.todo)
                \subseteq StepsBelow(Items, Innermost.node)
         /\ From(Len(frames))
              = StepsBelow(Items, Innermost.node)
                  \cup Outside(Items, frames, todo, Len(frames))
<1>1. /\ Tree(Items, Top) /\ Frame = FrameOf(Items) /\ Nodes = DOMAIN Items
      /\ frames \in Seq(FrameOf(Items)) /\ todo \in Seq(DOMAIN Items)
      /\ Steps = {x \in DOMAIN Items : Items[x] = <<>>}
  BY TreeOfCase
<1>2. Nested(Items, Top, frames, todo) /\ Directed(frames, direction)
  BY DEF ShapeInv
<1>3. /\ Innermost \in Frame /\ Innermost = frames[Len(frames)]
      /\ Len(frames) \in DOMAIN frames /\ Innermost = Last(frames)
      /\ Len(Front(frames)) = Len(frames) - 1 /\ Len(frames) \in Nat
  BY <1>1, EndsOf DEF Innermost
<1>4. /\ Innermost.node \in Nodes /\ direction \in {"apply", "rollback"}
  BY <1>3 DEF Frame, TypeInv, Typed
<1>5. Innermost.dir = (IF Len(frames) = 1 THEN direction ELSE "apply")
  BY <1>2, <1>3 DEF Directed
<1>6. /\ Len(frames) = 1 <=> Innermost.node \in ToSet(Top)
      /\ StepsBelow(Items, Innermost.node)
           \cap Outside(Items, frames, todo, Len(frames)) = {}
      /\ ToSet(Innermost.todo) \subseteq ToSet(Items[Innermost.node])
  BY <1>2, <1>3 DEF Nested
<1>7. ASSUME Front(frames) # <<>>
      PROVE  StepsBelow(Items, Innermost.node) \cap ToSet(Top) = {}
  <2>1. Len(frames) # 1
    <3>1. Front(frames) \in Seq(FrameOf(Items))
      BY <1>1, EndsOf
    <3>2. Len(Front(frames)) # 0
      BY <1>7, <3>1
    <3> QED
      BY <1>3, <3>2
  <2> QED
    BY <1>1, <1>4, <1>6, <2>1, ItemsAreNotTop
<1>8. /\ AtStep(Items, frames) <=> Innermost.node \in Steps
      /\ InStep <=> AtStep(Items, frames)
  BY <1>1, <1>3, <1>4 DEF AtStep, InStep
<1>9. ASSUME AtStep(Items, frames)
      PROVE  /\ StepsBelow(Items, Innermost.node) = {Innermost.node}
             /\ Innermost.node \in StepsLeft
  <2>1. Items[Innermost.node] = <<>>
    BY <1>3, <1>9 DEF AtStep
  <2>2. Innermost.node \in StepsLeft
    BY <1>3, <1>9 DEF StepsLeft, Left
  <2> QED
    BY <1>1, <1>4, <2>1, <2>2, BelowStep
<1>10. ASSUME ~AtStep(Items, frames)
       PROVE  Pending(Items, Innermost.todo)
                \subseteq StepsBelow(Items, Innermost.node)
  <2>1. Items[Innermost.node] # <<>>
    BY <1>3, <1>10 DEF AtStep
  <2>2. StepsBelow(Items, Innermost.node)
          = Pending(Items, Items[Innermost.node])
    BY <1>1, <1>4, <2>1, BelowGroup
  <2> QED
    BY <1>6, <2>2 DEF Pending
<1>11. From(Len(frames))
         = StepsBelow(Items, Innermost.node)
             \cup Outside(Items, frames, todo, Len(frames))
  BY <1>3 DEF From
<1> QED
  BY <1>3, <1>4, <1>5, <1>6, <1>7, <1>8, <1>9, <1>10, <1>11

LEMMA ReturnProgress ==
  ASSUME TypeInv, ShapeInv, SavedInv, WorkInv, [Next]_vars, loop = "main",
         NoStatement \/ EndGroup \/ Statement
  PROVE  ShapeInv' /\ SavedInv' /\ WorkInv'
<1> DEFINE n == Innermost.node
<1>1. /\ frames # <<>> /\ frames' = Front(frames) /\ error = "none"
      /\ UNCHANGED <<direction, force, loop, before, todo, next_id, skipped,
                     error>>
      /\ savepoints' \in {savepoints, <<>>}
  BY DEF NoStatement, EndGroup, Statement, HasStatement, InStep, InGroup,
     Return, call, database, history
<1>2. LeavesWrapper
  <2>1. \A j \in DOMAIN savepoints' :
          j \in DOMAIN savepoints /\ savepoints'[j] = savepoints[j]
    BY <1>1
  <2> QED
    BY <1>1, <2>1 DEF LeavesWrapper
<1>3. /\ ShapeInv' /\ SavedInv' /\ skipped' \cap StepsLeft' = {}
      /\ StepsLeft' = Outside(Items, frames, todo, Len(frames))
      /\ StepsLeft = StepsLeft' \cup (IF AtStep(Items, frames) THEN {n}
                                      ELSE Pending(Items, Innermost.todo))
  BY <1>2, LeaveKeepsProgress
<1>4. /\ direction = "apply" => Innermost.dir = "apply"
      /\ Innermost.dir = "rollback" => direction = "rollback"
      /\ direction = "rollback" /\ Innermost.dir = "apply" =>
           n \notin ToSet(Top)
      /\ AtStep(Items, frames) <=> n \in Steps
      /\ InStep <=> AtStep(Items, frames)
      /\ AtStep(Items, frames) => /\ StepsBelow(Items, n) = {n}
                                  /\ n \in StepsLeft
      /\ StepsBelow(Items, n)
           \cap Outside(Items, frames, todo, Len(frames)) = {}
  BY <1>1, InnermostFacts
<1>5. /\ Reached(StepsLeft, work) /\ skipped \cap StepsLeft = {}
  BY <1>1 DEF WorkInv
<1>6. /\ Items' = Items /\ Steps' = Steps /\ Plain' = Plain
      /\ (Applying' <=> Applying)
  BY <1>1, SameCase, SameCall
<1>7. /\ Applying => Whole(Steps, before, skipped, StepsLeft', work')
      /\ direction = "rollback" => RolledBack(Plain, skipped, StepsLeft', work')
  <2>1. CASE NoStatement
    <3>1. /\ InStep /\ Innermost.dir = "rollback" /\ n \notin Reversible
          /\ work' = work
      BY <2>1 DEF NoStatement, database
    <3>2. n \notin Plain /\ direction = "rollback"
      BY <1>4, <3>1 DEF Plain
    <3>3. RolledBack(Plain, skipped, StepsLeft, work)
      BY <1>5, <3>2 DEF Reached
    <3> QED
      BY <1>3, <1>4, <3>1, <3>2, <3>3 DEF RolledBack, Applying
  <2>2. CASE EndGroup
    <3>1. /\ InGroup /\ Innermost.todo = <<>> /\ work' = work
      BY <2>2 DEF EndGroup, database
    <3>2. Pending(Items, Innermost.todo) = {}
      BY <3>1 DEF Pending, ToSet
    <3>3. ~AtStep(Items, frames)
      BY <1>4, <3>1 DEF InStep, InGroup
    <3>4. StepsLeft' = StepsLeft
      BY <1>3, <3>2, <3>3
    <3> QED
      BY <1>5, <3>1, <3>4 DEF Reached
  <2>3. CASE Statement
    <3>1. /\ InStep
          /\ work' = IF Innermost.dir = "apply" THEN work \cup {n}
                     ELSE work \ {n}
      BY <2>3 DEF Statement, HasStatement
    <3>2. /\ StepsLeft = StepsLeft' \cup {n} /\ n \notin StepsLeft'
          /\ n \notin skipped
      BY <1>3, <1>4, <1>5, <3>1
    <3>3. Applying => Whole(Steps, before, skipped, StepsLeft', work')
      <4> SUFFICES ASSUME Applying
                   PROVE  Whole(Steps, before, skipped, StepsLeft', work')
        OBVIOUS
      <4>1. work' = work \cup {n}
        BY <1>4, <3>1 DEF Applying
      <4>2. Whole(Steps, before, skipped, StepsLeft, work)
        BY <1>5 DEF Reached
      <4> QED
        BY <3>2, <4>1, <4>2 DEF Whole
    <3>4. direction = "rollback" =>
            RolledBack(Plain, skipped, StepsLeft', work')
      <4> SUFFICES ASSUME direction = "rollback"
                   PROVE  RolledBack(Plain, skipped, StepsLeft', work')
        OBVIOUS
      <4>1. RolledBack(Plain, skipped, StepsLeft, work)
        BY <1>5 DEF Reached
      <4>2. CASE Innermost.dir = "apply"
        <5>1. n \notin Plain /\ work' = work \cup {n}
          BY <1>4, <3>1, <4>2 DEF Plain
        <5> QED
          BY <3>2, <4>1, <5>1 DEF RolledBack
      <4>3. CASE Innermost.dir # "apply"
        <5>1. work' = work \ {n}
          BY <3>1, <4>3
        <5> QED
          BY <3>2, <4>1, <5>1 DEF RolledBack
      <4> QED
        BY <4>2, <4>3
    <3> QED
      BY <3>3, <3>4
  <2> QED
    BY <2>1, <2>2, <2>3
<1>8. WorkInv'
  BY <1>1, <1>3, <1>6, <1>7 DEF WorkInv, Reached
<1> QED
  BY <1>3, <1>8

LEMMA IgnoreProgress ==
  ASSUME TypeInv, ShapeInv, SavedInv, WorkInv, [Next]_vars, loop = "main",
         IgnoreError
  PROVE  ShapeInv' /\ SavedInv' /\ WorkInv'
<1> DEFINE n == Innermost.node
<1>1. /\ frames # <<>> /\ frames' = Front(frames) /\ Ignores(Innermost)
      /\ UNCHANGED <<direction, force, loop, before, todo, next_id>>
      /\ skipped' = skipped \cup Under(n) /\ error = "database"
      /\ IF UseTransactions
         THEN \E i \in SavepointAt(Innermost) : RollbackTo(i)
         ELSE work' = work /\ savepoints' = savepoints
  BY DEF IgnoreError, Return, call
<1>2. /\ Innermost \in Frame /\ n \in Nodes
      /\ Innermost = frames[Len(frames)] /\ Len(frames) \in DOMAIN frames
      /\ direction = "apply" => Innermost.dir = "apply"
      /\ AtStep(Items, frames) <=> n \in Steps
      /\ AtStep(Items, frames) => /\ StepsBelow(Items, n) = {n}
                                  /\ n \in StepsLeft
      /\ ~AtStep(Items, frames) =>
           Pending(Items, Innermost.todo) \subseteq StepsBelow(Items, n)
      /\ From(Len(frames))
           = StepsBelow(Items, n)
               \cup Outside(Items, frames, todo, Len(frames))
  BY <1>1, InnermostFacts
<1>3. skipped' = skipped \cup StepsBelow(Items, n)
  BY <1>1, <1>2, BelowIsUnder
<1>4. \A j \in DOMAIN savepoints' :
        j \in DOMAIN savepoints /\ savepoints'[j] = savepoints[j]
  <2>1. CASE UseTransactions
    <3>1. PICK i \in SavepointAt(Innermost) : RollbackTo(i)
      BY <1>1, <2>1
    <3>2. savepoints \in Seq(Savepoint) /\ i \in DOMAIN savepoints
      BY DEF TypeInv, Typed, SavepointAt
    <3>3. savepoints' = SubSeq(savepoints, 1, i)
      BY <3>1 DEF RollbackTo
    <3> QED
      BY <3>2, <3>3
  <2>2. CASE ~UseTransactions
    BY <1>1, <2>2
  <2> QED
    BY <2>1, <2>2
<1>5. LeavesWrapper
  BY <1>1, <1>3, <1>4 DEF LeavesWrapper
<1>6. /\ ShapeInv' /\ SavedInv' /\ skipped' \cap StepsLeft' = {}
      /\ StepsLeft' = Outside(Items, frames, todo, Len(frames))
      /\ StepsLeft = StepsLeft' \cup (IF AtStep(Items, frames) THEN {n}
                                      ELSE Pending(Items, Innermost.todo))
  BY <1>5, LeaveKeepsProgress
<1>7. /\ Items' = Items /\ Steps' = Steps /\ Plain' = Plain
      /\ (Applying' <=> Applying)
  BY <1>1, SameCase, SameCall
<1>8. /\ Applying => Whole(Steps, before, skipped', StepsLeft', work')
      /\ direction = "rollback" =>
           RolledBack(Plain, skipped', StepsLeft', work')
  <2>1. CASE UseTransactions
    <3>1. PICK j \in SavepointAt(Innermost) : RollbackTo(j)
      BY <1>1, <2>1
    <3>2. /\ j \in DOMAIN savepoints /\ work' = savepoints[j].contents
          /\ savepoints[j].id = frames[Len(frames)].sp
      BY <1>2, <3>1 DEF SavepointAt, RollbackTo
    <3>3. Reached(From(Len(frames)), work')
      BY <1>2, <2>1, <3>2 DEF SavedInv
    <3>4. From(Len(frames)) = StepsBelow(Items, n) \cup StepsLeft'
      BY <1>2, <1>6
    <3>5. Applying => Whole(Steps, before, skipped', StepsLeft', work')
      BY <1>3, <3>3, <3>4 DEF Reached, Whole
    <3>6. direction = "rollback" =>
            RolledBack(Plain, skipped', StepsLeft', work')
      BY <1>3, <3>3, <3>4 DEF Reached, RolledBack
    <3> QED
      BY <3>5, <3>6
  <2>2. CASE ~UseTransactions
    <3>1. work' = work
      BY <1>1, <2>2
    <3>2. ASSUME Applying
          PROVE  Whole(Steps, before, skipped', StepsLeft', work')
      <4>1. AtStep(Items, frames)
        <5>1. \A x \in Nodes \ Steps :
                ~force /\ migration.ignore[x] \notin {"apply", "all"}
          BY <2>2, <3>2 DEF Applying, SkipsWhole
        <5>2. Innermost.dir = "apply"
          BY <1>2, <3>2 DEF Applying
        <5>3. n \in Steps
          BY <1>1, <1>2, <5>1, <5>2 DEF Ignores
        <5> QED
          BY <1>2, <5>3
      <4>2. Whole(Steps, before, skipped, StepsLeft, work)
        BY <3>2, <4>1 DEF WorkInv, Reached
      <4>3. StepsLeft = StepsLeft' \cup {n} /\ skipped' = skipped \cup {n}
        BY <1>2, <1>3, <1>6, <4>1
      <4> QED
        BY <3>1, <4>2, <4>3 DEF Whole
    <3>3. ASSUME direction = "rollback"
          PROVE  RolledBack(Plain, skipped', StepsLeft', work')
      <4>1. RolledBack(Plain, skipped, StepsLeft, work)
        BY <1>1, <3>3 DEF WorkInv
      <4>2. StepsLeft \subseteq StepsLeft' \cup StepsBelow(Items, n)
        BY <1>2, <1>6
      <4> QED
        BY <1>3, <3>1, <4>1, <4>2 DEF RolledBack
    <3> QED
      BY <3>2, <3>3
  <2> QED
    BY <2>1, <2>2
<1>9. WorkInv'
  BY <1>1, <1>6, <1>7, <1>8 DEF WorkInv, Reached
<1> QED
  BY <1>6, <1>9

LEMMA PassProgress ==
  ASSUME TypeInv, ShapeInv, SavedInv, WorkInv, [Next]_vars, loop = "main",
         PassError
  PROVE  ShapeInv' /\ SavedInv' /\ WorkInv'
<1> DEFINE n == Innermost.node
           Known == UseTransactions /\ SavepointAt(Innermost) # {}
<1>1. /\ frames # <<>> /\ frames' = Front(frames) /\ error' # "none"
      /\ UNCHANGED <<direction, force, loop, before, todo, next_id, skipped>>
      /\ IF Known THEN \E i \in SavepointAt(Innermost) : RollbackTo(i)
         ELSE work' = work /\ savepoints' = savepoints
  BY DEF PassError, call, history
<1>2. /\ Innermost = frames[Len(frames)] /\ Len(frames) \in DOMAIN frames
      /\ Front(frames) # <<>> =>
           StepsBelow(Items, n) \cap ToSet(Top) = {}
      /\ AtStep(Items, frames) => StepsBelow(Items, n) = {n}
      /\ ~AtStep(Items, frames) =>
           Pending(Items, Innermost.todo) \subseteq StepsBelow(Items, n)
      /\ From(Len(frames))
           = StepsBelow(Items, n)
               \cup Outside(Items, frames, todo, Len(frames))
  BY <1>1, InnermostFacts
<1>3. \A j \in DOMAIN savepoints' :
        j \in DOMAIN savepoints /\ savepoints'[j] = savepoints[j]
  <2>1. CASE Known
    <3>1. PICK i \in SavepointAt(Innermost) : RollbackTo(i)
      BY <1>1, <2>1
    <3>2. savepoints \in Seq(Savepoint) /\ i \in DOMAIN savepoints
      BY DEF TypeInv, Typed, SavepointAt
    <3>3. savepoints' = SubSeq(savepoints, 1, i)
      BY <3>1 DEF RollbackTo
    <3> QED
      BY <3>2, <3>3
  <2>2. CASE ~Known
    BY <1>1, <2>2
  <2> QED
    BY <2>1, <2>2
<1>4. LeavesWrapper
  BY <1>1, <1>3 DEF LeavesWrapper
<1>5. /\ ShapeInv' /\ SavedInv' /\ skipped' \cap StepsLeft' = {}
      /\ StepsLeft' = Outside(Items, frames, todo, Len(frames))
      /\ StepsLeft = StepsLeft' \cup (IF AtStep(Items, frames) THEN {n}
                                      ELSE Pending(Items, Innermost.todo))
      /\ ~AtStep(Items, frames')
  BY <1>4, LeaveKeepsProgress
<1>6. Items' = Items /\ Plain' = Plain
  BY <1>1, SameCase, SameCall
<1>7. ASSUME direction = "rollback", frames' # <<>>
      PROVE  RolledBack(Plain, skipped, StepsLeft', work')
  <2>1. StepsBelow(Items, n) \cap Plain = {}
    BY <1>1, <1>2, <1>7 DEF Plain
  <2>2. RolledBack(Plain, skipped, StepsBelow(Items, n) \cup StepsLeft', work')
    <3>1. CASE Known
      <4>1. PICK j \in SavepointAt(Innermost) : RollbackTo(j)
        BY <1>1, <3>1
      <4>2. /\ j \in DOMAIN savepoints /\ work' = savepoints[j].contents
            /\ savepoints[j].id = frames[Len(frames)].sp
        BY <1>2, <4>1 DEF SavepointAt, RollbackTo
      <4>3. Reached(From(Len(frames)), work')
        BY <1>2, <3>1, <4>2 DEF SavedInv
      <4> QED
        BY <1>2, <1>5, <1>7, <4>3 DEF Reached
    <3>2. CASE ~Known
      <4>1. work' = work /\ RolledBack(Plain, skipped, StepsLeft, work)
        BY <1>1, <1>7, <3>2 DEF WorkInv
      <4>2. StepsLeft \subseteq StepsBelow(Items, n) \cup StepsLeft'
        BY <1>2, <1>5
      <4> QED
        BY <4>1, <4>2 DEF RolledBack
    <3> QED
      BY <3>1, <3>2
  <2> QED
    BY <2>1, <2>2 DEF RolledBack
<1>8. WorkInv'
  BY <1>1, <1>5, <1>6, <1>7 DEF WorkInv
<1> QED
  BY <1>5, <1>8

LEMMA FailProgress ==
  ASSUME TypeInv, ShapeInv, SavedInv, WorkInv, [Next]_vars, loop = "main",
         FailStatement
  PROVE  ShapeInv' /\ SavedInv' /\ WorkInv'
<1>1. /\ error = "none" /\ error' # "none" /\ frames # <<>>
      /\ UNCHANGED <<direction, force, loop, before, todo, next_id, skipped,
                     work, frames>>
      /\ savepoints' \in {savepoints, <<>>}
  BY DEF FailStatement, HasStatement, InStep, call
<1>2. \A j \in DOMAIN savepoints' :
        j \in DOMAIN savepoints /\ savepoints'[j] = savepoints[j]
  BY <1>1
<1>3. /\ Items' = Items /\ Top' = Top /\ Steps' = Steps /\ Plain' = Plain
      /\ (Applying' <=> Applying) /\ UseTransactions' = UseTransactions
  BY <1>1, SameCase, SameCall
<1>4. StepsLeft' = StepsLeft
  BY <1>1, <1>3 DEF StepsLeft
<1>5. ASSUME NEW i \in DOMAIN frames PROVE From(i)' = From(i)
  BY <1>1, <1>3 DEF From
<1>6. ShapeInv'
  BY <1>1, <1>2, <1>3 DEF ShapeInv, Numbered
<1>7. SavedInv'
  BY <1>1, <1>2, <1>3, <1>5 DEF SavedInv, Reached
<1>8. WorkInv'
  BY <1>1, <1>3, <1>4 DEF WorkInv, Reached
<1> QED
  BY <1>6, <1>7, <1>8

LEMMA LoopProgress ==
  ASSUME PhaseInv, ProgressInv, [Next]_vars, LoopStep
  PROVE  ProgressInv'
<1>1. loop' \in {"main", "undo"} /\ (loop' = loop \/ StartUndo)
  BY LoopStays
<1>2. EndInv'
  BY <1>1 DEF EndInv
<1>3. CASE loop' = "undo"
  BY <1>2, <1>3 DEF ProgressInv, ShapeInv, SavedInv, WorkInv
<1>4. CASE loop' = "main"
  <2>1. loop = "main" /\ ~StartUndo
    BY <1>1, <1>4 DEF StartUndo
  <2>2. TypeInv /\ ShapeInv /\ SavedInv /\ WorkInv
    BY DEF PhaseInv, ProgressInv
  <2>3. ShapeInv' /\ SavedInv' /\ WorkInv'
    BY <2>1, <2>2, OpenTopProgress, OpenItemProgress, ReturnProgress,
       IgnoreProgress, PassProgress, FailProgress DEF LoopStep
  <2> QED
    BY <1>2, <2>3 DEF ProgressInv
<1> QED
  BY <1>1, <1>3, <1>4

\* process_steps begins with everything before it.
LEMMA BeginProgress ==
  ASSUME PhaseInv, SavepointsKnown, ProgressInv, [Next]_vars,
         NEW d \in {"apply", "rollback"}, Begin(d)
  PROVE  ProgressInv'
<1>1. /\ loop = "locked" /\ loop' = "main" /\ direction' = d
      /\ todo' = (IF d = "apply" THEN Top ELSE Reverse(Top))
      /\ UNCHANGED <<work, stable, savepoints, next_id, frames, error, before,
                     skipped>>
  BY DEF Begin, database, history
<1>2. frames = <<>> /\ savepoints = <<>>
  BY <1>1 DEF PhaseInv, Phases, SavepointsKnown
<1>3. /\ Items' = Items /\ Top' = Top /\ Steps' = Steps
      /\ UseTransactions' = UseTransactions
  BY SameCase
<1>4. /\ Tree(Items, Top)
      /\ Steps = {x \in DOMAIN Items : Items[x] = <<>>}
  BY TreeOfCase DEF PhaseInv
<1>5. Top \in Seq(DOMAIN Items) /\ IsInjective(Top)
  BY <1>4 DEF Tree, IsTree
<1>6. /\ ToSet(todo') = ToSet(Top) /\ IsInjective(todo')
  BY <1>1, <1>5, ReverseKeeps
<1>7. StepsLeft' = Steps
  <2>1. Pending(Items, todo') = Pending(Items, Top)
    BY <1>6 DEF Pending
  <2>2. Outside(Items, frames, todo', 1) = Pending(Items, todo')
    BY DEF Outside
  <2>3. ~AtStep(Items, frames) /\ Len(frames) + 1 = 1
    BY <1>2 DEF AtStep
  <2>4. StepsLeft' = Outside(Items, frames, todo', 1)
    BY <1>1, <1>3, <2>3 DEF StepsLeft, Left
  <2> QED
    BY <1>4, <2>1, <2>2, <2>4, PendingTop
<1>8. skipped = {} /\ before = work \cap Steps
  BY <1>1 DEF ProgressInv, EndInv, InDatabase
<1>9. ShapeInv'
  <2>1. DOMAIN frames' = {} /\ DOMAIN savepoints' = {}
    BY <1>1, <1>2
  <2>2. Nested(Items, Top, frames', todo')
    BY <1>6, <2>1 DEF Nested
  <2> QED
    BY <1>1, <1>3, <2>1, <2>2 DEF ShapeInv, Numbered, Directed
<1>10. SavedInv'
  <2>1. DOMAIN frames' = {}
    BY <1>1, <1>2
  <2> QED
    BY <2>1 DEF SavedInv
<1>11. WorkInv'
  <2>1. Whole(Steps, before, skipped, StepsLeft', work)
    BY <1>7, <1>8 DEF Whole
  <2>2. ASSUME NEW R \in SUBSET Steps
        PROVE  RolledBack(R, skipped, StepsLeft', work)
    BY <1>7 DEF RolledBack
  <2>3. Plain' \subseteq Steps
    <3>1. Reversible \subseteq Steps
      BY StepsAssumption DEF Reversible, Steps, PhaseInv, TypeInv, CaseKnown
    <3>2. Reversible' = Reversible
      BY SameCase DEF Reversible
    <3> QED
      BY <1>3, <3>1, <3>2 DEF Plain
  <2>4. RolledBack(Plain', skipped, StepsLeft', work)
    BY <2>2, <2>3
  <2>5. skipped' \cap StepsLeft' = {}
    BY <1>1, <1>8
  <2> QED
    BY <1>1, <1>3, <2>1, <2>4, <2>5 DEF WorkInv, Reached
<1>12. EndInv'
  BY <1>1 DEF EndInv
<1> QED
  BY <1>9, <1>10, <1>11, <1>12 DEF ProgressInv

LEMMA InitProgress == Init => ProgressInv
BY DEF Init, ProgressInv, ShapeInv, SavedInv, WorkInv, EndInv

\* The rows of the lock and of the migration are no steps.
LEMMA RowsAside ==
  ASSUME TypeInv, NEW C, NEW D, Reached({}, C),
         \A x \in Steps : x \in C <=> x \in D
  PROVE  Reached({}, D)
<1>1. before \subseteq Steps /\ skipped \subseteq Steps
  BY DEF TypeInv, Typed
<1>2. Plain \subseteq Steps
  BY StepsAssumption DEF Plain, Reversible, Steps, TypeInv, CaseKnown
<1> QED
  BY <1>1, <1>2 DEF Reached, Whole, RolledBack

\* Every step keeps the invariant.
LEMMA StepProgress ==
  PhaseInv /\ SavepointsKnown /\ ProgressInv /\ [Next]_vars => ProgressInv'
<1> SUFFICES ASSUME PhaseInv, SavepointsKnown, ProgressInv, [Next]_vars
             PROVE  ProgressInv'
  OBVIOUS
<1>a. TypeInv /\ LockRow \notin Steps /\ TableRow \notin Steps
  BY CaseFacts DEF PhaseInv, TypeInv
<1>b. Steps' = Steps
  BY SameCase
<1>c. ASSUME loop' # "main", EndInv' PROVE ProgressInv'
  BY <1>c DEF ProgressInv, ShapeInv, SavedInv, WorkInv
<1>d. ASSUME NEW C, Reached({}, C),
             UNCHANGED <<direction, force, before, skipped>>
      PROVE  /\ Applying' => Whole(Steps', before', skipped', {}, C)
             /\ direction' = "rollback" => RolledBack(Plain', skipped', {}, C)
  <2>1. (Applying' <=> Applying) /\ Plain' = Plain
    BY <1>d, SameCall
  <2> QED
    BY <1>b, <1>d, <2>1 DEF Reached
<1>e. EndInv
  BY DEF ProgressInv
<1>1. CASE Lock
  BY <1>1, <1>a, <1>b, <1>c DEF Lock, EndInv, InDatabase
<1>2. ASSUME NEW d \in {"apply", "rollback"}, Begin(d)
      PROVE  ProgressInv'
  BY <1>2, BeginProgress
<1>3. CASE LoopStep
  BY <1>3, LoopProgress
<1>4. CASE Abort \/ FailCommit
  BY <1>4, <1>c DEF Abort, FailCommit, EndInv
<1>5. CASE Commit
  <2>1. /\ loop = "main" /\ error = "none" /\ frames = <<>> /\ todo = <<>>
        /\ loop' = "returned" /\ work' = work
        /\ UNCHANGED <<direction, force, before, skipped>>
    BY <1>5 DEF Commit, Completed, call, history
  <2>2. StepsLeft = {}
    <3>1. Pending(Items, todo) = {}
      BY <2>1 DEF Pending, ToSet
    <3>2. ~AtStep(Items, frames) /\ Len(frames) + 1 = 1
      BY <2>1 DEF AtStep
    <3>3. Outside(Items, frames, todo, 1) = Pending(Items, todo)
      BY DEF Outside
    <3> QED
      BY <3>1, <3>2, <3>3 DEF StepsLeft, Left
  <2>3. Reached({}, work)
    BY <2>1, <2>2 DEF ProgressInv, WorkInv
  <2> QED
    BY <1>c, <1>d, <2>1, <2>3 DEF EndInv, Reached
<1>6. CASE Record
  <2>1. /\ loop = "returned" /\ loop' = "leaving" /\ outcome' = direction
        /\ stable' = IF direction = "apply" THEN work \cup {TableRow}
                     ELSE work \ {TableRow}
        /\ work' = stable'
        /\ UNCHANGED <<direction, force, before, skipped>>
    BY <1>6 DEF Record, call, history
  <2>2. Reached({}, work)
    BY <1>e, <2>1 DEF EndInv
  <2>3. \A x \in Steps : x \in work <=> x \in stable'
    BY <1>a, <2>1
  <2>4. Reached({}, stable')
    BY <1>a, <2>2, <2>3, RowsAside
  <2> QED
    BY <1>c, <1>d, <2>1, <2>4 DEF EndInv, Reached
<1>7. CASE FailLog \/ FailRecord
  <2>1. loop' = "leaving" /\ outcome' = "unrecorded"
    BY <1>7 DEF FailLog, FailRecord, PhaseInv, Outcomes
  <2> QED
    BY <1>c, <2>1 DEF EndInv
<1>8. CASE Release \/ FailRelease \/ Crash \/ BreakLock
  <2>1. /\ loop' = "idle" /\ UNCHANGED <<direction, force, before, skipped>>
    BY <1>8 DEF Release, FailRelease, Crash, BreakLock, call, control, history
  <2> SUFFICES ASSUME outcome' \in {"apply", "rollback"}
               PROVE  outcome' = direction /\ Reached({}, stable')
    BY <1>c, <1>d, <2>1 DEF EndInv, Reached
  <2>2. outcome' = outcome /\ loop \in {"leaving", "idle"}
    BY <1>8 DEF Release, FailRelease, Crash, BreakLock, control, PhaseInv,
       Outcomes
  <2>3. outcome = direction /\ Reached({}, stable)
    BY <1>e, <2>2 DEF EndInv
  <2>4. \A x \in Steps : x \in stable <=> x \in stable'
    <3>1. loop = "leaving" => work = stable
      BY <1>e, <2>2 DEF EndInv
    <3>2. CASE Release
      BY <1>a, <3>1, <3>2 DEF Release, Close
    <3>3. CASE FailRelease
      BY <1>a, <3>1, <3>3 DEF FailRelease, Close
    <3>4. CASE Crash
      BY <3>4 DEF Crash, Close
    <3>5. CASE BreakLock
      BY <1>a, <3>5 DEF BreakLock
    <3> QED
      BY <1>8, <3>2, <3>3, <3>4, <3>5
  <2> QED
    BY <1>a, <2>2, <2>3, <2>4, RowsAside
<1>9. CASE UNCHANGED vars
  <2>1. UNCHANGED <<migration, driver, direction, force, work, stable,
                    savepoints, next_id, loop, todo, frames, error, outcome,
                    before, skipped>>
    BY <1>9 DEF vars, call, database, control, history
  <2>2. /\ Items' = Items /\ Top' = Top /\ UseTransactions' = UseTransactions
        /\ (Applying' <=> Applying) /\ Plain' = Plain
    BY <2>1, SameCase, SameCall
  <2>3. ShapeInv'
    BY <2>1, <2>2 DEF ProgressInv, ShapeInv
  <2>4. ASSUME NEW i PROVE From(i)' = From(i)
    BY <2>1, <2>2 DEF From
  <2>5. SavedInv'
    BY <1>b, <2>1, <2>2, <2>4 DEF ProgressInv, SavedInv, Reached
  <2>6. WorkInv'
    BY <1>b, <2>1, <2>2 DEF ProgressInv, WorkInv, Reached, StepsLeft
  <2>7. EndInv'
    BY <1>b, <1>e, <2>1, <2>2 DEF EndInv, Reached, InDatabase
  <2> QED
    BY <2>3, <2>5, <2>6, <2>7 DEF ProgressInv
<1>10. ASSUME NEW d \in {"apply", "rollback"}, FailBegin(d)
       PROVE  ProgressInv'
  BY <1>10, <1>c DEF FailBegin, EndInv
<1> QED
  BY <1>1, <1>2, <1>3, <1>4, <1>5, <1>6, <1>7, <1>8, <1>9, <1>10
     DEF Next, LoopStep

\* After a migration is recorded just the steps are missing whose error, or
\* that of a group around them, was ignored, in every tree of groups.
THEOREM OnlySkippedAreMissingHolds == Spec => []OnlySkippedAreMissing
<1>1. TypeInv /\ EndInv => OnlySkippedAreMissing
  <2> SUFFICES ASSUME TypeInv, EndInv, Done("apply"), SkipsWhole
               PROVE  InDatabase = before \cup (Steps \ skipped)
    BY DEF OnlySkippedAreMissing
  <2>1. Whole(Steps, before, skipped, {}, stable)
    BY DEF Done, EndInv, Reached, Applying
  <2>2. before \subseteq Steps
    BY DEF TypeInv, Typed
  <2> QED
    BY <2>1, <2>2 DEF Whole, InDatabase
<1> QED
  BY InitPhases, StepPhases, InitTrace, StepTrace, InitSavepoints,
     StepSavepoints, InitProgress, StepProgress, <1>1, PTL
     DEF Spec, PhaseInv, ProgressInv

\* After a rollback is recorded no step outside of groups that has rollback
\* code is left, unless its error was ignored.
THEOREM RollbackUndoesTopLevelHolds == Spec => []RollbackUndoesTopLevel
<1>1. EndInv => RollbackUndoesTopLevel
  <2> SUFFICES ASSUME EndInv, Done("rollback")
               PROVE  InDatabase \cap Reversible \cap ToSet(Top)
                        \subseteq skipped
    BY DEF RollbackUndoesTopLevel
  <2>1. RolledBack(Plain, skipped, {}, stable)
    BY DEF Done, EndInv, Reached
  <2> QED
    BY <2>1 DEF RolledBack, InDatabase, Plain
<1> QED
  BY InitPhases, StepPhases, InitTrace, StepTrace, InitSavepoints,
     StepSavepoints, InitProgress, StepProgress, <1>1, PTL
     DEF Spec, ProgressInv

-----------------------------------------------------------------------------
(* Without a transaction the undo loop leaves no trace.                    *)

\* Outside of transactions nothing but force lets an error through that could
\* be ignored, and PostgreSQL is in autocommit mode.
ForcedInv ==
  ~UseTransactions =>
    /\ loop \in {"main", "undo"} /\ driver = "postgresql" => autocommit
    /\ force =>
         /\ loop # "undo"
         /\ loop = "main" => /\ error = "database" => frames # <<>>
                             /\ error = "other" => not_undone
         /\ loop \in {"leaving", "idle"} /\ outcome = "failed" => not_undone

\* Steps without groups that all have an opposite.
Flat == ~UseTransactions /\ ~force /\ Undoable

\* Contents that differ from what was by the steps of done.
Changed(d, was, done, contents) ==
  IF d = "apply" THEN contents = was \cup done /\ was \cap done = {}
  ELSE contents = was \ done /\ done \subseteq was

\* The steps that the connection sees.
InWork == work \cap Steps

\* What the undo loop has not taken back.
InFrames == {frames[i].node : i \in DOMAIN frames}
ToUndo == ToSet(todo) \cup InFrames

\* One wrapper is open at a time, in the direction of the loop.
Shallow ==
  loop \in {"main", "undo"} =>
    Len(frames) <= 1 /\ \A i \in DOMAIN frames : frames[i].dir = LoopDirection

\* The main loop has applied, or rolled back, what is in executed_steps.
MainInv ==
  loop = "main" =>
    /\ error = "other" => not_undone
    /\ IsInjective(executed)
    /\ Changed(direction, before, ToSet(executed), InWork)

\* The undo loop has still to undo what differs.
BackInv ==
  loop = "undo" /\ ~not_undone =>
    /\ error = "none"
    /\ IsInjective(todo)
    /\ InFrames \cap ToSet(todo) = {}
    /\ Changed(direction, before, ToUndo, InWork)

\* MySQL has the statements wait for the next commit.
DurableInv ==
  loop \in {"main", "undo", "leaving"} /\ driver # "mysql"
    /\ outcome \in {"none", "failed"} => InDatabase = InWork

\* A call that has failed has left nothing.
FailedInv ==
  outcome = "failed" /\ ~not_undone =>
    /\ loop = "leaving" => InWork = before
    /\ loop = "idle" /\ ~LosesUndo => InDatabase = before

LoopInv == Shallow /\ MainInv /\ BackInv /\ DurableInv

UndoInv == ForcedInv /\ (Flat => LoopInv /\ FailedInv)

LEMMA SameFlat ==
  ASSUME [Next]_vars, direction' = direction, force' = force
  PROVE  (Flat' <=> Flat) /\ UseTransactions' = UseTransactions
<1>1. migration' = migration
  BY SameCase
<1> QED
  BY <1>1, SameCase DEF Flat, Undoable, UseTransactions, Nodes, Reversible

\* Every node is then a step whose statement has to change something.
LEMMA FlatNodes ==
  ASSUME TypeInv, Flat
  PROVE  /\ Nodes = Steps /\ Nodes \subseteq Reversible
         /\ \A n \in Nodes : n \notin migration.idempotent
         /\ \A n \in Nodes : Items[n] = <<>>
         /\ \A n \in Nodes : migration.ignore[n] \notin {direction, "all"}
<1>1. Nodes \subseteq Reversible \ migration.idempotent
      /\ \A n \in Nodes : migration.ignore[n] \notin {direction, "all"}
  BY DEF Flat, Undoable
<1>2. Reversible \subseteq Steps
  BY StepsAssumption DEF Reversible, Steps, TypeInv, CaseKnown
<1>3. Steps \subseteq Nodes
  BY DEF Steps, StepsOf, Nodes
<1>4. \A n \in Steps : Items[n] = <<>>
  BY DEF Steps, StepsOf, Items
<1> QED
  BY <1>1, <1>2, <1>3, <1>4

LEMMA InitUndo == Init => UndoInv
BY DEF Init, UndoInv, ForcedInv, LoopInv, Shallow, MainInv, BackInv,
   DurableInv, FailedInv

\* Every step keeps ForcedInv, and then the rest of UndoInv.
LEMMA StepForced ==
  PhaseInv /\ ForcedInv /\ [Next]_vars => ForcedInv'
<1> SUFFICES ASSUME PhaseInv, ForcedInv, [Next]_vars, ~UseTransactions
             PROVE  ForcedInv'
  BY SameCase DEF ForcedInv
<1>a. UseTransactions' = UseTransactions /\ driver' = driver
  BY SameCase
<1>1. CASE Lock
  BY <1>1, <1>a DEF Lock, ForcedInv, call
<1>2. ASSUME NEW d \in {"apply", "rollback"}, Begin(d)
      PROVE  ForcedInv'
  BY <1>2, <1>a DEF Begin, ForcedInv, PhaseInv, Phases
<1>3. CASE OpenTop \/ OpenItem
  <2>1. /\ error = "none" /\ error' = error /\ loop' = loop
        /\ UNCHANGED <<autocommit, force, outcome, not_undone>>
    BY <1>3 DEF OpenTop, OpenItem, Open, call, connection, history
  <2> QED
    BY <1>a, <2>1 DEF ForcedInv
<1>4. CASE NoStatement \/ Statement \/ EndGroup
  <2>1. /\ error = "none" /\ error' = error /\ loop' = loop
        /\ UNCHANGED <<autocommit, force, outcome, not_undone>>
    BY <1>4 DEF NoStatement, Statement, EndGroup, call, connection, history
  <2> QED
    BY <1>a, <2>1 DEF ForcedInv
<1>5. CASE FailStatement
  <2>1. /\ loop' = loop /\ frames # <<>> /\ frames' = frames
        /\ UNCHANGED <<autocommit, force, outcome>>
        /\ error' = "other" => not_undone' = TRUE
        /\ loop # "undo" => loop \in {"main"}
    <3>1. loop \in {"main", "undo"}
      BY <1>5, LoopStays DEF LoopStep
    <3> QED
      BY <1>5, <3>1
         DEF FailStatement, HasStatement, InStep, call, connection
  <2>2. loop \in {"main", "undo"}
    BY <1>5, LoopStays DEF LoopStep
  <2> QED
    BY <1>a, <2>1, <2>2 DEF ForcedInv
<1>6. CASE IgnoreError
  <2>1. /\ error' = "none" /\ loop' = loop /\ loop \in {"main", "undo"}
        /\ UNCHANGED <<autocommit, force, outcome>>
    BY <1>6, LoopStays DEF LoopStep, IgnoreError, call, connection
  <2> QED
    BY <1>a, <2>1 DEF ForcedInv
<1>7. CASE PassError
  <2>1. /\ error' = error /\ loop' = loop /\ loop \in {"main", "undo"}
        /\ UNCHANGED <<autocommit, force, outcome, not_undone>>
        /\ error = "database" => ~Ignores(Innermost)
    BY <1>7, LoopStays DEF LoopStep, PassError, call, connection, history
  <2>2. error = "database" => ~(force /\ loop = "main")
    BY <2>1 DEF Ignores
  <2> QED
    BY <1>a, <2>1, <2>2 DEF ForcedInv
<1>8. CASE StartUndo
  <2>1. /\ error = "database" /\ frames = <<>> /\ loop = "main"
        /\ loop' = "undo" /\ UNCHANGED <<autocommit, force>>
    BY <1>8 DEF StartUndo, call, connection
  <2> QED
    BY <1>a, <2>1 DEF ForcedInv
<1>9. CASE Abort
  <2>1. /\ frames = <<>> /\ loop' = "leaving"
        /\ UNCHANGED <<force, not_undone>>
        /\ loop = "main" => error = "other"
        /\ loop \in {"main", "undo"}
    BY <1>9 DEF Abort, Ends, call, history
  <2> QED
    BY <1>a, <2>1 DEF ForcedInv
<1>10. CASE Commit \/ FailCommit \/ Record \/ FailLog \/ FailRecord
  <2>1. /\ loop' \in {"returned", "leaving"} /\ outcome' # "failed"
    BY <1>10 DEF Commit, FailCommit, Record, FailLog, FailRecord, PhaseInv,
       Outcomes, TypeInv, Typed
  <2> QED
    BY <1>a, <2>1 DEF ForcedInv
<1>11. CASE Release \/ FailRelease \/ Crash \/ BreakLock
  <2>1. /\ loop' = "idle" /\ UNCHANGED <<force, not_undone>>
        /\ outcome' = "failed" =>
             outcome = "failed" /\ loop \in {"leaving", "idle"}
    BY <1>11 DEF Release, FailRelease, Crash, BreakLock, PhaseInv, Outcomes,
       call, control, history
  <2> QED
    BY <1>a, <2>1 DEF ForcedInv
<1>12. CASE UNCHANGED vars
  BY <1>12, <1>a DEF vars, call, connection, control, history, ForcedInv
<1>13. ASSUME NEW d \in {"apply", "rollback"}
       PROVE  ~FailBegin(d)
  BY DEF FailBegin
<1> QED
  BY <1>1, <1>2, <1>3, <1>4, <1>5, <1>6, <1>7, <1>8, <1>9, <1>10, <1>11,
     <1>12, <1>13 DEF Next

\* A step more, and a step taken back.
LEMMA OneMore ==
  ASSUME NEW d \in {"apply", "rollback"}, NEW was, NEW done, NEW contents,
         NEW n, Changed(d, was, done, contents),
         ~((d = "apply") = (n \in contents))
  PROVE  /\ n \notin done
         /\ Changed(d, was, done \cup {n},
                    IF d = "apply" THEN contents \cup {n} ELSE contents \ {n})
<1>1. CASE d = "apply"
  BY <1>1 DEF Changed
<1>2. CASE d = "rollback"
  BY <1>2 DEF Changed
<1> QED
  BY <1>1, <1>2

LEMMA OneLess ==
  ASSUME NEW d \in {"apply", "rollback"}, NEW was, NEW done, NEW contents,
         NEW n \in done, Changed(d, was, done, contents)
  PROVE  Changed(d, was, done \ {n},
                 IF Opposite(d) = "apply" THEN contents \cup {n}
                 ELSE contents \ {n})
<1>1. CASE d = "apply"
  BY <1>1 DEF Changed, Opposite
<1>2. CASE d = "rollback"
  BY <1>2 DEF Changed, Opposite
<1> QED
  BY <1>1, <1>2

\* There is one wrapper at most.
LEMMA OneFrame ==
  ASSUME TypeInv, Shallow, loop \in {"main", "undo"}, frames # <<>>
  PROVE  /\ Len(frames) = 1 /\ Len(Front(frames)) = 0
         /\ Front(frames) \in Seq(Frame)
         /\ Innermost.node \in Nodes /\ Innermost.dir = LoopDirection
         /\ InFrames = {Innermost.node}
<1>1. frames \in Seq(Frame)
  BY DEF TypeInv, Typed
<1>2. Len(frames) <= 1 /\ Len(frames) \in Nat /\ Len(frames) # 0
  BY <1>1 DEF Shallow
<1>3. Len(frames) = 1 /\ DOMAIN frames = {1}
  BY <1>1, <1>2
<1>4. /\ Innermost = frames[1] /\ Innermost \in Frame
      /\ Front(frames) \in Seq(Frame) /\ Len(Front(frames)) = 0
  <2>1. /\ Last(frames) \in Frame /\ Last(frames) = frames[Len(frames)]
        /\ Front(frames) \in Seq(Frame)
        /\ Len(Front(frames)) = Len(frames) - 1
    BY <1>1, EndsOf
  <2> QED
    BY <1>3, <2>1 DEF Innermost
<1>5. Innermost.dir = LoopDirection
  BY <1>3, <1>4 DEF Shallow
<1>6. InFrames = {Innermost.node}
  BY <1>3, <1>4 DEF InFrames
<1>7. Innermost.node \in Nodes
  BY <1>4 DEF Frame
<1> QED
  BY <1>3, <1>4, <1>5, <1>6, <1>7

LEMMA NoFrames ==
  ASSUME NEW fs \in Seq(Frame), Len(fs) = 0, frames' = fs
  PROVE  InFrames' = {} /\ frames' = <<>> /\ DOMAIN frames' = {}
         /\ Len(frames') <= 1
<1>1. DOMAIN fs = {} /\ fs = <<>>
  OBVIOUS
<1> QED
  BY <1>1 DEF InFrames

\* executed_steps gets one more element.
LEMMA AppendKeeps ==
  ASSUME NEW S, NEW s \in Seq(S), NEW n \in S
  PROVE  /\ ToSet(Append(s, n)) = ToSet(s) \cup {n}
         /\ IsInjective(s) /\ n \notin ToSet(s) => IsInjective(Append(s, n))
<1>1. /\ DOMAIN Append(s, n) = 1..(Len(s) + 1) /\ DOMAIN s = 1..Len(s)
      /\ Len(s) \in Nat
      /\ \A i \in 1..Len(s) : Append(s, n)[i] = s[i]
      /\ Append(s, n)[Len(s) + 1] = n
  OBVIOUS
<1>2. \A x : x \in ToSet(s) <=> \E i \in 1..Len(s) : s[i] = x
  BY <1>1 DEF ToSet
<1>3. \A x : x \in ToSet(Append(s, n))
               <=> \E i \in 1..(Len(s) + 1) : Append(s, n)[i] = x
  BY <1>1 DEF ToSet
<1>4. \A i : i \in 1..(Len(s) + 1) <=> i \in 1..Len(s) \/ i = Len(s) + 1
  BY <1>1
<1>5. ToSet(Append(s, n)) = ToSet(s) \cup {n}
  BY <1>1, <1>2, <1>3, <1>4
<1>6. ASSUME IsInjective(s), n \notin ToSet(s),
             NEW i \in DOMAIN Append(s, n), NEW j \in DOMAIN Append(s, n),
             Append(s, n)[i] = Append(s, n)[j]
      PROVE  i = j
  <2>1. \A k, l \in DOMAIN s : s[k] = s[l] => k = l
    BY <1>6 DEF IsInjective
  <2>2. \A k \in 1..Len(s) : s[k] # n
    BY <1>2, <1>6
  <2> QED
    BY <1>1, <1>4, <1>6, <2>1, <2>2
<1> QED
  BY <1>5, <1>6 DEF IsInjective

\* What no action of the loops changes.
LEMMA LoopFrame ==
  ASSUME PhaseInv, LoopStep, [Next]_vars
  PROVE  /\ UNCHANGED <<direction, force, before, outcome, driver, autocommit,
                        in_transaction>>
         /\ Steps' = Steps /\ loop \in {"main", "undo"}
         /\ outcome = "none" /\ UseTransactions' = UseTransactions
         /\ ~StartUndo => loop' = loop /\ LoopDirection' = LoopDirection
<1>1. UNCHANGED <<direction, force, before, outcome, driver, autocommit,
                  in_transaction>>
  BY LoopStays DEF call, connection
<1>2. outcome = "none"
  BY LoopStays DEF PhaseInv, Outcomes
<1>3. ~StartUndo => loop' = loop /\ LoopDirection' = LoopDirection
  BY <1>1, LoopStays DEF LoopDirection, Opposite
<1> QED
  BY <1>1, <1>2, <1>3, LoopStays, SameCase

\* The actions of the loops, one by one.
LEMMA OpenUndo ==
  ASSUME PhaseInv, Flat, LoopInv, [Next]_vars, OpenTop
  PROVE  LoopInv'
<1>1. /\ UNCHANGED <<direction, before, outcome, driver>>
      /\ Steps' = Steps /\ loop \in {"main", "undo"} /\ loop' = loop
      /\ LoopDirection' = LoopDirection
  <2>1. LoopStep /\ ~StartUndo
    BY DEF LoopStep, OpenTop, StartUndo
  <2> QED
    BY <2>1, LoopFrame
<1>2. /\ UNCHANGED <<work, stable, executed, error, not_undone>>
      /\ todo' = Tail(todo) /\ todo # <<>> /\ Len(frames) = 0
  BY DEF OpenTop, Open, history
<1>3. /\ todo \in Seq(Nodes)
      /\ ToSet(todo) = {Head(todo)} \cup ToSet(todo')
      /\ IsInjective(todo) =>
           IsInjective(todo') /\ Head(todo) \notin ToSet(todo')
  <2>1. todo \in Seq(Nodes)
    BY DEF PhaseInv, TypeInv, Typed
  <2> QED
    BY <1>2, <2>1, HeadAndTail
<1>4. /\ DOMAIN frames' = {1} /\ Len(frames') = 1
      /\ frames'[1].node = Head(todo) /\ frames'[1].dir = LoopDirection
  BY DEF OpenTop, Open
<1>5. InFrames' = {Head(todo)} /\ InFrames = {}
  BY <1>2, <1>4 DEF InFrames, OpenTop
<1>6. ToUndo' = ToUndo
  BY <1>3, <1>5 DEF ToUndo
<1>7. InWork' = InWork /\ InDatabase' = InDatabase
  BY <1>1, <1>2 DEF InWork, InDatabase
<1>8. Shallow'
  BY <1>1, <1>4 DEF Shallow
<1>9. MainInv'
  BY <1>1, <1>2, <1>7 DEF MainInv, LoopInv
<1>10. BackInv'
  <2> SUFFICES ASSUME loop' = "undo", ~not_undone'
               PROVE  /\ error' = "none" /\ IsInjective(todo')
                      /\ InFrames' \cap ToSet(todo') = {}
                      /\ Changed(direction', before', ToUndo', InWork')
    BY DEF BackInv
  <2>1. /\ error = "none" /\ IsInjective(todo)
        /\ Changed(direction, before, ToUndo, InWork)
    BY <1>1, <1>2 DEF BackInv, LoopInv
  <2> QED
    BY <1>1, <1>2, <1>3, <1>5, <1>6, <1>7, <2>1
<1>11. DurableInv'
  BY <1>1, <1>7 DEF DurableInv, LoopInv
<1> QED
  BY <1>8, <1>9, <1>10, <1>11 DEF LoopInv

\* No other database leaves a statement to a later commit.
LEMMA StatementDurable ==
  ASSUME PhaseInv, ForcedInv, Flat, Statement, driver # "mysql"
  PROVE  stable' = work'
<1>1. loop \in {"main", "undo"}
  BY LoopStays DEF LoopStep
<1>2. ~in_transaction
  BY <1>1 DEF PhaseInv, Phases, Flat
<1>3. driver = "sqlite" \/ autocommit
  BY <1>1 DEF PhaseInv, TypeInv, Typed, ForcedInv, Flat
<1>4. DurableAtOnce
  BY <1>2, <1>3 DEF DurableAtOnce
<1> QED
  BY <1>4 DEF Statement

LEMMA StatementUndo ==
  ASSUME PhaseInv, ForcedInv, Flat, LoopInv, [Next]_vars, Statement
  PROVE  LoopInv'
<1> DEFINE n == Innermost.node
<1>1. /\ UNCHANGED <<direction, before, outcome, driver>>
      /\ Steps' = Steps /\ loop \in {"main", "undo"} /\ loop' = loop
      /\ LoopDirection' = LoopDirection
  <2>1. LoopStep /\ ~StartUndo
    BY DEF LoopStep, Statement, StartUndo
  <2> QED
    BY <2>1, LoopFrame
<1>2. /\ error = "none" /\ UNCHANGED <<todo, error, not_undone>>
      /\ frames # <<>> /\ Return
  BY DEF Statement, history, HasStatement, InStep
<1>3. /\ Len(frames) = 1 /\ Len(Front(frames)) = 0
      /\ Front(frames) \in Seq(Frame)
      /\ n \in Nodes /\ Innermost.dir = LoopDirection
      /\ InFrames = {n}
  BY <1>1, <1>2, OneFrame DEF PhaseInv, LoopInv
<1>4. n \in Steps /\ n \notin migration.idempotent
  BY <1>3, FlatNodes DEF PhaseInv
<1>5. /\ ~((LoopDirection = "apply") = (n \in work))
      /\ work' = IF LoopDirection = "apply" THEN work \cup {n} ELSE work \ {n}
  BY <1>3, <1>4 DEF Statement
<1>6. /\ ~((LoopDirection = "apply") = (n \in InWork))
      /\ InWork' = IF LoopDirection = "apply" THEN InWork \cup {n}
                   ELSE InWork \ {n}
  BY <1>1, <1>4, <1>5 DEF InWork
<1>7. /\ InFrames' = {} /\ DOMAIN frames' = {} /\ Len(frames') <= 1
  BY <1>2, <1>3, NoFrames DEF Return
<1>8. executed' = IF loop = "main" THEN Append(executed, n) ELSE executed
  BY <1>2, <1>3 DEF Return
<1>9. direction \in {"apply", "rollback"} /\ executed \in Seq(Nodes)
  BY DEF PhaseInv, TypeInv, Typed
<1> HIDE DEF n
<1>10. Shallow'
  BY <1>7 DEF Shallow
<1>11. MainInv'
  <2> SUFFICES ASSUME loop = "main"
               PROVE  MainInv'
    BY <1>1 DEF MainInv
  <2>1. /\ LoopDirection = direction
        /\ executed' = Append(executed, n)
    BY <1>8 DEF LoopDirection
  <2>2. /\ IsInjective(executed)
        /\ Changed(direction, before, ToSet(executed), InWork)
    BY DEF MainInv, LoopInv
  <2>3. /\ n \notin ToSet(executed)
        /\ Changed(direction, before, ToSet(executed) \cup {n}, InWork')
    BY <1>6, <1>9, <2>1, <2>2, OneMore
  <2>4. /\ ToSet(executed') = ToSet(executed) \cup {n}
        /\ IsInjective(executed')
    BY <1>3, <1>9, <2>1, <2>2, <2>3, AppendKeeps
  <2> QED
    BY <1>1, <1>2, <2>3, <2>4 DEF MainInv
<1>12. BackInv'
  <2> SUFFICES ASSUME loop = "undo", ~not_undone
               PROVE  BackInv'
    BY <1>1, <1>2 DEF BackInv
  <2>1. LoopDirection = Opposite(direction)
    BY DEF LoopDirection
  <2>2. /\ IsInjective(todo) /\ InFrames \cap ToSet(todo) = {}
        /\ Changed(direction, before, ToUndo, InWork)
    BY DEF BackInv, LoopInv
  <2>3. n \in ToUndo /\ ToUndo' = ToUndo \ {n}
    BY <1>2, <1>3, <1>7, <2>2 DEF ToUndo
  <2>4. Changed(direction, before, ToUndo', InWork')
    BY <1>6, <1>9, <2>1, <2>2, <2>3, OneLess
  <2> QED
    BY <1>1, <1>2, <1>7, <2>2, <2>4 DEF BackInv
<1>13. DurableInv'
  BY <1>1, StatementDurable DEF DurableInv, InWork, InDatabase
<1> QED
  BY <1>10, <1>11, <1>12, <1>13 DEF LoopInv

LEMMA FailUndo ==
  ASSUME PhaseInv, Flat, LoopInv, [Next]_vars, FailStatement
  PROVE  LoopInv'
<1>1. /\ UNCHANGED <<direction, before, outcome, driver>>
      /\ Steps' = Steps /\ loop \in {"main", "undo"} /\ loop' = loop
      /\ LoopDirection' = LoopDirection
  <2>1. LoopStep /\ ~StartUndo
    BY DEF LoopStep, FailStatement, StartUndo
  <2> QED
    BY <2>1, LoopFrame
<1>2. /\ UNCHANGED <<work, executed, frames>>
      /\ loop = "undo" => not_undone' = TRUE
      /\ error' = "other" => not_undone' = TRUE
      /\ driver # "mysql" => stable' = stable
  BY DEF FailStatement, ImplicitCommit, has_transactional_ddl, Flat
<1>3. Shallow'
  BY <1>1, <1>2 DEF Shallow, LoopInv
<1>4. MainInv'
  BY <1>1, <1>2 DEF MainInv, LoopInv, InWork
<1>5. BackInv'
  BY <1>1, <1>2 DEF BackInv
<1>6. DurableInv'
  BY <1>1, <1>2 DEF DurableInv, LoopInv, InWork, InDatabase
<1> QED
  BY <1>3, <1>4, <1>5, <1>6 DEF LoopInv

\* An error leaves its wrapper: one that ignores it belongs to the undo loop.
LEMMA ErrorUndo ==
  ASSUME PhaseInv, Flat, LoopInv, [Next]_vars, IgnoreError \/ PassError
  PROVE  LoopInv'
<1>1. /\ UNCHANGED <<direction, before, outcome, driver>>
      /\ Steps' = Steps /\ loop \in {"main", "undo"} /\ loop' = loop
      /\ LoopDirection' = LoopDirection
  <2>1. IgnoreError => LoopStep /\ ~StartUndo
    BY DEF LoopStep, IgnoreError, StartUndo
  <2>2. PassError => LoopStep /\ ~StartUndo
    BY DEF LoopStep, PassError, StartUndo
  <2> QED
    BY <2>1, <2>2, LoopFrame
<1>2. /\ error # "none" /\ frames # <<>> /\ frames' = Front(frames)
      /\ UNCHANGED <<work, stable, not_undone>>
  BY DEF IgnoreError, PassError, Return, Flat, history
<1>3. /\ Len(Front(frames)) = 0 /\ Front(frames) \in Seq(Frame)
      /\ Innermost.node \in Nodes /\ Innermost.dir = LoopDirection
  BY <1>1, <1>2, OneFrame DEF PhaseInv, LoopInv
<1>4. DOMAIN frames' = {} /\ Len(frames') <= 1
  BY <1>2, <1>3, NoFrames
<1>5. ASSUME loop = "main" PROVE ~IgnoreError
  <2>1. Innermost.dir = direction
    BY <1>3, <1>5 DEF LoopDirection
  <2>2. migration.ignore[Innermost.node] \notin {direction, "all"}
    BY <1>3, FlatNodes DEF PhaseInv
  <2>3. ~force
    BY DEF Flat
  <2> QED
    BY <2>1, <2>2, <2>3 DEF IgnoreError, Ignores
<1>6. ASSUME loop = "main" PROVE UNCHANGED <<executed, error>>
  BY <1>5, <1>6 DEF PassError, Flat
<1>7. loop = "undo" => not_undone
  BY <1>2 DEF BackInv, LoopInv
<1>8. Shallow'
  BY <1>4 DEF Shallow
<1>9. MainInv'
  BY <1>1, <1>2, <1>6 DEF MainInv, LoopInv, InWork
<1>10. BackInv'
  BY <1>1, <1>2, <1>7 DEF BackInv
<1>11. DurableInv'
  BY <1>1, <1>2 DEF DurableInv, LoopInv, InWork, InDatabase
<1> QED
  BY <1>8, <1>9, <1>10, <1>11 DEF LoopInv

\* The undo loop has before it all that was executed.
LEMMA StartsUndo ==
  ASSUME PhaseInv, Flat, LoopInv, [Next]_vars, StartUndo
  PROVE  LoopInv'
<1>1. /\ UNCHANGED <<direction, before, outcome, driver>>
      /\ Steps' = Steps
  BY LoopFrame DEF LoopStep
<1>2. /\ loop = "main" /\ loop' = "undo" /\ error' = "none"
      /\ frames = <<>> /\ frames' = frames
      /\ todo' = Reverse(executed)
      /\ UNCHANGED <<work, stable>>
  BY DEF StartUndo, database
<1>3. /\ IsInjective(executed)
      /\ Changed(direction, before, ToSet(executed), InWork)
  BY <1>2 DEF MainInv, LoopInv
<1>4. ToSet(todo') = ToSet(executed) /\ IsInjective(todo')
  <2>1. executed \in Seq(Nodes)
    BY DEF PhaseInv, TypeInv, Typed
  <2> QED
    BY <1>2, <1>3, <2>1, ReverseKeeps
<1>5. /\ InFrames' = {} /\ DOMAIN frames' = {} /\ Len(frames') <= 1
  BY <1>2 DEF InFrames
<1>6. Changed(direction', before', ToUndo', InWork')
  BY <1>1, <1>2, <1>3, <1>4, <1>5 DEF ToUndo, InWork
<1>7. Shallow'
  BY <1>5 DEF Shallow
<1>8. MainInv'
  BY <1>2 DEF MainInv
<1>9. BackInv'
  BY <1>2, <1>4, <1>5, <1>6 DEF BackInv
<1>10. DurableInv'
  BY <1>1, <1>2 DEF DurableInv, LoopInv, InWork, InDatabase
<1> QED
  BY <1>7, <1>8, <1>9, <1>10 DEF LoopInv

\* There are no groups, and no step without rollback code.
LEMMA FlatSteps ==
  ASSUME PhaseInv, Flat, LoopInv, LoopStep
  PROVE  ~OpenItem /\ ~EndGroup /\ ~NoStatement
<1>1. loop \in {"main", "undo"}
  BY LoopStays
<1>2. ASSUME frames # <<>>
      PROVE  Items[Innermost.node] = <<>> /\ Innermost.node \in Reversible
  BY <1>1, <1>2, OneFrame, FlatNodes DEF PhaseInv, LoopInv
<1> QED
  BY <1>2 DEF OpenItem, EndGroup, NoStatement, InGroup, InStep

LEMMA LoopUndo ==
  ASSUME PhaseInv, ForcedInv, Flat, LoopInv, [Next]_vars, LoopStep
  PROVE  LoopInv' /\ FailedInv'
<1>1. LoopInv'
  BY FlatSteps, OpenUndo, StatementUndo, FailUndo, ErrorUndo, StartsUndo
     DEF LoopStep
<1>2. outcome' = "none"
  BY LoopFrame
<1>3. FailedInv'
  BY <1>2 DEF FailedInv
<1> QED
  BY <1>1, <1>3

\* The actions around the loops.
LEMMA BeginUndo ==
  ASSUME PhaseInv, EndInv, [Next]_vars,
         NEW d \in {"apply", "rollback"}, Begin(d)
  PROVE  LoopInv' /\ FailedInv'
<1>1. /\ loop = "locked" /\ loop' = "main" /\ direction' = d
      /\ executed' = <<>>
      /\ UNCHANGED <<work, stable, frames, error, before, outcome, driver>>
  BY DEF Begin, database, history
<1>2. frames = <<>> /\ error = "none" /\ outcome = "none"
  BY <1>1 DEF PhaseInv, Phases, Outcomes
<1>3. before = InDatabase /\ InWork = InDatabase
  BY <1>1 DEF EndInv, InWork, InDatabase
<1>4. Steps' = Steps
  BY SameCase
<1>5. InWork' = before' /\ InDatabase' = InWork'
  BY <1>1, <1>3, <1>4 DEF InWork, InDatabase
<1>6. Shallow'
  <2>1. DOMAIN frames' = {} /\ Len(frames') <= 1
    BY <1>1, <1>2
  <2> QED
    BY <2>1 DEF Shallow
<1>7. MainInv'
  <2>1. ToSet(executed') = {} /\ IsInjective(executed')
    BY <1>1 DEF ToSet, IsInjective
  <2>2. Changed(direction', before', {}, InWork')
    BY <1>5 DEF Changed
  <2> QED
    BY <1>1, <1>2, <2>1, <2>2 DEF MainInv
<1>8. BackInv'
  BY <1>1 DEF BackInv
<1>9. DurableInv'
  BY <1>5 DEF DurableInv
<1>10. FailedInv'
  BY <1>1, <1>2 DEF FailedInv
<1> QED
  BY <1>6, <1>7, <1>8, <1>9, <1>10 DEF LoopInv

\* The undo loop is through, or somebody has set not_undone.
LEMMA AbortUndo ==
  ASSUME PhaseInv, Flat, LoopInv, [Next]_vars, Abort
  PROVE  LoopInv' /\ FailedInv'
<1>1. /\ loop' = "leaving" /\ outcome' = "failed" /\ frames = <<>>
      /\ UNCHANGED <<work, stable, before, not_undone, driver>>
      /\ Ends
  BY DEF Abort, call, history, Flat
<1>2. loop \in {"main", "undo"} /\ outcome = "none"
  BY <1>1 DEF Ends, PhaseInv, Outcomes
<1>3. Steps' = Steps
  BY SameCase
<1>4. InWork' = InWork /\ InDatabase' = InDatabase
  BY <1>1, <1>3 DEF InWork, InDatabase
<1>5. ASSUME ~not_undone PROVE InWork = before
  <2>1. loop = "undo"
    BY <1>1, <1>2, <1>5 DEF Ends, MainInv, LoopInv, Flat
  <2>2. /\ error = "none" /\ Changed(direction, before, ToUndo, InWork)
    BY <1>5, <2>1 DEF BackInv, LoopInv
  <2>3. todo = <<>>
    BY <1>1, <2>1, <2>2 DEF Ends
  <2>4. ToUndo = {}
    BY <1>1, <2>3 DEF ToUndo, InFrames, ToSet
  <2> QED
    BY <2>2, <2>4 DEF Changed
<1>6. Shallow' /\ MainInv' /\ BackInv'
  BY <1>1 DEF Shallow, MainInv, BackInv
<1>7. DurableInv'
  BY <1>1, <1>2, <1>4 DEF DurableInv, LoopInv
<1>8. FailedInv'
  BY <1>1, <1>4, <1>5 DEF FailedInv
<1> QED
  BY <1>6, <1>7, <1>8 DEF LoopInv

\* The connection is closed, with or without the DELETE of the lock's row.
LEMMA CloseUndo ==
  ASSUME PhaseInv, Flat, LoopInv, FailedInv, [Next]_vars,
         Release \/ FailRelease \/ Crash
  PROVE  LoopInv' /\ FailedInv'
<1>1. /\ loop' = "idle" /\ UNCHANGED <<before, not_undone, driver>>
      /\ Steps' = Steps /\ UseTransactions' = UseTransactions
  BY SameCase DEF Release, FailRelease, Crash, history
<1>2. LoopInv'
  BY <1>1 DEF LoopInv, Shallow, MainInv, BackInv, DurableInv
<1>3. ASSUME outcome' = "failed", ~not_undone', ~LosesUndo'
      PROVE  InDatabase' = before'
  <2>1. outcome = "failed" /\ loop = "leaving" /\ ~not_undone
    BY <1>1, <1>3 DEF Release, FailRelease, Crash, PhaseInv, Outcomes
  <2>2. InWork = before
    BY <2>1 DEF FailedInv
  <2>3. driver # "mysql" => InDatabase = before
    BY <2>1, <2>2 DEF DurableInv, LoopInv
  <2>4. driver' = "mysql" => ~cut_off'
    BY <1>1, <1>3 DEF LosesUndo, Flat
  <2>5. ~UseTransactions /\ LockRow \notin Steps
    BY CaseFacts DEF Flat, PhaseInv, TypeInv
  <2>6. CASE Release
    <3>1. cut_off' = cut_off
      BY <2>6 DEF Release, history
    <3>2. driver = "mysql" => ~in_transaction /\ ~autocommit
      BY <1>1, <2>1, <2>4, <3>1 DEF PhaseInv, Phases, LeavesAutocommit
    <3>3. stable' = stable \/ stable' = work \ {LockRow}
      BY <2>6 DEF Release, Close
    <3>4. driver = "mysql" => stable' = work \ {LockRow}
      BY <2>6, <3>2 DEF Release, Close
    <3> QED
      BY <1>1, <2>2, <2>3, <2>5, <3>3, <3>4 DEF InWork, InDatabase
  <2>7. CASE FailRelease
    <3>1. driver # "mysql"
      BY <1>1, <2>4, <2>7 DEF FailRelease
    <3>2. stable' = stable \/ stable' = work
      BY <2>7 DEF FailRelease, Close
    <3> QED
      BY <1>1, <2>2, <2>3, <3>1, <3>2 DEF InWork, InDatabase
  <2>8. CASE Crash
    <3>1. driver # "mysql" /\ stable' = stable
      BY <1>1, <2>4, <2>8 DEF Crash, Close
    <3> QED
      BY <1>1, <2>3, <3>1 DEF InDatabase
  <2> QED
    BY <2>6, <2>7, <2>8
<1>4. FailedInv'
  BY <1>1, <1>3 DEF FailedInv
<1> QED
  BY <1>2, <1>4

LEMMA StepUndo ==
  PhaseInv /\ EndInv /\ UndoInv /\ [Next]_vars => UndoInv'
<1> SUFFICES ASSUME PhaseInv, EndInv, UndoInv, [Next]_vars, Flat'
             PROVE  LoopInv' /\ FailedInv'
  BY StepForced DEF UndoInv
<1>a. ForcedInv
  BY DEF UndoInv
<1>b. ASSUME UNCHANGED <<direction, force>>
      PROVE  Flat /\ LoopInv /\ FailedInv /\ ~UseTransactions
  BY <1>b, SameFlat DEF UndoInv, Flat
<1>c. ASSUME loop' \notin {"main", "undo", "leaving"}
      PROVE  LoopInv'
  BY <1>c DEF LoopInv, Shallow, MainInv, BackInv, DurableInv
<1>d. Steps' = Steps
  BY SameCase
<1>1. CASE Lock
  <2>1. loop' = "locked" /\ outcome' = "none"
    BY <1>1 DEF Lock
  <2> QED
    BY <1>c, <2>1 DEF FailedInv
<1>2. ASSUME NEW d \in {"apply", "rollback"}, Begin(d)
      PROVE  LoopInv' /\ FailedInv'
  BY <1>2, BeginUndo
<1>3. CASE LoopStep
  BY <1>3, <1>a, <1>b, LoopFrame, LoopUndo
<1>4. CASE Abort
  BY <1>4, <1>b, AbortUndo DEF Abort, call
<1>5. CASE Commit
  <2>1. loop' = "returned" /\ outcome' = "unrecorded"
    BY <1>5 DEF Commit
  <2> QED
    BY <1>c, <2>1 DEF FailedInv
<1>6. CASE FailCommit
  BY <1>6, <1>b DEF FailCommit, call
<1>7. CASE Record \/ FailLog \/ FailRecord
  <2>1. /\ loop = "returned" /\ loop' = "leaving"
        /\ outcome' \in {direction, outcome}
    BY <1>7 DEF Record, FailLog, FailRecord
  <2>2. outcome' \in {"apply", "rollback", "unrecorded"}
    BY <2>1 DEF PhaseInv, TypeInv, Typed, Outcomes
  <2> QED
    BY <2>1, <2>2 DEF LoopInv, Shallow, MainInv, BackInv, DurableInv, FailedInv
<1>8. CASE Release \/ FailRelease \/ Crash
  BY <1>8, <1>b, CloseUndo DEF Release, FailRelease, Crash, call
<1>9. CASE BreakLock
  <2>1. /\ loop = "idle" /\ stable' = stable \ {LockRow}
        /\ UNCHANGED <<direction, force, loop, outcome, before, not_undone,
                       driver, cut_off>>
    BY <1>9 DEF BreakLock, call, control, history
  <2>2. FailedInv /\ LockRow \notin Steps /\ (LosesUndo' <=> LosesUndo)
    BY <1>b, <2>1, CaseFacts, SameCase DEF PhaseInv, TypeInv, LosesUndo
  <2>3. InDatabase' = InDatabase
    BY <1>d, <2>1, <2>2 DEF InDatabase
  <2> QED
    BY <1>c, <2>1, <2>2, <2>3 DEF FailedInv
<1>10. CASE UNCHANGED vars
  <2>1. /\ UNCHANGED <<migration, driver, direction, force, work, stable,
                       loop, todo, executed, frames, error, outcome, before,
                       not_undone, cut_off>>
    BY <1>10 DEF vars, call, database, control, history
  <2>2. LoopInv /\ FailedInv
    BY <1>b, <2>1
  <2>3. /\ InWork' = InWork /\ InDatabase' = InDatabase
        /\ LoopDirection' = LoopDirection /\ InFrames' = InFrames
        /\ (LosesUndo' <=> LosesUndo)
    BY <1>d, <2>1, SameCase
       DEF InWork, InDatabase, LoopDirection, Opposite, InFrames, LosesUndo
  <2>4. ToUndo' = ToUndo
    BY <2>1, <2>3 DEF ToUndo
  <2>5. Shallow' /\ MainInv' /\ BackInv'
    BY <2>1, <2>2, <2>3, <2>4 DEF LoopInv, Shallow, MainInv, BackInv
  <2>6. DurableInv' /\ FailedInv'
    BY <2>1, <2>2, <2>3 DEF LoopInv, DurableInv, FailedInv
  <2> QED
    BY <2>5, <2>6 DEF LoopInv
<1>11. ASSUME NEW d \in {"apply", "rollback"}
       PROVE  ~FailBegin(d)
  BY SameCase DEF FailBegin, Flat
<1> QED
  BY <1>1, <1>2, <1>3, <1>4, <1>5, <1>6, <1>7, <1>8, <1>9, <1>10, <1>11
     DEF Next, LoopStep

\* A migration that fails leaves the database as it was, unless DDL or another
\* exception than DatabaseError has cut its transaction or its undo loop short:
\* process_steps with a transaction and, outside of one, with steps that can
\* be undone.
THEOREM FailureLeavesNoTraceHolds == Spec => []FailureLeavesNoTrace
<1>1. TraceInv /\ UndoInv => FailureLeavesNoTrace
  <2> SUFFICES ASSUME TraceInv, UndoInv, Done("failed"), Undoable, ~not_undone,
                      ~CommitsEarly, ~LosesUndo
               PROVE  InDatabase = before
    BY DEF FailureLeavesNoTrace
  <2>1. loop = "idle" /\ outcome = "failed"
    BY DEF Done
  <2>2. CASE UseTransactions
    BY <2>1, <2>2 DEF TraceInv, Transactional, CommitsEarly
  <2>3. CASE ~UseTransactions
    <3>1. ~force
      BY <2>1, <2>3 DEF UndoInv, ForcedInv
    <3>2. FailedInv
      BY <2>3, <3>1 DEF UndoInv, Flat
    <3> QED
      BY <2>1, <3>2 DEF FailedInv
  <2> QED
    BY <2>2, <2>3
<1>2. Init => PhaseInv /\ SavepointsKnown /\ ProgressInv /\ TraceInv /\ UndoInv
  BY InitPhases, InitSavepoints, InitProgress, InitTrace, InitUndo
<1>3. PhaseInv /\ ProgressInv /\ UndoInv /\ [Next]_vars => UndoInv'
  BY StepUndo DEF ProgressInv
<1> QED
  BY <1>1, <1>2, <1>3, StepPhases, StepSavepoints, StepProgress, StepTrace,
     PTL DEF Spec
=============================================================================
