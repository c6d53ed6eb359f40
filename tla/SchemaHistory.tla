---------------------------- MODULE SchemaHistory ----------------------------
(***************************************************************************)
(* What the commands of yoyo promise about the table of applied            *)
(* migrations when everybody leaves the choice of migrations to their      *)
(* dependencies: a migration is never recorded before those it depends on, *)
(* never removed before those that depend on it, and never recorded twice. *)
(***************************************************************************)
CONSTANTS
  Migrations,
  Depends       \* Depends[m]: the migrations m names in __depends__

VARIABLE applied

Closed(S) == \A m \in S : Depends[m] \subseteq S

Init == applied = {}

Record(S) ==
  /\ S \cap applied = {}
  /\ Closed(applied \cup S)
  /\ applied' = applied \cup S

Remove(S) ==
  /\ S \subseteq applied
  /\ Closed(applied \ S)
  /\ applied' = applied \ S

Next == \E S \in SUBSET Migrations : Record(S) \/ Remove(S)

Spec == Init /\ [][Next]_applied
==============================================================================
