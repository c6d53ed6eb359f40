-------------------------- MODULE MCInternalSchema --------------------------
(***************************************************************************)
(* Instances of InternalSchema for TLC.                                    *)
(***************************************************************************)
EXTENDS InternalSchema

CONSTANTS c1, c2, c3, m1, m2

SamePid == [p \in Backends |-> 1]
=============================================================================
