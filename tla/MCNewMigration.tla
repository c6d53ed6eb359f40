--------------------------- MODULE MCNewMigration ---------------------------
(***************************************************************************)
(* Instances of NewMigration for TLC.                                      *)
(***************************************************************************)
EXTENDS NewMigration

CONSTANTS d1, d2

\* The directory has a migration with the number 97.
Last97 == {<<97, 0>>}
=============================================================================
