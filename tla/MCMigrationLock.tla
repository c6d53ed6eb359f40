--------------------------- MODULE MCMigrationLock ---------------------------
(***************************************************************************)
(* Instances of MigrationLock for TLC.                                     *)
(***************************************************************************)
EXTENDS MigrationLock, TLC

\* Every backend lives in a process with the same pid: threads of one
\* process, or processes of several hosts or containers.
SamePid == [b \in Backends |-> 1]

\* One process per backend on one host, whose pid stands for itself.
OwnPid == [b \in Backends |-> b]

\* The backends that retry do not differ where all have the same pid.
Symmetric == Permutations(Retrying)
==============================================================================
