------------------------- MODULE MCMigrationSession -------------------------
(***************************************************************************)
(* Instances of MigrationSession for TLC.                                  *)
(***************************************************************************)
EXTENDS MigrationSession, TLC

CONSTANTS m1, m2, m3, hook

Symmetric == Permutations(Backends)

SamePid == [s \in Backends |-> 1]

ThreeFiles == <<m1, m2, m3>>

OneHook == <<hook>>

NoHooks == <<>>

\* The second migration depends on the first, the third on none.
Chain == (m1 :> {}) @@ (m2 :> {m1}) @@ (m3 :> {})

Command(kind, all, batch, revision) ==
  [kind |-> kind, all |-> all, batch |-> batch, revision |-> revision]

\* yoyo <kind> --batch, and yoyo <kind> --batch --revision <r>
BatchCommands(kinds) ==
  {Command(kind, FALSE, TRUE, r) : kind \in kinds,
                                   r \in Migrations \cup {NoRevision}}

AllKinds == BatchCommands(Operations \cup {"reapply"})

\* yoyo <kind> --batch; yoyo <kind>, where the user is asked about each
\* migration; yoyo <kind> --batch --all, also with --revision m1.
AllCommandLines ==
  UNION {{Command(kind, FALSE, TRUE, NoRevision),
          Command(kind, FALSE, FALSE, NoRevision),
          Command(kind, TRUE, TRUE, NoRevision),
          Command(kind, TRUE, TRUE, m1)} : kind \in Operations \cup {"reapply"}}

\* yoyo apply --batch and yoyo rollback --batch --all
AllCommands ==
  {Command("apply", FALSE, TRUE, NoRevision),
   Command("rollback", TRUE, TRUE, NoRevision)}
=============================================================================
