-------------------------- MODULE MCMigrationSteps --------------------------
(***************************************************************************)
(* Instances of MigrationSteps for TLC.                                    *)
(***************************************************************************)
EXTENDS MigrationSteps, TLC

CONSTANTS a, b, c, d, g, h

NothingIgnored(nodes) == [n \in nodes |-> "none"]

\* step(a); group(b, group(c)); step(d), where d has no rollback code.
Nested(ignore) ==
  [items |-> (g :> <<b, h>>) @@ (h :> <<c>>) @@ [n \in {a, b, c, d} |-> <<>>],
   top |-> <<a, g, d>>, ignore |-> ignore,
   reversible |-> {a, b, c}, idempotent |-> {a, b, c, d}, ddl |-> {a, b},
   transactional |-> TRUE]

\* step(a); step(b); step(c); step(d), each of which can be undone, outside a
\* transaction.
Autocommit(ignore) ==
  [items |-> [n \in {a, b, c, d} |-> <<>>],
   top |-> <<a, b, c, d>>, ignore |-> ignore,
   reversible |-> {a, b, c, d}, idempotent |-> {}, ddl |-> {a, c},
   transactional |-> FALSE]

\* The nested groups outside a transaction, where nothing may run twice.
Bare(ignore) ==
  [Nested(ignore) EXCEPT !.transactional = FALSE, !.idempotent = {}]

\* The first with any ignore_errors but for its last step, the second with
\* none, the third with those of the outer group and its first step.
\* PostgreSQL differs from SQLite where a COMMIT fails and outside transactions.
SafeCases ==
  ({Nested(ignore @@ (d :> "none")) :
      ignore \in [{a, b, c, g, h} -> {"none", "apply", "rollback"}]}
     \X {"sqlite", "mysql"})
  \cup ({Nested(NothingIgnored({a, b, c, d, g, h})),
          Autocommit(NothingIgnored({a, b, c, d}))}
          \X {"sqlite", "postgresql", "mysql"})
  \cup ({Bare(ignore @@ NothingIgnored({a, c, d, h})) :
           ignore \in [{b, g} -> {"none", "apply", "rollback"}]}
          \X {"sqlite", "postgresql", "mysql"})

\* step(a); group(b, c); step(d), where b and c may run twice.
GroupCase ==
  {<<[items |-> (g :> <<b, c>>) @@ [n \in {a, b, c, d} |-> <<>>],
    top |-> <<a, g, d>>, ignore |-> NothingIgnored({a, b, c, d, g}),
    reversible |-> {a, b, c, d}, idempotent |-> {b, c}, ddl |-> {a},
    transactional |-> TRUE], "sqlite">>}

\* Steps outside a transaction of which each may ignore errors of apply.
IgnoringCases ==
  {Autocommit(ignore) : ignore \in [{a, b, c, d} -> {"none", "apply"}]}
    \X {"sqlite"}
=============================================================================
