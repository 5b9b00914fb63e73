------------------------------- MODULE Tables -------------------------------
(***************************************************************************)
(* Tables of the lab database as functions: the domain holds the ids of    *)
(* the rows that exist, the value at an id is its row.  One operator is    *)
(* one SQL statement, which PostgreSQL runs atomically: the simulator's    *)
(* connections autocommit, so the statement is the unit of interleaving.   *)
(* What a statement does to the rows that REFERENCE the ones it deletes    *)
(* is in the module that owns them.                                        *)
(***************************************************************************)
EXTENDS Functions

\* INSERT of one row under a new id.
Insert(table, id, row) ==
  [k \in DOMAIN table \cup {id} |-> IF k = id THEN row ELSE table[k]]

\* DELETE of the rows with these ids; those that do not exist are ignored.
Delete(table, ids) == Restrict(table, DOMAIN table \ ids)

=============================================================================
