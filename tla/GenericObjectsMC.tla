-------------------------- MODULE GenericObjectsMC --------------------------
(* One top-level object with a note and no name in its document. *)
EXTENDS GenericObjects

CONSTANTS o1, c1, a

MCSeed ==
  [o \in {o1} |-> [coll |-> c1, parent |-> None, name |-> a,
                   data |-> [f \in Fields |-> IF f = "note" THEN a ELSE None]]]
=============================================================================
