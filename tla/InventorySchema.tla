--------------------------- MODULE InventorySchema ---------------------------
(***************************************************************************)
(* The part of the lab's schema that holds its inventory together: which   *)
(* kind of object hangs below which, what a name must be unique among, and *)
(* which rows a DELETE takes along.  All the tables are one function here, *)
(* from id to row: ids are UUIDs and no two tables share one.  VMs, their  *)
(* disks and NICs have modules of their own (EngineVms, VmStorage).        *)
(***************************************************************************)
EXTENDS Tables

CONSTANT None   \* SQL NULL

\* The foreign key of each kind, all of them NOT NULL and ON DELETE CASCADE.
\* ov_permissions has two more, to ov_users and ov_groups, which take nothing
\* along: the seed, which alone writes permissions, grants all of them to
\* users, and neither a user nor the domain above one has a DELETE.
Above ==
  [datacenter |-> None, cluster |-> "datacenter", host |-> "cluster",
   affinity |-> "cluster", network |-> "datacenter", profile |-> "network",
   quota |-> "datacenter", storage |-> None, connection |-> None,
   domain |-> None, group |-> "domain", user |-> "domain", role |-> None,
   permission |-> "role", tag |-> None, bookmark |-> None, event |-> None]

Kinds == DOMAIN Above

\* UNIQUE (name), and the kinds without a unique name.  The others are
\* UNIQUE (foreign key, name).
NamedOnce == {"datacenter", "host", "storage", "domain", "role", "tag", "bookmark"}
Unnamed   == {"connection", "permission", "event"}

Of(objects, kind) == {o \in DOMAIN objects : objects[o].kind = kind}

\* Some row other than those in "but" has the name a row of this kind below
\* this parent is to get.
NameTaken(objects, kind, up, name, but) ==
  /\ kind \notin Unnamed
  /\ \E o \in Of(objects, kind) \ but :
       /\ objects[o].name = name
       /\ kind \in NamedOnce \/ objects[o].up = up

Children(objects, ids) == {o \in DOMAIN objects : objects[o].up \in ids}

\* Operators named X_Y are X with the bug Y; the model uses none of them.
Subtree_Shallow(objects, o) == {o} \cup Children(objects, {o})

\* What goes with an object: no kind has grandchildren with children.
Subtree(objects, o) ==
  LET sons == Children(objects, {o})
  IN {o} \cup sons \cup Children(objects, sons)

\* A storage domain's attachments REFERENCE it and the data center.
Cut(links, gone) ==
  Restrict(links, {l \in DOMAIN links : l[1] \notin gone /\ l[2] \notin gone})

\* The parent a row needs exists and is of the right kind.
HasParent(objects, kind, up) ==
  IF Above[kind] = None THEN up = None ELSE up \in Of(objects, Above[kind])
=============================================================================
