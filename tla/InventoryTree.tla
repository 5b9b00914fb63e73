---------------------------- MODULE InventoryTree ----------------------------
(***************************************************************************)
(* What the Engine API promises about the inventory below and beside the   *)
(* virtual machines, whatever requests run side by side: every change is   *)
(* one atomic step of a kind below.  An object appears under a parent that *)
(* exists, keeps its parent and its kind for life, and goes with all that  *)
(* hangs below it; names stay unique where the schema says so; an id is    *)
(* never used again.  EngineTree implements it statement by statement.     *)
(***************************************************************************)
EXTENDS InventorySchema

CONSTANTS
  Id,         \* the ids of the seed and those uuid4() may produce
  Name,       \* names a client may give
  Note,       \* values of the field beside the name
  Attached,   \* statuses of a storage domain in a data center
  Seed        \* inventory at start: [objects, links]

VARIABLES
  objects,    \* id -> [kind, up, name, note]
  links,      \* <<storage domain, data center>> -> its status there
  spent       \* every id ever used

vars == <<objects, links, spent>>

Init ==
  /\ objects = Seed.objects
  /\ links = Seed.links
  /\ spent = DOMAIN Seed.objects

\* Where a row of this kind can hang.
Parents(kind) == IF Above[kind] = None THEN {None} ELSE Of(objects, Above[kind])

Create(o) ==
  /\ o \notin spent
  /\ \E kind \in Kinds, name \in Name, note \in Note : \E up \in Parents(kind) :
       /\ ~NameTaken(objects, kind, up, name, {})
       /\ objects' = Insert(objects, o, [kind |-> kind, up |-> up, name |-> name, note |-> note])
  /\ spent' = spent \cup {o}
  /\ UNCHANGED links

\* Only the name and the note of an object ever change.
Change(o) ==
  /\ o \in DOMAIN objects
  /\ \E name \in Name, note \in Note :
       /\ objects' = [objects EXCEPT ![o] = [kind |-> @.kind, up |-> @.up,
                                             name |-> name, note |-> note]]
       /\ name # objects[o].name =>
            ~NameTaken(objects, objects[o].kind, objects[o].up, name, {o})
  /\ UNCHANGED <<links, spent>>

Remove(o) ==
  /\ o \in DOMAIN objects
  /\ objects' = Delete(objects, Subtree(objects, o))
  /\ links' = Cut(links, Subtree(objects, o))
  /\ UNCHANGED spent

\* A storage domain is attached to a data center, or its status there set.
SetLink ==
  /\ \E s \in Of(objects, "storage"), d \in Of(objects, "datacenter"), status \in Attached :
       links' = Insert(links, <<s, d>>, status)
  /\ UNCHANGED <<objects, spent>>

DropLink(l) ==
  /\ l \in DOMAIN links
  /\ links' = Delete(links, {l})
  /\ UNCHANGED <<objects, spent>>

Next ==
  \/ \E o \in Id : Create(o) \/ Change(o) \/ Remove(o)
  \/ SetLink
  \/ \E l \in DOMAIN links : DropLink(l)

Spec == Init /\ [][Next]_vars
=============================================================================
