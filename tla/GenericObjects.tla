--------------------------- MODULE GenericObjects ---------------------------
(***************************************************************************)
(* Collections without a table of their own, kept as JSON documents in     *)
(* ov_api_objects: a top-level collection, or one below a parent.  PUT of  *)
(* a top-level object reads its document, merges the body into it and      *)
(* writes the whole back, in two statements; PUT below a parent replaces   *)
(* the document, and finds the row by its id alone.  The engine options,   *)
(* which each start of the process writes anew, are not among the objects. *)
(***************************************************************************)
EXTENDS Tables

CONSTANTS
  Obj,       \* ids: those of the seed and those uuid4() will produce
  Coll,      \* collections
  Parent,    \* objects that have sub-collections
  Value,     \* what a client may give a field
  None,      \* SQL NULL, a field that is not there
  Generated, \* the name an object gets when its body has none
  Req,       \* the requests clients make, each made once
  Seed       \* the objects at the start

VARIABLES
  objects,   \* id -> [coll, parent, name, data]
  spent,     \* ids ever used
  pc,        \* request -> its next statement
  rq,        \* request -> its locals and its answer
  last,      \* history: id -> field -> the value last given to it
  disturbed  \* history: objects written by a PUT from a stale read, or by a
             \* PUT that came along another object's path

vars == <<objects, spent, pc, rq, last, disturbed>>

Fields    == {"name", "note"}
Documents == [Fields -> Value \cup {None}]
Rows      == [coll : Coll, parent : Parent \cup {None},
              name : Value \cup {Generated}, data : Documents]

Points == {"idle", "write", "reread", "done", "lost"}
Locals == [id : Obj \cup {None}, body : Documents, base : Documents, stale : BOOLEAN,
           answer : {"ok", "404", "500", None}]

Nothing == [f \in Fields |-> None]
Fresh == [id |-> None, body |-> Nothing, base |-> Nothing, stale |-> FALSE, answer |-> None]

ASSUME SeedAssumption ==
  /\ Seed \in [DOMAIN Seed -> Rows] /\ DOMAIN Seed \subseteq Obj
  /\ \A o \in DOMAIN Seed :
       Seed[o].parent = None => Seed[o].data["name"] \in {None, Seed[o].name}
ASSUME NoneAssumption == None \notin Value \cup Parent \cup Obj

Init ==
  /\ objects = Seed
  /\ spent = DOMAIN Seed
  /\ pc = [r \in Req |-> "idle"]
  /\ rq = [r \in Req |-> Fresh]
  /\ last = [o \in DOMAIN Seed |-> Seed[o].data]
  /\ disturbed = {}

\* dict.update
Merge(data, body) == [f \in Fields |-> IF body[f] = None THEN data[f] ELSE body[f]]

\* Operators named X_Y are X with the bug Y; the model uses none of them.
Named_Raw(body, otherwise) == body["name"]

Named(body, otherwise) == IF body["name"] = None THEN otherwise ELSE body["name"]

\* UPDATE ov_api_objects SET name, data WHERE id.
Store(o, name, data) ==
  objects' = [objects EXCEPT ![o] = [coll |-> @.coll, parent |-> @.parent,
                                     name |-> name, data |-> data]]

\* Whoever holds a document of an object in written holds a stale one now.
Aged(q, written) ==
  [id |-> rq[q].id, body |-> rq[q].body, base |-> rq[q].base, answer |-> rq[q].answer,
   stale |-> IF pc[q] = "write" /\ rq[q].id \in written THEN TRUE ELSE rq[q].stale]

\* r moves on, having written some objects.
Go(r, from, to, locals, written) ==
  /\ pc[r] = from
  /\ pc' = [pc EXCEPT ![r] = to]
  /\ rq' = [q \in Req |-> IF q = r THEN locals ELSE Aged(q, written)]

Read(r, from, to, locals) ==
  Go(r, from, to, locals, {}) /\ UNCHANGED <<objects, spent, last, disturbed>>

\* Every handler first reads the default status, which is itself an object of
\* the collection "options" and may have been deleted.
Refuse(r) == Read(r, "idle", "done", [Fresh EXCEPT !.answer = "500"])

-----------------------------------------------------------------------------
\* POST, with or without a parent.
Post(r) ==
  \E o \in Obj \ spent, c \in Coll, p \in Parent \cup {None}, body \in Documents :
    /\ objects' = Insert(objects, o, [coll |-> c, parent |-> p,
                                      name |-> Named(body, Generated), data |-> body])
    /\ spent' = spent \cup {o}
    /\ last' = Insert(last, o, body)
    /\ Go(r, "idle", "reread", [Fresh EXCEPT !.id = o], {})
    /\ UNCHANGED disturbed

\* PUT of a top-level object.
PutRead(r) ==
  \E o \in spent, c \in Coll, body \in Documents :
    IF o \in DOMAIN objects /\ objects[o].coll = c /\ objects[o].parent = None
    THEN Read(r, "idle", "write", [Fresh EXCEPT !.id = o, !.body = body,
                                                !.base = objects[o].data])
    ELSE Read(r, "idle", "done", [Fresh EXCEPT !.answer = "404"])

PutWrite_Replaces(r) ==
  LET o    == rq[r].id
      body == rq[r].body
      done == [Fresh EXCEPT !.id = o]
  IN IF o \notin DOMAIN objects
     THEN Read(r, "write", "reread", done)
     ELSE /\ Go(r, "write", "reread", done, {o})
          /\ Store(o, Named(body, objects[o].name), body)
          /\ last' = [last EXCEPT ![o] = Merge(@, body)]
          /\ disturbed' = IF rq[r].stale THEN disturbed \cup {o} ELSE disturbed
          /\ UNCHANGED spent

PutWrite_Upsert(r) ==
  LET o == rq[r].id IN
  /\ Go(r, "write", "reread", [Fresh EXCEPT !.id = o], {o})
  /\ \E c \in Coll :
       objects' = Insert(objects, o, [coll |-> c, parent |-> None,
                                      name |-> Named(rq[r].body, Generated),
                                      data |-> Merge(rq[r].base, rq[r].body)])
  /\ last' = [last EXCEPT ![o] = Merge(@, rq[r].body)]
  /\ UNCHANGED <<spent, disturbed>>

\* The name column follows the body, the document is what was read, merged;
\* of a row that is gone the UPDATE changes none, which nobody asks.
PutWrite(r) ==
  LET o    == rq[r].id
      body == rq[r].body
      done == [Fresh EXCEPT !.id = o]
  IN IF o \notin DOMAIN objects
     THEN Read(r, "write", "reread", done)
     ELSE /\ Go(r, "write", "reread", done, {o})
          /\ Store(o, Named(body, objects[o].name), Merge(rq[r].base, body))
          /\ last' = [last EXCEPT ![o] = Merge(@, body)]
          /\ disturbed' = IF rq[r].stale THEN disturbed \cup {o} ELSE disturbed
          /\ UNCHANGED spent

\* PUT below a parent: WHERE id = ..., and no name column.
SubPut(r) ==
  \E o \in spent, p \in Parent, body \in Documents :
    IF o \notin DOMAIN objects
    THEN Read(r, "idle", "reread", [Fresh EXCEPT !.id = o])
    ELSE /\ Go(r, "idle", "reread", [Fresh EXCEPT !.id = o], {o})
         /\ Store(o, objects[o].name, body)
         /\ last' = [last EXCEPT ![o] = body]
         /\ disturbed' = IF objects[o].parent = p THEN disturbed ELSE disturbed \cup {o}
         /\ UNCHANGED spent

\* The answer shows the row as it is now.
Reread(r) ==
  Read(r, "reread", "done",
       [rq[r] EXCEPT !.answer = IF rq[r].id \in DOMAIN objects THEN "ok" ELSE "404"])

\* DELETE names the collection, or the parent, and the id; every object has
\* such a path.
Remove ==
  /\ \E o \in DOMAIN objects : objects' = Delete(objects, {o})
  /\ UNCHANGED <<spent, pc, rq, last, disturbed>>

InFlight(r) == pc[r] \in {"write", "reread"}

\* A statement fails: a value the column does not take, a time-out.
Fail(r) ==
  InFlight(r) /\ Read(r, pc[r], "done", [rq[r] EXCEPT !.answer = "500"])

Restart ==
  /\ \E r \in Req : InFlight(r)
  /\ pc' = [r \in Req |-> IF InFlight(r) THEN "lost" ELSE pc[r]]
  /\ UNCHANGED <<objects, spent, rq, last, disturbed>>

\* Every request of the run has been made and answered or lost.
Quiet == (\A r \in Req : pc[r] \in {"done", "lost"}) /\ UNCHANGED vars

Next ==
  \/ \E r \in Req : \/ Refuse(r) \/ Post(r) \/ PutRead(r) \/ PutWrite(r) \/ SubPut(r)
                    \/ Reread(r) \/ Fail(r)
  \/ Remove \/ Restart \/ Quiet

Spec == Init /\ [][Next]_vars

-----------------------------------------------------------------------------
\* Properties.

\* Every variable has its type.
TypeOK ==
  /\ DOMAIN objects \subseteq spent /\ spent \subseteq Obj
  /\ objects \in [DOMAIN objects -> Rows]
  /\ DOMAIN last = spent /\ \A o \in spent : last[o] \in Documents
  /\ pc \in [Req -> Points]
  /\ rq \in [Req -> Locals]
  /\ disturbed \subseteq spent

\* Writes find their row by its id alone, one statement after it was read,
\* or without reading it: still an object never moves to another collection
\* or parent, and one that was deleted does not come back.
HomeKept ==
  [][\A o \in spent :
       /\ o \in DOMAIN objects' => o \in DOMAIN objects
       /\ o \in DOMAIN objects \cap DOMAIN objects' =>
            /\ objects'[o].coll = objects[o].coll
            /\ objects'[o].parent = objects[o].parent]_vars

\* Without races PUT is what it should be: as long as no PUT wrote from a
\* stale read, and none came along another object's path, each field holds
\* the value last given to it, and the name column of a top-level object, by
\* which lists are ordered and options are found, is the name it shows.
UndisturbedKeeps ==
  \A o \in DOMAIN objects \ disturbed :
    /\ objects[o].data = last[o]
    /\ objects[o].parent = None /\ last[o]["name"] # None => objects[o].name = last[o]["name"]

\* The inductive invariant of the proofs: a document read by a PUT and not
\* stale is the one its object has.
ReadIsCurrent(r) ==
  pc[r] = "write" =>
    /\ rq[r].id \in spent
    /\ rq[r].id \in DOMAIN objects =>
         /\ objects[rq[r].id].parent = None
         /\ ~rq[r].stale => rq[r].base = objects[rq[r].id].data

IInv == TypeOK /\ UndisturbedKeeps /\ \A r \in Req : ReadIsCurrent(r)

\* "Handlers persist mutations": each field of an object holds the value last
\* given to it by a PUT that named it.  A PUT from a stale read writes back
\* the old values of the fields its body does not name.
PutPersists == \A o \in DOMAIN objects : objects[o].data = last[o]
=============================================================================
