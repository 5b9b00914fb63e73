------------------------ MODULE GenericObjects_proofs ------------------------
(***************************************************************************)
(* A generic object keeps its home, and what clients gave it as long as no *)
(* PUT disturbs it, for any collections, parents, values and requests.     *)
(*                                                                         *)
(* The write of a PUT comes one statement after its read.  What carries    *)
(* the proof is ReadIsCurrent: whoever writes an object makes every        *)
(* document of it that a request still holds a stale one, so a document    *)
(* that is not stale is the one in the row, and merging into it gives each *)
(* field its last value.                                                   *)
(***************************************************************************)
EXTENDS GenericObjects, TLAPS

-----------------------------------------------------------------------------
\* Types.

\* A body merged into an object gives an object.
LEMMA MergeType ==
  ASSUME NEW data \in Documents, NEW body \in Documents
  PROVE  Merge(data, body) \in Documents
<1> DEFINE D == [Fields -> Value \cup {None}]
<1>1. data \in D /\ body \in D
  BY DEF Documents
<1>2. Merge(data, body) \in D
  BY <1>1 DEF Merge
<1>3. QED BY <1>2 DEF Documents

\* No field at all is an object.
LEMMA NothingType == Nothing \in Documents
BY SMT DEF Nothing, Documents, Fields

\* The locals a handler starts with have their type.
LEMMA FreshType ==
  ASSUME NEW id \in Obj \cup {None}, NEW body \in Documents, NEW base \in Documents,
         NEW a \in {"ok", "404", "500", None}
  PROVE  /\ [Fresh EXCEPT !.answer = a] \in Locals
         /\ [Fresh EXCEPT !.id = id] \in Locals
         /\ [Fresh EXCEPT !.id = id, !.body = body, !.base = base] \in Locals
BY NothingType DEF Fresh, Locals

\* What Go puts into the locals of r is what it is given; the others age.
LEMMA GoType ==
  ASSUME TypeOK, NEW r \in Req, NEW from, NEW to \in Points, NEW locals \in Locals,
         NEW written, Go(r, from, to, locals, written)
  PROVE  pc' \in [Req -> Points] /\ rq' \in [Req -> Locals]
<1>1. \A q \in Req : Aged(q, written) \in Locals
  BY DEF TypeOK, Locals, Aged
<1>2. QED BY <1>1 DEF TypeOK, Go

\* The name a body gives, or what is put in its place, is a name.
LEMMA NamedType ==
  ASSUME NEW body \in Documents, NEW otherwise \in Value \cup {Generated}
  PROVE  Named(body, otherwise) \in Value \cup {Generated}
BY DEF Named, Documents, Fields

\* UPDATE changes the name and the document of one row, and nothing else.
LEMMA StoreEffect ==
  ASSUME TypeOK, NEW o \in DOMAIN objects, NEW name \in Value \cup {Generated},
         NEW data \in Documents, Store(o, name, data)
  PROVE  /\ DOMAIN objects' = DOMAIN objects
         /\ objects' \in [DOMAIN objects -> Rows]
         /\ \A x \in DOMAIN objects \ {o} : objects'[x] = objects[x]
         /\ objects'[o].coll = objects[o].coll /\ objects'[o].parent = objects[o].parent
         /\ objects'[o].name = name /\ objects'[o].data = data
<1>1. objects \in [DOMAIN objects -> Rows]
  BY DEF TypeOK
<1> DEFINE row == [coll |-> objects[o].coll, parent |-> objects[o].parent,
                   name |-> name, data |-> data]
<1>2. row \in Rows
  BY <1>1 DEF Rows
<1>3. objects' = [objects EXCEPT ![o] = row]
  BY DEF Store
<1>4. objects'[o] = row
  BY <1>1, <1>3
<1>5. QED BY <1>1, <1>2, <1>3, <1>4

\* POST adds one row under a new id.
LEMMA PostEffect ==
  ASSUME TypeOK, NEW o \in Obj \ spent, NEW row \in Rows,
         objects' = Insert(objects, o, row)
  PROVE  /\ DOMAIN objects' = DOMAIN objects \cup {o}
         /\ objects' \in [DOMAIN objects' -> Rows]
         /\ \A x \in DOMAIN objects : objects'[x] = objects[x]
         /\ objects'[o] = row
BY DEF TypeOK, Insert

\* Documents in the hands of others stay current or become stale, whoever
\* moves and whatever it writes.
LEMMA OthersAge ==
  ASSUME TypeOK, \A q \in Req : ReadIsCurrent(q),
         NEW r \in Req, NEW from, NEW to \in Points, NEW locals \in Locals,
         NEW written, Go(r, from, to, locals, written), spent \subseteq spent',
         \A x \in spent : x \in DOMAIN objects' =>
           /\ x \in DOMAIN objects
           /\ objects'[x].parent = objects[x].parent
           /\ x \notin written => objects'[x].data = objects[x].data
  PROVE  \A q \in Req \ {r} : ReadIsCurrent(q)'
<1> SUFFICES ASSUME NEW q \in Req \ {r}, pc'[q] = "write"
             PROVE  /\ rq'[q].id \in spent'
                    /\ rq'[q].id \in DOMAIN objects' =>
                         /\ objects'[rq'[q].id].parent = None
                         /\ ~rq'[q].stale => rq'[q].base = objects'[rq'[q].id].data
  BY DEF ReadIsCurrent
<1>1. pc[q] = "write" /\ rq'[q] = Aged(q, written)
  BY DEF Go, TypeOK
<1>2. /\ rq'[q].id = rq[q].id /\ rq'[q].base = rq[q].base
      /\ ~rq'[q].stale => ~rq[q].stale /\ rq[q].id \notin written
  <2>1. rq'[q].id = rq[q].id /\ rq'[q].base = rq[q].base
    BY <1>1 DEF Aged
  <2>2. rq'[q].stale = IF pc[q] = "write" /\ rq[q].id \in written THEN TRUE ELSE rq[q].stale
    BY <1>1 DEF Aged
  <2>3. QED BY <1>1, <2>1, <2>2
<1>3. rq[q].id \in spent /\
        (rq[q].id \in DOMAIN objects =>
           /\ objects[rq[q].id].parent = None
           /\ ~rq[q].stale => rq[q].base = objects[rq[q].id].data)
  BY <1>1 DEF ReadIsCurrent
<1>4. QED BY <1>2, <1>3

\* A step that only reads keeps the invariant when what it remembers is right.
LEMMA ReadKeeps ==
  ASSUME IInv, NEW r \in Req, NEW from, NEW to \in Points, NEW locals \in Locals,
         Read(r, from, to, locals),
         to = "write" => /\ locals.id \in DOMAIN objects
                         /\ objects[locals.id].parent = None
                         /\ locals.base = objects[locals.id].data
  PROVE  IInv'
<1>1. TypeOK'
  BY GoType DEF IInv, Read, TypeOK
<1>2. UndisturbedKeeps'
  BY DEF IInv, Read, UndisturbedKeeps
<1>3. \A q \in Req \ {r} : ReadIsCurrent(q)'
  BY OthersAge DEF IInv, Read
<1>4. ReadIsCurrent(r)'
  <2>1. pc'[r] = to /\ rq'[r] = locals
    BY DEF Read, Go, IInv, TypeOK
  <2>2. QED BY <2>1 DEF ReadIsCurrent, Read, IInv, TypeOK
<1>5. QED BY <1>1, <1>2, <1>3, <1>4 DEF IInv

-----------------------------------------------------------------------------
\* The writes, one lemma each.

\* POST inserts an object under a new id.
LEMMA PostKeeps ==
  ASSUME IInv, NEW r \in Req, Post(r)
  PROVE  IInv'
<1>1. PICK o \in Obj \ spent, c \in Coll, p \in Parent \cup {None}, body \in Documents :
        /\ objects' = Insert(objects, o, [coll |-> c, parent |-> p,
                                          name |-> Named(body, Generated), data |-> body])
        /\ spent' = spent \cup {o}
        /\ last' = Insert(last, o, body)
        /\ Go(r, "idle", "reread", [Fresh EXCEPT !.id = o], {})
        /\ disturbed' = disturbed
  BY DEF Post
<1> DEFINE row == [coll |-> c, parent |-> p, name |-> Named(body, Generated), data |-> body]
<1>2. TypeOK /\ row \in Rows
  BY NamedType DEF IInv, Rows
<1>3. /\ DOMAIN objects' = DOMAIN objects \cup {o}
      /\ objects' \in [DOMAIN objects' -> Rows]
      /\ \A x \in DOMAIN objects : objects'[x] = objects[x]
      /\ objects'[o] = row
  BY <1>1, <1>2, PostEffect
<1>4. o \notin DOMAIN objects /\ o \notin disturbed
  BY <1>2 DEF TypeOK
<1>5. /\ DOMAIN last' = spent' /\ last'[o] = body
      /\ \A x \in spent : last'[x] = last[x]
  BY <1>1, <1>2 DEF Insert, TypeOK
<1>6. [Fresh EXCEPT !.id = o] \in Locals
  BY FreshType, NothingType
<1>7. TypeOK'
  <2>1. pc' \in [Req -> Points] /\ rq' \in [Req -> Locals]
    BY <1>1, <1>2, <1>6, GoType DEF Points
  <2>2. \A x \in spent' : last'[x] \in Documents
    BY <1>1, <1>2, <1>5 DEF TypeOK
  <2>3. QED BY <1>1, <1>2, <1>3, <1>5, <2>1, <2>2 DEF TypeOK
<1>8. UndisturbedKeeps'
  <2>1. ASSUME NEW x \in DOMAIN objects \ disturbed
        PROVE  /\ objects'[x].data = last'[x]
               /\ objects'[x].parent = None /\ last'[x]["name"] # None =>
                    objects'[x].name = last'[x]["name"]
    BY <1>2, <1>3, <1>5 DEF IInv, UndisturbedKeeps, TypeOK
  <2>2. objects'[o].data = last'[o]
    BY <1>3, <1>5
  <2>3. last'[o]["name"] # None => objects'[o].name = last'[o]["name"]
    BY <1>3, <1>5 DEF Named
  <2>4. QED BY <1>1, <1>3, <2>1, <2>2, <2>3 DEF UndisturbedKeeps
<1>9. \A q \in Req \ {r} : ReadIsCurrent(q)'
  <2>1. \A x \in spent : x \in DOMAIN objects' =>
          /\ x \in DOMAIN objects
          /\ objects'[x].parent = objects[x].parent
          /\ x \notin {} => objects'[x].data = objects[x].data
    BY <1>3
  <2>2. \A q \in Req : ReadIsCurrent(q)
    BY DEF IInv
  <2>3. spent \subseteq spent'
    BY <1>1
  <2>4. "reread" \in Points
    BY DEF Points
  <2> HIDE DEF row
  <2>5. QED BY <1>1, <1>2, <1>6, <2>1, <2>2, <2>3, <2>4, OthersAge
<1>10. ReadIsCurrent(r)'
  BY <1>1, <1>2 DEF Go, ReadIsCurrent, TypeOK
<1>11. QED BY <1>7, <1>8, <1>9, <1>10 DEF IInv

\* What the two kinds of PUT have in common: they change the name and the
\* document of o, answer next, and make other documents of o stale.
LEMMA WriteKeeps ==
  ASSUME IInv, NEW r \in Req, NEW from, NEW o \in DOMAIN objects,
         NEW name \in Value \cup {Generated}, NEW data \in Documents, NEW given \in Documents,
         Store(o, name, data), Go(r, from, "reread", [Fresh EXCEPT !.id = o], {o}),
         last' = [last EXCEPT ![o] = given], spent' = spent,
         disturbed' \in {disturbed, disturbed \cup {o}},
         o \notin disturbed' =>
           /\ data = given
           /\ objects[o].parent = None /\ given["name"] # None => name = given["name"]
  PROVE  IInv'
<1>1. TypeOK /\ o \in spent /\ o \in Obj
  BY DEF IInv, TypeOK
<1>2. /\ DOMAIN objects' = DOMAIN objects
      /\ objects' \in [DOMAIN objects -> Rows]
      /\ \A x \in DOMAIN objects \ {o} : objects'[x] = objects[x]
      /\ objects'[o].coll = objects[o].coll /\ objects'[o].parent = objects[o].parent
      /\ objects'[o].name = name /\ objects'[o].data = data
  BY <1>1, StoreEffect
<1>3. /\ DOMAIN last' = spent /\ last'[o] = given
      /\ \A x \in spent \ {o} : last'[x] = last[x]
  <2>1. DOMAIN last = spent
    BY <1>1 DEF TypeOK
  <2>2. QED BY <1>1, <2>1
<1>4. [Fresh EXCEPT !.id = o] \in Locals /\ "reread" \in Points
  BY <1>1, FreshType, NothingType DEF Points
<1>5. TypeOK'
  <2>1. pc' \in [Req -> Points] /\ rq' \in [Req -> Locals]
    BY <1>1, <1>4, GoType
  <2>2. \A x \in spent : last'[x] \in Documents
    BY <1>1, <1>3 DEF TypeOK
  <2>3. QED BY <1>1, <1>2, <1>3, <2>1, <2>2 DEF TypeOK
<1>6. UndisturbedKeeps'
  <2>1. ASSUME NEW x \in DOMAIN objects \ disturbed', x # o
        PROVE  /\ objects'[x].data = last'[x]
               /\ objects'[x].parent = None /\ last'[x]["name"] # None =>
                    objects'[x].name = last'[x]["name"]
    BY <1>1, <1>2, <1>3, <2>1 DEF IInv, UndisturbedKeeps, TypeOK
  <2>2. o \notin disturbed' =>
          /\ objects'[o].data = last'[o]
          /\ objects'[o].parent = None /\ last'[o]["name"] # None =>
               objects'[o].name = last'[o]["name"]
    BY <1>2, <1>3
  <2>3. QED BY <1>2, <2>1, <2>2 DEF UndisturbedKeeps
<1>7. \A q \in Req \ {r} : ReadIsCurrent(q)'
  <2>1. \A x \in spent : x \in DOMAIN objects' =>
          /\ x \in DOMAIN objects
          /\ objects'[x].parent = objects[x].parent
          /\ x \notin {o} => objects'[x].data = objects[x].data
    BY <1>2
  <2>2. \A q \in Req : ReadIsCurrent(q)
    BY DEF IInv
  <2>3. QED BY <1>1, <1>4, <2>1, <2>2, OthersAge
<1>8. ReadIsCurrent(r)'
  BY <1>1 DEF Go, ReadIsCurrent, TypeOK
<1>9. QED BY <1>5, <1>6, <1>7, <1>8 DEF IInv

\* A PUT that did not read a stale document writes the merge of the body and
\* the object's document, which is what was last given to it.
LEMMA PutWriteKeeps ==
  ASSUME IInv, NEW r \in Req, PutWrite(r)
  PROVE  IInv'
<1> DEFINE o    == rq[r].id
           body == rq[r].body
           data == Merge(rq[r].base, body)
           given == Merge(last[o], body)
<1>1. TypeOK /\ rq[r] \in Locals /\ pc[r] = "write"
  BY DEF IInv, TypeOK, PutWrite, Read, Go
<1>2. body \in Documents /\ rq[r].base \in Documents /\ o \in Obj \cup {None}
  BY <1>1 DEF Locals
<1>3. CASE o \notin DOMAIN objects
  <2>1. Read(r, "write", "reread", [Fresh EXCEPT !.id = o])
    BY <1>3 DEF PutWrite
  <2>2. [Fresh EXCEPT !.id = o] \in Locals /\ "reread" \in Points
    BY <1>2, FreshType, NothingType DEF Points
  <2> HIDE DEF o
  <2>3. QED BY <2>1, <2>2, ReadKeeps
<1>4. CASE o \in DOMAIN objects
  <2>1. /\ Go(r, "write", "reread", [Fresh EXCEPT !.id = o], {o})
        /\ Store(o, Named(body, objects[o].name), data)
        /\ last' = [last EXCEPT ![o] = given]
        /\ disturbed' = IF rq[r].stale THEN disturbed \cup {o} ELSE disturbed
        /\ spent' = spent
    BY <1>4 DEF PutWrite
  <2>2. objects[o] \in Rows /\ o \in spent /\ last[o] \in Documents
    BY <1>1, <1>4 DEF TypeOK
  <2>3. /\ Named(body, objects[o].name) \in Value \cup {Generated}
        /\ data \in Documents /\ given \in Documents
    BY <1>2, <2>2, NamedType, MergeType DEF Rows
  <2>4. ASSUME o \notin disturbed'
        PROVE  /\ data = given
               /\ objects[o].parent = None /\ given["name"] # None =>
                    Named(body, objects[o].name) = given["name"]
    <3>1. ~rq[r].stale /\ o \notin disturbed
      BY <2>1, <2>4
    <3>2. rq[r].base = objects[o].data
      BY <1>1, <1>4, <3>1 DEF IInv, ReadIsCurrent
    <3>3. /\ objects[o].data = last[o]
          /\ objects[o].parent = None /\ last[o]["name"] # None =>
               objects[o].name = last[o]["name"]
      BY <1>4, <3>1 DEF IInv, UndisturbedKeeps
    <3>4. given["name"] = IF body["name"] = None THEN last[o]["name"] ELSE body["name"]
      BY DEF Merge, Fields
    <3> HIDE DEF o, body, given
    <3>5. Named(body, objects[o].name) = IF body["name"] = None THEN objects[o].name
                                         ELSE body["name"]
      BY DEF Named
    <3>6. data = given
      BY <3>2, <3>3 DEF given
    <3>7. QED BY <3>3, <3>4, <3>5, <3>6
  <2> HIDE DEF o, body, data, given
  <2>5. disturbed' \in {disturbed, disturbed \cup {o}}
    BY <2>1
  <2>6. QED BY <1>4, <2>1, <2>3, <2>4, <2>5, WriteKeeps
<1>5. QED BY <1>3, <1>4

\* Below the parent that its path names, an object gets the whole document;
\* along any other path it is disturbed.
LEMMA SubPutKeeps ==
  ASSUME IInv, NEW r \in Req, SubPut(r)
  PROVE  IInv'
<1>1. PICK o \in spent, p \in Parent, body \in Documents :
        IF o \notin DOMAIN objects
        THEN Read(r, "idle", "reread", [Fresh EXCEPT !.id = o])
        ELSE /\ Go(r, "idle", "reread", [Fresh EXCEPT !.id = o], {o})
             /\ Store(o, objects[o].name, body)
             /\ last' = [last EXCEPT ![o] = body]
             /\ disturbed' = IF objects[o].parent = p THEN disturbed ELSE disturbed \cup {o}
             /\ UNCHANGED spent
  BY DEF SubPut
<1>2. TypeOK /\ o \in Obj
  BY DEF IInv, TypeOK
<1>3. CASE o \notin DOMAIN objects
  <2>1. [Fresh EXCEPT !.id = o] \in Locals /\ "reread" \in Points
    BY <1>2, FreshType, NothingType DEF Points
  <2>2. QED BY <1>1, <1>3, <2>1, ReadKeeps
<1>4. CASE o \in DOMAIN objects
  <2>1. objects[o].name \in Value \cup {Generated}
    BY <1>2, <1>4 DEF TypeOK, Rows
  <2>2. disturbed' \in {disturbed, disturbed \cup {o}}
    BY <1>1, <1>4
  <2>3. o \notin disturbed' => objects[o].parent # None
    BY <1>1, <1>4, NoneAssumption
  <2>4. QED BY <1>1, <1>4, <2>1, <2>2, <2>3, WriteKeeps
<1>5. QED BY <1>3, <1>4

\* PUT reads the row it is to merge its body into.
LEMMA PutReadKeeps ==
  ASSUME IInv, NEW r \in Req, PutRead(r)
  PROVE  IInv'
<1>1. PICK o \in spent, c \in Coll, body \in Documents :
        IF o \in DOMAIN objects /\ objects[o].coll = c /\ objects[o].parent = None
        THEN Read(r, "idle", "write", [Fresh EXCEPT !.id = o, !.body = body,
                                                    !.base = objects[o].data])
        ELSE Read(r, "idle", "done", [Fresh EXCEPT !.answer = "404"])
  BY DEF PutRead
<1>2. TypeOK /\ o \in Obj /\ {"write", "done"} \subseteq Points
  BY DEF IInv, TypeOK, Points
<1>3. CASE o \in DOMAIN objects /\ objects[o].coll = c /\ objects[o].parent = None
  <2> DEFINE locals == [Fresh EXCEPT !.id = o, !.body = body, !.base = objects[o].data]
  <2>1. objects[o].data \in Documents
    BY <1>2, <1>3 DEF TypeOK, Rows
  <2>2. locals \in Locals /\ locals.id = o /\ locals.base = objects[o].data
    <3>1. locals \in Locals
      BY <1>2, <2>1, FreshType
    <3>2. locals.id = o /\ locals.base = objects[o].data
      BY DEF Fresh
    <3>3. QED BY <3>1, <3>2
  <2>3. Read(r, "idle", "write", locals)
    BY <1>1, <1>3
  <2> HIDE DEF locals
  <2>4. QED BY <1>2, <1>3, <2>2, <2>3, ReadKeeps
<1>4. CASE ~(o \in DOMAIN objects /\ objects[o].coll = c /\ objects[o].parent = None)
  <2>1. [Fresh EXCEPT !.answer = "404"] \in Locals
    BY FreshType, NothingType
  <2>2. QED BY <1>1, <1>2, <1>4, <2>1, ReadKeeps
<1>5. QED BY <1>3, <1>4

\* The last statement of a request and its failures.
LEMMA EndKeeps ==
  ASSUME IInv, NEW r \in Req, Refuse(r) \/ Reread(r) \/ Fail(r)
  PROVE  IInv'
<1>1. rq[r] \in Locals /\ "done" \in Points
  BY DEF IInv, TypeOK, Points
<1>2. ASSUME NEW a \in {"ok", "404", "500"} PROVE [rq[r] EXCEPT !.answer = a] \in Locals
  BY <1>1 DEF Locals
<1>3. CASE Refuse(r)
  <2>1. [Fresh EXCEPT !.answer = "500"] \in Locals
    BY FreshType, NothingType
  <2>2. QED BY <1>1, <1>3, <2>1, ReadKeeps DEF Refuse
<1>4. CASE Reread(r)
  <2> DEFINE a == IF rq[r].id \in DOMAIN objects THEN "ok" ELSE "404"
  <2>1. [rq[r] EXCEPT !.answer = a] \in Locals
    BY <1>2
  <2>2. Read(r, "reread", "done", [rq[r] EXCEPT !.answer = a])
    BY <1>4 DEF Reread
  <2> HIDE DEF a
  <2>3. QED BY <1>1, <2>1, <2>2, ReadKeeps
<1>5. CASE Fail(r)
  <2>1. [rq[r] EXCEPT !.answer = "500"] \in Locals
    BY <1>2
  <2>2. QED BY <1>1, <1>5, <2>1, ReadKeeps DEF Fail
<1>6. QED BY <1>3, <1>4, <1>5

\* DELETE takes the row away.
LEMMA RemoveKeeps ==
  ASSUME IInv, Remove
  PROVE  IInv'
<1>1. PICK o \in DOMAIN objects : objects' = Delete(objects, {o})
  BY DEF Remove
<1>2. /\ DOMAIN objects' = DOMAIN objects \ {o}
      /\ \A x \in DOMAIN objects' : objects'[x] = objects[x]
      /\ objects' = [x \in DOMAIN objects \ {o} |-> objects[x]]
  BY <1>1 DEF Delete, Restrict
<1>3. UNCHANGED <<spent, pc, rq, last, disturbed>>
  BY DEF Remove
<1>4. TypeOK'
  BY <1>2, <1>3 DEF IInv, TypeOK
<1>5. UndisturbedKeeps'
  BY <1>2, <1>3 DEF IInv, UndisturbedKeeps
<1>6. \A q \in Req : ReadIsCurrent(q)'
  BY <1>2, <1>3 DEF IInv, ReadIsCurrent
<1>7. QED BY <1>4, <1>5, <1>6 DEF IInv

\* A restart loses the requests and no row.
LEMMA RestartKeeps ==
  ASSUME IInv, Restart
  PROVE  IInv'
<1>1. TypeOK'
  BY DEF IInv, TypeOK, Restart, Points
<1>2. UndisturbedKeeps'
  BY DEF IInv, UndisturbedKeeps, Restart
<1>3. \A q \in Req : ReadIsCurrent(q)'
  BY DEF IInv, ReadIsCurrent, Restart, InFlight
<1>4. QED BY <1>1, <1>2, <1>3 DEF IInv

-----------------------------------------------------------------------------
\* Theorems.

\* The seed is whole and no request holds a document yet.
LEMMA InitKeeps == Init => IInv
<1> SUFFICES ASSUME Init PROVE IInv
  OBVIOUS
<1>1. TypeOK
  BY SeedAssumption, NothingType DEF Init, TypeOK, Rows, Fresh, Locals, Points
<1>2. \A r \in Req : ReadIsCurrent(r)
  BY DEF Init, ReadIsCurrent
<1>3. UndisturbedKeeps
  <2>1. objects = Seed /\ last = [o \in DOMAIN Seed |-> Seed[o].data]
    BY DEF Init
  <2>2. QED BY <2>1, SeedAssumption DEF UndisturbedKeeps
<1>4. QED BY <1>1, <1>2, <1>3 DEF IInv

\* Every step keeps the invariant, by the lemma of its action.
LEMMA StepKeeps == IInv /\ [Next]_vars => IInv'
<1> SUFFICES ASSUME IInv, [Next]_vars PROVE IInv'
  OBVIOUS
<1>1. ASSUME NEW r \in Req, Refuse(r) \/ Reread(r) \/ Fail(r) PROVE IInv'
  BY <1>1, EndKeeps
<1>2. ASSUME NEW r \in Req, Post(r) PROVE IInv'
  BY <1>2, PostKeeps
<1>3. ASSUME NEW r \in Req, PutRead(r) PROVE IInv'
  BY <1>3, PutReadKeeps
<1>4. ASSUME NEW r \in Req, PutWrite(r) PROVE IInv'
  BY <1>4, PutWriteKeeps
<1>5. ASSUME NEW r \in Req, SubPut(r) PROVE IInv'
  BY <1>5, SubPutKeeps
<1>6. CASE Remove
  BY <1>6, RemoveKeeps
<1>7. CASE Restart
  BY <1>7, RestartKeeps
<1>8. CASE UNCHANGED vars
  BY <1>8 DEF vars, IInv, TypeOK, UndisturbedKeeps, ReadIsCurrent
<1>9. QED BY <1>1, <1>2, <1>3, <1>4, <1>5, <1>6, <1>7, <1>8 DEF Next, Quiet

\* The inductive invariant holds in every reachable state.
THEOREM Invariance == Spec => []IInv
<1>1. Init => IInv
  BY InitKeeps
<1>2. IInv /\ [Next]_vars => IInv'
  BY StepKeeps
<1>3. QED BY <1>1, <1>2, PTL DEF Spec

\* Every variable has its type.
THEOREM TypeCorrect == Spec => []TypeOK
<1>1. IInv => TypeOK
  BY DEF IInv
<1>2. QED BY <1>1, Invariance, PTL

\* Without races and foreign paths PUT is what it should be (PutRead,
\* PutWrite, SubPut): each field holds the value last given to it.
THEOREM UndisturbedPutsKeep == Spec => []UndisturbedKeeps
<1>1. IInv => UndisturbedKeeps
  BY DEF IInv
<1>2. QED BY <1>1, Invariance, PTL

HomeStep ==
  \A o \in spent :
    /\ o \in DOMAIN objects' => o \in DOMAIN objects
    /\ o \in DOMAIN objects \cap DOMAIN objects' =>
         /\ objects'[o].coll = objects[o].coll
         /\ objects'[o].parent = objects[o].parent

\* A write leaves every row where it is; a new row has a new id.
LEMMA StepKeepsHome == TypeOK /\ [Next]_vars => [HomeStep]_vars
<1> SUFFICES ASSUME TypeOK, Next PROVE HomeStep
  OBVIOUS
<1>1. ASSUME UNCHANGED objects PROVE HomeStep
  BY <1>1 DEF HomeStep
<1>2. ASSUME NEW r \in Req, Refuse(r) \/ PutRead(r) \/ Reread(r) \/ Fail(r) PROVE HomeStep
  BY <1>1, <1>2 DEF Refuse, PutRead, Reread, Fail, Read
<1>3. ASSUME NEW r \in Req, Post(r) PROVE HomeStep
  BY <1>3 DEF Post, Insert, HomeStep, TypeOK
<1>4. ASSUME NEW o \in DOMAIN objects, NEW name, NEW data, Store(o, name, data) PROVE HomeStep
  <2>1. objects \in [DOMAIN objects -> Rows]
    BY DEF TypeOK
  <2>2. QED BY <1>4, <2>1 DEF Store, HomeStep
<1>5. ASSUME NEW r \in Req, PutWrite(r) PROVE HomeStep
  <2>1. CASE rq[r].id \in DOMAIN objects
    BY <1>4, <1>5, <2>1 DEF PutWrite
  <2>2. CASE rq[r].id \notin DOMAIN objects
    BY <1>1, <1>5, <2>2 DEF PutWrite, Read
  <2>3. QED BY <2>1, <2>2
<1>6. ASSUME NEW r \in Req, SubPut(r) PROVE HomeStep
  <2>1. UNCHANGED objects \/ \E o \in DOMAIN objects, body \in Documents :
          Store(o, objects[o].name, body)
    BY <1>6 DEF SubPut, Read
  <2>2. QED BY <1>1, <1>4, <2>1
<1>7. CASE Remove
  BY <1>7 DEF Remove, Delete, Restrict, HomeStep
<1>8. CASE Restart
  BY <1>1, <1>8 DEF Restart
<1>9. CASE Quiet
  BY <1>1, <1>9 DEF Quiet, vars
<1>10. QED BY <1>2, <1>3, <1>5, <1>6, <1>7, <1>8, <1>9 DEF Next

\* An object never moves to another collection or parent, and one that was
\* deleted does not come back, though PutWrite and SubPut know only its id.
THEOREM HomesKept == Spec => HomeKept
<1>1. TypeOK /\ [Next]_vars => [HomeStep]_vars
  BY StepKeepsHome
<1>2. Spec => [][HomeStep]_vars
  BY <1>1, TypeCorrect, PTL DEF Spec
<1>3. QED BY <1>2 DEF HomeStep, HomeKept
=============================================================================
