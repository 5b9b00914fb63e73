-------------------------- MODULE EngineTree_proofs --------------------------
(***************************************************************************)
(* Proofs, for every estate, every set of ids, names and requests, of what *)
(* EngineTree states.  First what one INSERT, UPDATE and DELETE does to a  *)
(* tree, whoever runs it; then what a handler remembers when it runs it.   *)
(***************************************************************************)
EXTENDS EngineTree, TLAPS

-----------------------------------------------------------------------------
\* The schema and trees of rows.

\* The rows of a tree, and what makes them one.
Rows(objs) == DOMAIN objs \subseteq Id /\ objs \in [DOMAIN objs -> ObjectRow]

Sound(objs) ==
  \A o \in DOMAIN objs :
    /\ HasParent(objs, objs[o].kind, objs[o].up)
    /\ ~NameTaken(objs, objs[o].kind, objs[o].up, objs[o].name, {o})

\* No kind has an ancestor of the fourth generation.
LEMMA AboveFacts ==
  /\ \A k \in Kinds : Above[k] # None => Above[k] \in Kinds
  /\ \A k \in Kinds : Above[k] # None /\ Above[Above[k]] # None
                        => Above[Above[Above[k]]] = None
BY NoneAssumption DEF Kinds, Above

\* None is nobody's id, so a row without a parent is below no other.
LEMMA NoneIsNoId == None \notin Id
BY UnknownAssumption

\* INSERT of a row whose parent is there and whose name is free.
LEMMA InsertSound ==
  ASSUME NEW objs, Rows(objs), Sound(objs),
         NEW o \in Id, o \notin DOMAIN objs, NEW row \in ObjectRow,
         HasParent(objs, row.kind, row.up),
         ~NameTaken(objs, row.kind, row.up, row.name, {})
  PROVE  /\ Rows(Insert(objs, o, row)) /\ Sound(Insert(objs, o, row))
         /\ DOMAIN Insert(objs, o, row) = DOMAIN objs \cup {o}
         /\ Insert(objs, o, row)[o] = row
         /\ \A x \in DOMAIN objs : Insert(objs, o, row)[x] = objs[x]
<1> DEFINE new == Insert(objs, o, row)
<1>1. /\ DOMAIN new = DOMAIN objs \cup {o} /\ new[o] = row
      /\ \A x \in DOMAIN objs : new[x] = objs[x]
  BY DEF Insert
<1>2. new \in [DOMAIN new -> ObjectRow] /\ DOMAIN new \subseteq Id
  <2>1. \A x \in DOMAIN objs \cup {o} : (IF x = o THEN row ELSE objs[x]) \in ObjectRow
    BY DEF Rows
  <2> QED BY <2>1, <1>1 DEF Insert, Rows
<1> HIDE DEF new
<1>3. ASSUME NEW x \in DOMAIN new
      PROVE  HasParent(new, new[x].kind, new[x].up)
  <2>1. HasParent(objs, new[x].kind, new[x].up)
    BY <1>1 DEF Sound
  <2>2. \A k : Of(objs, k) \subseteq Of(new, k)
    BY <1>1 DEF Of
  <2> QED BY <2>1, <2>2 DEF HasParent
<1>4. ASSUME NEW x \in DOMAIN new
      PROVE  ~NameTaken(new, new[x].kind, new[x].up, new[x].name, {x})
  <2> SUFFICES ASSUME new[x].kind \notin Unnamed,
                      NEW y \in DOMAIN new, y # x, new[y].kind = new[x].kind,
                      new[y].name = new[x].name,
                      new[x].kind \in NamedOnce \/ new[y].up = new[x].up
               PROVE  FALSE
    BY DEF NameTaken, Of
  <2>1. CASE x = o
    BY <2>1, <1>1 DEF NameTaken, Of
  <2>2. CASE y = o
    BY <2>2, <1>1 DEF NameTaken, Of
  <2>3. CASE x # o /\ y # o
    BY <2>3, <1>1 DEF Sound, NameTaken, Of
  <2> QED BY <2>1, <2>2, <2>3
<1> QED BY <1>1, <1>2, <1>3, <1>4 DEF new, Rows, Sound

\* UPDATE of the name and the note, where the name is free or stays.
LEMMA ChangeSound ==
  ASSUME NEW objs, Rows(objs), Sound(objs), NEW o \in DOMAIN objs,
         NEW name \in Name, NEW note \in Note,
         name # objs[o].name =>
           ~NameTaken(objs, objs[o].kind, objs[o].up, name, {o}),
         NEW new, new = [objs EXCEPT ![o] = [kind |-> objs[o].kind, up |-> objs[o].up,
                                             name |-> name, note |-> note]]
  PROVE  /\ Rows(new) /\ Sound(new) /\ DOMAIN new = DOMAIN objs
         /\ \A x \in DOMAIN objs : new[x].kind = objs[x].kind /\ new[x].up = objs[x].up
         /\ \A x \in DOMAIN objs : x # o => new[x] = objs[x]
         /\ new[o].name = name /\ new[o].note = note
<1>1. /\ DOMAIN new = DOMAIN objs
      /\ new[o] = [kind |-> objs[o].kind, up |-> objs[o].up, name |-> name, note |-> note]
      /\ \A x \in DOMAIN objs : x # o => new[x] = objs[x]
  BY DEF Rows
<1>2. new[o] \in ObjectRow
  BY <1>1 DEF Rows, ObjectRow
<1>3. Rows(new)
  BY <1>1, <1>2 DEF Rows
<1>4. \A x \in DOMAIN objs : new[x].kind = objs[x].kind /\ new[x].up = objs[x].up
  BY <1>1
<1>5. \A k : Of(objs, k) = Of(new, k)
  BY <1>1, <1>4 DEF Of
<1>6. ASSUME NEW x \in DOMAIN new PROVE HasParent(new, new[x].kind, new[x].up)
  BY <1>1, <1>4, <1>5 DEF Sound, HasParent
<1>7. ASSUME NEW x \in DOMAIN new
      PROVE  ~NameTaken(new, new[x].kind, new[x].up, new[x].name, {x})
  <2> SUFFICES ASSUME objs[x].kind \notin Unnamed,
                      NEW y \in DOMAIN objs, y # x, objs[y].kind = objs[x].kind,
                      new[y].name = new[x].name,
                      objs[x].kind \in NamedOnce \/ objs[y].up = objs[x].up
               PROVE  FALSE
    BY <1>1, <1>4 DEF NameTaken, Of
  <2>1. ~NameTaken(objs, objs[x].kind, objs[x].up, objs[x].name, {x})
    BY <1>1 DEF Sound
  <2>2. ~NameTaken(objs, objs[y].kind, objs[y].up, objs[y].name, {y})
    BY DEF Sound
  <2>3. CASE x = o
    <3>1. objs[y].name = name
      BY <2>3, <1>1
    <3>2. CASE name = objs[o].name
      BY <2>1, <2>3, <3>1, <3>2 DEF NameTaken, Of
    <3>3. CASE name # objs[o].name
      BY <2>3, <3>1, <3>3 DEF NameTaken, Of
    <3> QED BY <3>2, <3>3
  <2>4. CASE y = o
    <3>1. objs[x].name = name
      BY <2>4, <1>1
    <3>2. CASE name = objs[o].name
      BY <2>2, <2>4, <3>1, <3>2, <1>1 DEF NameTaken, Of
    <3>3. CASE name # objs[o].name
      BY <2>4, <3>1, <3>3, <1>1 DEF NameTaken, Of
    <3> QED BY <3>2, <3>3
  <2>5. CASE x # o /\ y # o
    BY <2>1, <2>5, <1>1 DEF NameTaken, Of
  <2> QED BY <2>3, <2>4, <2>5
<1> QED BY <1>1, <1>3, <1>4, <1>6, <1>7 DEF Sound

\* DELETE of a row and of what the foreign keys take with it: three
\* generations are all there are.
LEMMA DeleteSound ==
  ASSUME NEW objs, Rows(objs), Sound(objs), NEW o \in DOMAIN objs,
         NEW new, new = Delete(objs, Subtree(objs, o))
  PROVE  /\ Rows(new) /\ Sound(new)
         /\ DOMAIN new = DOMAIN objs \ Subtree(objs, o)
         /\ \A x \in DOMAIN new : new[x] = objs[x]
<1> DEFINE sons == Children(objs, {o})
           gone == Subtree(objs, o)
<1>1. /\ DOMAIN new = DOMAIN objs \ gone
      /\ \A x \in DOMAIN new : new[x] = objs[x]
  BY DEF Delete, Restrict
<1>2. Rows(new)
  <2>1. \A x \in DOMAIN objs \ gone : objs[x] \in ObjectRow
    BY DEF Rows
  <2> QED BY <1>1, <2>1 DEF Rows, Delete, Restrict
<1>3. gone = {o} \cup sons \cup Children(objs, sons)
  BY DEF Subtree
<1>4. \A x \in DOMAIN objs : objs[x].up # None =>
        /\ objs[x].kind \in Kinds /\ objs[x].up \in DOMAIN objs
        /\ Above[objs[x].kind] # None
        /\ objs[objs[x].up].kind = Above[objs[x].kind]
  BY DEF Rows, Sound, HasParent, ObjectRow, Of
<1>5. \A x \in sons : x \in DOMAIN objs /\ objs[x].up = o
  BY DEF Children
<1>6. \A x \in Children(objs, sons) : x \in DOMAIN objs /\ objs[x].up \in sons
  BY DEF Children
<1>7. o # None
  BY NoneIsNoId DEF Rows
<1> HIDE DEF sons, gone
<1>8. ASSUME NEW x \in DOMAIN new, objs[x].up # None PROVE objs[x].up \in DOMAIN new
  <2>1. SUFFICES ASSUME objs[x].up \in gone PROVE FALSE
    BY <1>1, <1>4, <1>8
  <2>2. x \in DOMAIN objs /\ x \notin gone
    BY <1>1
  <2>3. objs[x].up # o
    BY <2>2, <1>3 DEF Children, sons
  <2>4. objs[x].up \notin sons
    BY <2>2, <1>3 DEF Children
  <2>5. PICK y \in Children(objs, sons) : y = objs[x].up
    BY <2>1, <2>3, <2>4, <1>3
  <2>6. PICK z \in sons : z = objs[y].up
    BY <1>6
  <2>7. /\ Above[objs[x].kind] = objs[y].kind /\ objs[x].kind \in Kinds
        /\ Above[objs[x].kind] # None
    BY <2>2, <2>5, <1>4, <1>8
  <2>8. z \in DOMAIN objs /\ z # None
    BY <2>6, <1>5, NoneIsNoId DEF Rows
  <2>9. Above[objs[y].kind] = objs[z].kind /\ Above[objs[y].kind] # None
    BY <2>6, <2>8, <1>4, <1>6
  <2>10. Above[objs[z].kind] # None
    BY <2>8, <1>4, <1>5, <1>7
  <2> QED BY <2>7, <2>9, <2>10, AboveFacts
<1>9. ASSUME NEW x \in DOMAIN new PROVE HasParent(new, new[x].kind, new[x].up)
  <2>1. HasParent(objs, objs[x].kind, objs[x].up) /\ new[x] = objs[x]
    BY <1>1 DEF Sound
  <2>2. CASE Above[objs[x].kind] = None
    BY <2>1, <2>2 DEF HasParent
  <2>3. CASE Above[objs[x].kind] # None
    <3>1. objs[x].up \in Of(objs, Above[objs[x].kind]) /\ objs[x].up # None
      BY <2>1, <2>3, NoneIsNoId DEF HasParent, Rows, Of
    <3> QED BY <2>1, <2>3, <3>1, <1>1, <1>8 DEF HasParent, Of
  <2> QED BY <2>2, <2>3
<1>10. ASSUME NEW x \in DOMAIN new
       PROVE  ~NameTaken(new, new[x].kind, new[x].up, new[x].name, {x})
  <2>1. ~NameTaken(objs, objs[x].kind, objs[x].up, objs[x].name, {x}) /\ new[x] = objs[x]
    BY <1>1 DEF Sound
  <2>2. \A k : Of(new, k) \subseteq Of(objs, k)
    BY <1>1 DEF Of
  <2> QED BY <2>1, <2>2, <1>1 DEF NameTaken, Of
<1> QED BY <1>1, <1>2, <1>9, <1>10 DEF Sound, gone

-----------------------------------------------------------------------------
\* The inductive invariant.

\* What a handler has established, or kept, at the statement it is about to
\* run: what it serves, and what it may rely on of what it read.
AtPoint(p, q) ==
  /\ p = "idle"   => q.op = None
  /\ p = "insert" => q.op = "add" /\ q.kind \in Kinds /\ q.name \in Name /\ q.id = None
  /\ p = "write"  => q.op = "put" /\ q.kind \in Kinds
  /\ p = "delete" => q.op = "remove" /\ q.kind \in Kinds
  /\ p = "attach" => /\ q.op = "attach" /\ q.up \in spent \cup {Unknown}
                     /\ q.id \in DOMAIN objects => objects[q.id].kind = "storage"
                     /\ q.up \in DOMAIN objects => objects[q.up].kind = "datacenter"
  /\ p \in {"find", "assign"} => q.op = "tag" /\ q.up \in Vm /\ q.through
  /\ p = "reread" => /\ q.op \in {"add", "put", "attach", "tag"}
                     /\ q.op = "tag" =>
                          /\ q.through
                          /\ <<q.id, q.up>> \in tagged \/ q.id \notin DOMAIN objects
  /\ p \in {"job", "step"} => q.op = "act"

\* What an answer says, NoResidue, GoneForGood and TagsTellTheTruth of one request.
AnswerHolds(q) ==
  /\ q.op = "add" /\ q.answer \in {"400", "404", "409"} => q.id \notin DOMAIN objects
  /\ q.op = "remove" /\ q.answer = "200" /\ q.id \in DOMAIN objects =>
       q.through /\ objects[q.id].up # q.up
  /\ q.op = "tag" /\ q.answer = "201" =>
       <<q.id, q.up>> \in tagged \/ q.id \notin DOMAIN objects

\* The row a handler read or was given has not become another: an id is
\* spent for good, and its row keeps its kind.
RowKnown(q) ==
  /\ q.id \in spent \cup {Unknown, None}
  /\ q.kind # None /\ q.id \in DOMAIN objects => objects[q.id].kind = q.kind

\* A handler goes through a parent only for kinds that have one, and a PUT
\* holds no value for a field its body does not name.
ScopeKnown(q) ==
  /\ q.through => q.up # None
  /\ q.through /\ q.kind # None => Above[q.kind] # None
  /\ q.op = "put" => /\ "name" \notin q.named => q.name = None
                     /\ "note" \notin q.named => q.note = None

Known(p, q) ==
  /\ p \in Points /\ q \in Locals
  /\ AtPoint(p, q)
  /\ p = "done" => AnswerHolds(q)
  /\ RowKnown(q)
  /\ ScopeKnown(q)

\* The tables alone.
TablesSound ==
  /\ Rows(objects) /\ Sound(objects)
  /\ DOMAIN objects \subseteq spent /\ spent \subseteq Id
  /\ links \in [DOMAIN links -> Attached]
  /\ DOMAIN links \subseteq Of(objects, "storage") \X Of(objects, "datacenter")
  /\ tagged \subseteq Id \X Vm
  /\ \A t \in tagged : t[1] \in Of(objects, "tag")

IInv ==
  /\ TablesSound
  /\ options \in BOOLEAN /\ steps \subseteq jobs /\ jobs \subseteq Req
  /\ pc \in [Req -> Points] /\ rq \in [Req -> Locals]
  /\ \A r \in Req : Known(pc[r], rq[r])
  /\ \A r \in Req : pc[r] = "step" => r \in jobs

-----------------------------------------------------------------------------
\* Steps.

\* A step leaves the ids, the kinds and the parents of what lives alone; what
\* is gone does not come back, and takes its tags along.
Stable ==
  /\ spent \subseteq spent'
  /\ \A o \in spent : o \in DOMAIN objects' =>
       /\ o \in DOMAIN objects
       /\ objects'[o].kind = objects[o].kind /\ objects'[o].up = objects[o].up
  /\ \A t \in tagged : t \in tagged' \/ t[1] \notin DOMAIN objects'

\* What a request knows stays true whatever the others do.
LEMMA KnownStays ==
  ASSUME TablesSound, Stable, TablesSound', NEW p, NEW q, Known(p, q)
  PROVE  Known(p, q)'
<1>1. \A o : o \in DOMAIN objects' /\ o \in spent \cup {Unknown, None} =>
        /\ o \in DOMAIN objects
        /\ objects'[o].kind = objects[o].kind /\ objects'[o].up = objects[o].up
  BY UnknownAssumption DEF TablesSound, Rows, Stable
<1>2. spent \subseteq spent'
  BY DEF Stable
<1>3. q.id \in spent \cup {Unknown, None}
  BY DEF Known, RowKnown
<1>4. <<q.id, q.up>> \in tagged => <<q.id, q.up>> \in tagged' \/ q.id \notin DOMAIN objects'
  BY DEF Stable
<1>5. AtPoint(p, q)'
  BY <1>1, <1>2, <1>3, <1>4 DEF Known, AtPoint
<1>6. p = "done" => AnswerHolds(q)'
  BY <1>1, <1>2, <1>3, <1>4 DEF Known, AnswerHolds
<1>7. RowKnown(q)'
  BY <1>1, <1>2, <1>3 DEF Known, RowKnown
<1>8. ScopeKnown(q)'
  BY DEF Known, ScopeKnown
<1> QED BY <1>5, <1>6, <1>7, <1>8 DEF Known

\* A step that keeps the tables sound, after which the request that made it
\* knows what it should, keeps the invariant.
LEMMA StepKeeps ==
  ASSUME IInv, NEW r \in Req, NEW from, NEW to, NEW q, Proceed(r, from, to, q),
         Stable, TablesSound', Known(to, q)', to = "step" => r \in jobs',
         UNCHANGED options, jobs \subseteq jobs', jobs' \subseteq Req, steps' \subseteq jobs'
  PROVE  IInv'
<1>1. to \in Points /\ q \in Locals
  BY DEF Known
<1>2. /\ pc' \in [Req -> Points] /\ rq' \in [Req -> Locals]
      /\ pc'[r] = to /\ rq'[r] = q
      /\ \A s \in Req : s # r => pc'[s] = pc[s] /\ rq'[s] = rq[s]
  BY <1>1 DEF Proceed, IInv
<1>3. ASSUME NEW s \in Req PROVE Known(pc[s], rq[s])' /\ (pc'[s] = "step" => s \in jobs')
  <2>1. CASE s = r
    BY <2>1, <1>2 DEF Known, AtPoint, AnswerHolds, RowKnown, ScopeKnown
  <2>2. CASE s # r
    <3>1. Known(pc[s], rq[s])
      BY DEF IInv
    <3> DEFINE p == pc[s]
               k == rq[s]
    <3>2. p = pc'[s] /\ k = rq'[s]
      BY <2>2, <1>2
    <3> QED BY <3>1, <3>2, <1>2, <2>2, KnownStays DEF IInv
  <2> QED BY <2>1, <2>2
<1> QED BY <1>2, <1>3 DEF IInv

\* A statement that changes no table.
LEMMA UnchangedSound ==
  ASSUME TablesSound, UNCHANGED tables
  PROVE  TablesSound' /\ Stable
<1>1. UNCHANGED <<objects, links, tagged, spent>>
  BY DEF tables
<1>2. Stable
  BY <1>1 DEF TablesSound, Stable
<1>3. TablesSound'
  BY <1>1 DEF TablesSound
<1> QED BY <1>2, <1>3

\* What a request would know at a point stays true when no table changes.
LEMMA KnownUnchanged ==
  ASSUME NEW p, NEW q, Known(p, q), UNCHANGED tables
  PROVE  Known(p, q)'
BY DEF tables, Known, AtPoint, AnswerHolds, RowKnown, ScopeKnown

\* A read that moves a request on keeps the invariant if the request then
\* knows what its point says; only JobInsert leads to "step".
LEMMA OnwardKeeps ==
  ASSUME IInv, NEW r \in Req, NEW from, NEW to, NEW q, Onward(r, from, to, q),
         Known(to, q), to # "step"
  PROVE  IInv'
<1>1. Proceed(r, from, to, q) /\ UNCHANGED <<tables, options, jobs, steps>>
  BY DEF Onward
<1>2. TablesSound' /\ Stable
  BY <1>1, UnchangedSound DEF IInv
<1>3. Known(to, q)'
  BY <1>1, KnownUnchanged
<1> QED BY <1>1, <1>2, <1>3, StepKeeps DEF IInv

\* The locals of a handler that only has its answer left.
LEMMA ClosingFields ==
  ASSUME NEW op, NEW id, NEW up, NEW a
  PROVE  /\ Closing(op, id, up, a).op = op /\ Closing(op, id, up, a).id = id
         /\ Closing(op, id, up, a).up = up /\ Closing(op, id, up, a).answer = a
         /\ Closing(op, id, up, a).kind = None
         /\ Closing(op, id, up, a).through = (up # None)
         /\ ScopeKnown(Closing(op, id, up, a))
BY DEF Closing, ScopeKnown

\* Those locals have their type.
LEMMA ClosingType ==
  ASSUME NEW op \in Crud \cup {"act", "attach", "tag", None},
         NEW id \in Id \cup {Unknown, None}, NEW up \in Id \cup Vm \cup {Unknown, None},
         NEW a \in Answers \cup {None}
  PROVE  Closing(op, id, up, a) \in Locals
BY DEF Closing, Locals, Both

\* A request refused before it did anything.
LEMMA RefuseKeeps ==
  ASSUME IInv, NEW r \in Req, NEW op \in {"get", "add", "put", "remove", "act", "attach", "tag"},
         NEW code \in Answers, Refuse(r, op, code), op = "remove" => code # "200"
  PROVE  IInv'
<1> DEFINE q == Closing(op, None, None, code)
<1>1. q \in Locals
  <2>1. /\ op \in Crud \cup {"act", "attach", "tag", None} /\ code \in Answers \cup {None}
        /\ None \in Id \cup {Unknown, None} /\ None \in Id \cup Vm \cup {Unknown, None}
    BY DEF Crud, Reads
  <2> QED BY <2>1, ClosingType
<1>2. /\ ScopeKnown(q)
      /\ q.op = op /\ q.id = None /\ q.up = None /\ q.answer = code /\ q.kind = None
  BY ClosingFields
<1> HIDE DEF q
<1>3. None \notin DOMAIN objects
  BY NoneIsNoId DEF IInv, TablesSound, Rows
<1>4. Known("done", q)
  BY <1>1, <1>3, <1>2 DEF Known, AtPoint, AnswerHolds, RowKnown, Points
<1> QED BY <1>4, OnwardKeeps DEF Refuse, q

\* What a handler keeps of its locals for the answer.
LEMMA TailFacts ==
  ASSUME IInv, NEW r \in Req, NEW code \in Answers
  PROVE  /\ Tail(r, code) \in Locals /\ ScopeKnown(Tail(r, code)) /\ RowKnown(Tail(r, code))
         /\ Tail(r, code).op = rq[r].op /\ Tail(r, code).id = rq[r].id
         /\ Tail(r, code).kind = None /\ Tail(r, code).answer = code
         /\ rq[r].through => Tail(r, code).up = rq[r].up /\ Tail(r, code).through
<1>1. Known(pc[r], rq[r])
  BY DEF IInv
<1> DEFINE up == IF rq[r].through THEN rq[r].up ELSE None
           q == Tail(r, code)
<1>2. /\ rq[r].op \in Crud \cup {"act", "attach", "tag", None}
      /\ rq[r].id \in Id \cup {Unknown, None} /\ up \in Id \cup Vm \cup {Unknown, None}
  BY <1>1 DEF Known, Locals
<1>3. q = Closing(rq[r].op, rq[r].id, up, code)
  BY DEF Tail
<1>4. rq[r].through => up = rq[r].up /\ up # None
  BY <1>1 DEF Known, ScopeKnown
<1> HIDE DEF q, up
<1>5. q \in Locals
  <2>1. code \in Answers \cup {None}
    OBVIOUS
  <2> QED BY <1>2, <1>3, <2>1, ClosingType
<1>6. /\ ScopeKnown(q)
      /\ q.op = rq[r].op /\ q.id = rq[r].id /\ q.up = up /\ q.answer = code /\ q.kind = None
      /\ q.through = (up # None)
  BY <1>3, ClosingFields
<1>7. RowKnown(q)
  BY <1>1, <1>6 DEF Known, RowKnown
<1> QED BY <1>4, <1>5, <1>6, <1>7 DEF q

\* A request answered where it is.
LEMMA OutcomeKeeps ==
  ASSUME IInv, NEW r \in Req, NEW from, NEW code \in Answers, Outcome(r, from, code),
         rq[r].op = "remove" => code # "200",
         rq[r].op = "add" /\ code \in {"400", "404", "409"} => rq[r].id \notin DOMAIN objects,
         rq[r].op = "tag" /\ code = "201" =>
           <<rq[r].id, rq[r].up>> \in tagged \/ rq[r].id \notin DOMAIN objects,
         rq[r].op = "tag" => rq[r].through
  PROVE  IInv'
<1>1. PICK q : q = Tail(r, code)
  OBVIOUS
<1>2. /\ q \in Locals /\ ScopeKnown(q) /\ RowKnown(q)
      /\ q.op = rq[r].op /\ q.id = rq[r].id /\ q.answer = code
      /\ rq[r].through => q.up = rq[r].up
  BY <1>1, TailFacts
<1>3. Known("done", q)
  BY <1>2 DEF Known, AtPoint, AnswerHolds, Points
<1> QED BY <1>1, <1>3, OnwardKeeps DEF Outcome

-----------------------------------------------------------------------------
\* The handlers of _dispatch and what they begin with.

\* What all handlers share.
RouteOK(h) ==
  /\ h.kind \in Kinds /\ h.through \in BOOLEAN /\ h.guarded \in BOOLEAN
  /\ h.plain \in BOOLEAN
  /\ h.through => Above[h.kind] # None
  /\ h.options \subseteq BOOLEAN /\ h.fields \subseteq Both

\* A handler over a kind of the schema, nested or guarded where it has a parent.
LEMMA HandlerOK ==
  ASSUME NEW kind \in Kinds, NEW options_, options_ \subseteq BOOLEAN, NEW does, NEW checked,
         NEW fields, fields \subseteq Both
  PROVE  /\ RouteOK(Handler(kind, options_, does, checked, fields))
         /\ Above[kind] # None =>
              /\ RouteOK(Nested(Handler(kind, options_, does, checked, fields)))
              /\ RouteOK(Guarded(Handler(kind, options_, does, checked, fields)))
BY DEF RouteOK, Handler, Nested, Guarded

\* The kinds, and those among them that handlers reach through a parent.
LEMMA KindFacts ==
  /\ {"datacenter", "network", "profile", "host", "storage", "connection", "group", "user",
      "domain", "permission", "event", "quota", "affinity", "role", "tag", "bookmark",
      "cluster"} = Kinds
  /\ \A k \in {"cluster", "network", "quota", "affinity", "profile", "user", "group"} :
       Above[k] # None
BY NoneAssumption DEF Kinds, Above

\* Every handler of _dispatch is one of those.
LEMMA RouteFacts ==
  ASSUME NEW h \in Routes
  PROVE  RouteOK(h)
<1>1. /\ Always \subseteq BOOLEAN /\ Maybe \subseteq BOOLEAN /\ Never \subseteq BOOLEAN
      /\ {} \subseteq Both /\ {"name"} \subseteq Both /\ Both \subseteq Both
  BY DEF Always, Maybe, Never, Both
<1>2. CASE h \in {DataCenters, Clusters, Networks, Profiles, Hosts, Storage, Connections}
  BY <1>1, <1>2, HandlerOK, KindFacts
     DEF DataCenters, Clusters, Networks, Profiles, Hosts, Storage, Connections
<1>3. CASE h \in {Groups, Users, Domains, Permissions, Events, TopQuotas, TopAffinity}
  BY <1>1, <1>3, HandlerOK, KindFacts
     DEF Groups, Users, Domains, Permissions, Events, TopQuotas, TopAffinity
<1>4. CASE h \in {DcClusters, DcNetworks, DomainUsers, DomainGroups}
  BY <1>1, <1>4, HandlerOK, KindFacts DEF DcClusters, DcNetworks, DomainUsers, DomainGroups
<1>5. CASE h \in {DcQuotas, Affinity, NetProfiles}
  BY <1>1, <1>5, HandlerOK, KindFacts DEF DcQuotas, Affinity, NetProfiles
<1>6. ASSUME NEW kind \in {"role", "tag", "bookmark"}, h = SimpleTable(kind)
      PROVE  RouteOK(h)
  <2> DEFINE base == Handler(kind, Never, Crud, {}, Both)
  <2>1. RouteOK(base)
    BY <1>1, HandlerOK, KindFacts
  <2>2. h = [base EXCEPT !.plain = TRUE]
    BY <1>6 DEF SimpleTable
  <2> QED BY <2>1, <2>2 DEF RouteOK, Handler
<1> QED BY <1>2, <1>3, <1>4, <1>5, <1>6 DEF Routes

-----------------------------------------------------------------------------
\* The statements that begin a request.

\* The ids a client can name, and the parents a URL can go through.
LEMMA MeantFacts ==
  ASSUME TablesSound, NEW k \in Kinds
  PROVE  /\ Meant(k) \subseteq spent \cup {Unknown}
         /\ \A x \in Meant(k) : x # None /\ x \in Id \cup {Unknown}
         /\ \A x \in Meant(k) : x \in DOMAIN objects => objects[x].kind = k
<1>1. k # None
  BY NoneAssumption
<1>2. Meant(k) = Of(objects, k) \cup {Unknown}
  BY <1>1 DEF Meant
<1> QED BY <1>2, UnknownAssumption DEF TablesSound, Rows, Of

\* A parent in a URL is an id, and is there wherever the URL has one.
LEMMA ScopeFacts ==
  ASSUME TablesSound, NEW h \in Routes, NEW up \in Scopes(h) \cup Parents(h)
  PROVE  up \in Id \cup {Unknown, None} /\ (h.through => up # None)
<1>1. RouteOK(h)
  BY RouteFacts
<1>2. CASE Above[h.kind] = None
  <2>1. ~h.through
    BY <1>1, <1>2 DEF RouteOK
  <2> QED BY <1>2, <2>1 DEF Scopes, Parents
<1>3. CASE Above[h.kind] # None
  <2>1. Above[h.kind] \in Kinds
    BY <1>1, <1>3, AboveFacts DEF RouteOK
  <2>2. Scopes(h) \subseteq IF h.through THEN Meant(Above[h.kind]) ELSE {None}
    BY DEF Scopes
  <2>3. Parents(h) \subseteq IF h.through THEN Meant(Above[h.kind])
                             ELSE Meant(Above[h.kind]) \cup {None}
    BY <1>3 DEF Parents
  <2> QED BY <2>1, <2>2, <2>3, MeantFacts
<1> QED BY <1>2, <1>3

\* What a handler that still has to write holds.
LEMMA WorkingKnown ==
  ASSUME TablesSound, NEW h \in Routes, NEW op, op \in {"add", "put", "remove"},
         NEW id, id \in Meant(h.kind) \cup {None}, NEW up, up \in Id \cup {Unknown, None},
         h.through => up # None, NEW reads, reads \in BOOLEAN,
         NEW named, named \subseteq Both,
         NEW n, n \in Name \cup {None}, NEW t, t \in Note \cup {None},
         op = "put" => ("name" \notin named => n = None) /\ ("note" \notin named => t = None),
         NEW q, q = [op |-> op, kind |-> h.kind, through |-> h.through, reads |-> reads,
                     plain |-> h.plain, id |-> id, up |-> up, named |-> named, name |-> n,
                     note |-> t, answer |-> None]
  PROVE  q \in Locals /\ RowKnown(q) /\ ScopeKnown(q)
<1>1. RouteOK(h)
  BY RouteFacts
<1>2. id \in spent \cup {Unknown, None} /\ id \in Id \cup {Unknown, None}
  BY <1>1, MeantFacts DEF RouteOK
<1>3. id \in DOMAIN objects => objects[id].kind = h.kind
  BY <1>1, MeantFacts, NoneIsNoId DEF RouteOK, TablesSound, Rows
<1>4. q \in Locals
  BY <1>1, <1>2 DEF Locals, RouteOK, Crud, Reads
<1>5. RowKnown(q)
  BY <1>2, <1>3 DEF RowKnown
<1>6. ScopeKnown(q)
  BY <1>1 DEF ScopeKnown, RouteOK
<1> QED BY <1>4, <1>5, <1>6

\* POST: the body and the parent have been read, nothing is written yet.
LEMMA AddBeginKeeps ==
  ASSUME IInv, NEW r \in Req, AddBegin(r)
  PROVE  IInv'
<1>1. PICK h \in Routes : \E up \in Parents(h), n \in Name, reads \in h.options :
        IF Missing(h, up) THEN Refuse(r, "add", "404")
        ELSE Onward(r, "idle", "insert",
                    [Working(h, "add", None, up) EXCEPT !.name = n, !.reads = reads])
  BY DEF AddBegin
<1>2. PICK up \in Parents(h), n \in Name, reads \in h.options :
        IF Missing(h, up) THEN Refuse(r, "add", "404")
        ELSE Onward(r, "idle", "insert",
                    [Working(h, "add", None, up) EXCEPT !.name = n, !.reads = reads])
  BY <1>1
<1>3. CASE Missing(h, up)
  BY <1>2, <1>3, RefuseKeeps DEF Answers
<1>4. CASE ~Missing(h, up)
  <2>1. PICK q : q = [Working(h, "add", None, up) EXCEPT !.name = n, !.reads = reads]
    OBVIOUS
  <2>2. q = [op |-> "add", kind |-> h.kind, through |-> h.through, reads |-> reads,
             plain |-> h.plain, id |-> None, up |-> up, named |-> {}, name |-> n,
             note |-> None, answer |-> None]
    BY <2>1, ZenonT(60) DEF Working, Closing
  <2>3. up \in Id \cup {Unknown, None} /\ (h.through => up # None) /\ reads \in BOOLEAN
    BY ScopeFacts, RouteFacts DEF IInv, RouteOK
  <2>4. q \in Locals /\ RowKnown(q) /\ ScopeKnown(q)
    BY <2>2, <2>3, WorkingKnown DEF IInv
  <2>5. q.kind \in Kinds
    BY <2>2, RouteFacts DEF RouteOK
  <2>6. Known("insert", q)
    BY <2>2, <2>4, <2>5 DEF Known, AtPoint, Points
  <2>7. Onward(r, "idle", "insert", q)
    BY <1>2, <1>4, <2>1
  <2> QED BY <2>6, <2>7, OnwardKeeps
<1> QED BY <1>3, <1>4

\* PUT: the handler holds the values its body names, null for the others.
LEMMA PutBeginKeeps ==
  ASSUME IInv, NEW r \in Req, PutBegin(r)
  PROVE  IInv'
<1>1. PICK h \in Routes : \E id \in Meant(h.kind), up \in Scopes(h), named \in SUBSET h.fields :
        IF "put" \in h.checked /\ id \notin DOMAIN objects THEN Refuse(r, "put", "404")
        ELSE \E n \in Given("name", named, Name), t \in Given("note", named, Note) :
          Onward(r, "idle", "write",
                 [Working(h, "put", id, up) EXCEPT !.named = named, !.name = n, !.note = t])
  BY DEF PutBegin
<1>2. PICK id \in Meant(h.kind), up \in Scopes(h), named \in SUBSET h.fields :
        IF "put" \in h.checked /\ id \notin DOMAIN objects THEN Refuse(r, "put", "404")
        ELSE \E n \in Given("name", named, Name), t \in Given("note", named, Note) :
          Onward(r, "idle", "write",
                 [Working(h, "put", id, up) EXCEPT !.named = named, !.name = n, !.note = t])
  BY <1>1
<1>3. CASE "put" \in h.checked /\ id \notin DOMAIN objects
  BY <1>2, <1>3, RefuseKeeps DEF Answers
<1>4. CASE ~("put" \in h.checked /\ id \notin DOMAIN objects)
  <2>1. PICK n \in Given("name", named, Name), t \in Given("note", named, Note) :
          Onward(r, "idle", "write",
                 [Working(h, "put", id, up) EXCEPT !.named = named, !.name = n, !.note = t])
    BY <1>2, <1>4
  <2>2. PICK q : q = [Working(h, "put", id, up) EXCEPT !.named = named, !.name = n, !.note = t]
    OBVIOUS
  <2>3. q = [op |-> "put", kind |-> h.kind, through |-> h.through, reads |-> FALSE,
             plain |-> h.plain, id |-> id, up |-> up, named |-> named, name |-> n,
             note |-> t, answer |-> None]
    BY <2>2, ZenonT(60) DEF Working, Closing
  <2>4. /\ n \in Name \cup {None} /\ t \in Note \cup {None}
        /\ "name" \notin named => n = None
        /\ "note" \notin named => t = None
    BY DEF Given
  <2>5. up \in Id \cup {Unknown, None} /\ (h.through => up # None)
    BY ScopeFacts DEF IInv
  <2>6. named \subseteq Both
    BY RouteFacts DEF RouteOK
  <2>7. q \in Locals /\ RowKnown(q) /\ ScopeKnown(q)
    <3>1. "put" \in {"add", "put", "remove"} /\ id \in Meant(h.kind) \cup {None} /\ FALSE \in BOOLEAN
      OBVIOUS
    <3>2. TablesSound
      BY DEF IInv
    <3> QED BY <2>3, <2>4, <2>5, <2>6, <3>1, <3>2, WorkingKnown
  <2>8. q.kind \in Kinds
    BY <2>3, RouteFacts DEF RouteOK
  <2>9. Known("write", q)
    BY <2>3, <2>7, <2>8 DEF Known, AtPoint, Points
  <2>10. Onward(r, "idle", "write", q)
    BY <2>1, <2>2
  <2> QED BY <2>9, <2>10, OnwardKeeps
<1> QED BY <1>3, <1>4

\* DELETE: the row may have been seen, and may be gone when it is deleted.
LEMMA RemoveBeginKeeps ==
  ASSUME IInv, NEW r \in Req, RemoveBegin(r)
  PROVE  IInv'
<1>1. PICK h \in Routes : \E id \in Meant(h.kind), up \in Scopes(h) :
        \/ Refuse(r, "remove", "404")
        \/ Onward(r, "idle", "delete", Working(h, "remove", id, up))
  BY DEF RemoveBegin
<1>2. PICK id \in Meant(h.kind), up \in Scopes(h) :
        \/ Refuse(r, "remove", "404")
        \/ Onward(r, "idle", "delete", Working(h, "remove", id, up))
  BY <1>1
<1>3. CASE Refuse(r, "remove", "404")
  BY <1>3, RefuseKeeps DEF Answers
<1>4. CASE Onward(r, "idle", "delete", Working(h, "remove", id, up))
  <2>1. PICK q : q = Working(h, "remove", id, up)
    OBVIOUS
  <2>2. q = [op |-> "remove", kind |-> h.kind, through |-> h.through, reads |-> FALSE,
             plain |-> h.plain, id |-> id, up |-> up, named |-> {}, name |-> None,
             note |-> None, answer |-> None]
    BY <2>1, ZenonT(60) DEF Working, Closing
  <2>3. up \in Id \cup {Unknown, None} /\ (h.through => up # None)
    BY ScopeFacts DEF IInv
  <2>4. q \in Locals /\ RowKnown(q) /\ ScopeKnown(q)
    BY <2>2, <2>3, WorkingKnown DEF IInv
  <2>5. q.kind \in Kinds
    BY <2>2, RouteFacts DEF RouteOK
  <2>6. Known("delete", q)
    BY <2>2, <2>4, <2>5 DEF Known, AtPoint, Points
  <2>7. Onward(r, "idle", "delete", q)
    BY <1>4, <2>1
  <2> QED BY <2>6, <2>7, OnwardKeeps
<1> QED BY <1>2, <1>3, <1>4

\* A GET changes nothing, whatever it reads.
LEMMA ReadsKeep ==
  ASSUME IInv, NEW r \in Req, Read(r) \/ ReadClusterNetworks(r) \/ ReadJobs(r) \/ ReadLink(r)
  PROVE  IInv'
<1>1. CASE Read(r)
  BY <1>1, RefuseKeeps DEF Read, Found, Listed, Answers
<1>2. CASE ReadClusterNetworks(r)
  BY <1>2, RefuseKeeps DEF ReadClusterNetworks, ClusterNetwork, Answers
<1>3. CASE ReadJobs(r)
  BY <1>3, RefuseKeeps DEF ReadJobs, Answers
<1>4. CASE ReadLink(r)
  <2> DEFINE status(s, d) == IF <<s, d>> \in DOMAIN links THEN "200" ELSE "404"
  <2>1. PICK code \in {"200"} \cup {status(s, d) : s \in Meant("storage"), d \in Meant("datacenter")} :
          Refuse(r, "get", code)
    BY <1>4 DEF ReadLink
  <2>2. \A s, d : status(s, d) \in {"200", "404"}
    OBVIOUS
  <2> HIDE DEF status
  <2>3. code \in {"200", "404"}
    BY <2>2
  <2> QED BY <2>1, <2>3, RefuseKeeps DEF Answers
<1> QED BY <1>1, <1>2, <1>3, <1>4

\* The ends of an attachment were a storage domain and a data center.
LEMMA AttachBeginKeeps ==
  ASSUME IInv, NEW r \in Req, AttachBegin(r)
  PROVE  IInv'
<1>1. PICK s \in Meant("storage") \cup {None}, d \in Meant("datacenter") :
        IF s = None THEN Refuse(r, "attach", "400")
        ELSE Onward(r, "idle", "attach", Closing("attach", s, d, None))
  BY DEF AttachBegin
<1>2. CASE s = None
  BY <1>1, <1>2, RefuseKeeps DEF Answers
<1>3. CASE s # None
  <2>1. /\ s \in spent \cup {Unknown} /\ s \in Id \cup {Unknown, None}
        /\ s \in DOMAIN objects => objects[s].kind = "storage"
    BY <1>3, MeantFacts, KindFacts DEF IInv
  <2>2. /\ d \in spent \cup {Unknown} /\ d \in Id \cup Vm \cup {Unknown, None}
        /\ d \in DOMAIN objects => objects[d].kind = "datacenter"
    BY MeantFacts, KindFacts DEF IInv
  <2>3. PICK q : q = Closing("attach", s, d, None)
    OBVIOUS
  <2>4. q \in Locals
    BY <2>1, <2>2, <2>3, ClosingType
  <2>5. q.op = "attach" /\ q.id = s /\ q.up = d /\ q.kind = None /\ ScopeKnown(q)
    BY <2>3, ClosingFields
  <2>6. Known("attach", q)
    BY <2>1, <2>2, <2>4, <2>5 DEF Known, AtPoint, RowKnown, Points
  <2> QED BY <1>1, <1>3, <2>3, <2>6, OnwardKeeps
<1> QED BY <1>2, <1>3

\* A tag given by its id is not looked at before the assignment.
LEMMA TagByIdKeeps ==
  ASSUME IInv, NEW r \in Req, TagById(r)
  PROVE  IInv'
<1>1. PICK t \in Meant("tag"), v \in Vm : Onward(r, "idle", "assign", Closing("tag", t, v, None))
  BY DEF TagById
<1>2. t \in spent \cup {Unknown} /\ t \in Id \cup {Unknown, None}
  BY MeantFacts, KindFacts DEF IInv
<1>3. PICK q : q = Closing("tag", t, v, None)
  OBVIOUS
<1>4. q \in Locals
  BY <1>2, <1>3, ClosingType
<1>5. q.op = "tag" /\ q.id = t /\ q.up = v /\ q.kind = None /\ ScopeKnown(q) /\ q.through
  <2>1. v # None
    BY NoneAssumption
  <2>2. q.through = (v # None)
    BY <1>3, ClosingFields
  <2>3. q.through
    BY <2>1, <2>2
  <2> QED BY <1>3, <2>3, ClosingFields
<1>6. Known("assign", q)
  BY <1>2, <1>4, <1>5 DEF Known, AtPoint, RowKnown, Points
<1> QED BY <1>1, <1>3, <1>6, OnwardKeeps

\* Actions that only write a job.
LEMMA ActKeeps ==
  ASSUME IInv, NEW r \in Req, Act(r)
  PROVE  IInv'
<1>1. PICK q : q = Closing("act", None, None, "200")
  OBVIOUS
<1>2. q \in Locals
  BY <1>1, ClosingType DEF Answers
<1>3. q.op = "act" /\ q.id = None /\ q.kind = None /\ ScopeKnown(q)
  BY <1>1, ClosingFields
<1>4. Known("job", q)
  BY <1>2, <1>3 DEF Known, AtPoint, RowKnown, Points
<1> QED BY <1>1, <1>4, OnwardKeeps DEF Act

\* A step that leaves the objects alone, where the links stay between the
\* same ends and the assignments those of tags.
LEMMA OtherTables ==
  ASSUME TablesSound, UNCHANGED <<objects, spent>>,
         links' \in [DOMAIN links' -> Attached],
         DOMAIN links' \subseteq Of(objects, "storage") \X Of(objects, "datacenter"),
         tagged \subseteq tagged', tagged' \subseteq Of(objects, "tag") \X Vm
  PROVE  TablesSound' /\ Stable
<1>1. Stable
  BY DEF TablesSound, Stable
<1>2. Of(objects, "tag") \subseteq Id
  BY DEF TablesSound, Rows, Of
<1>3. TablesSound'
  BY <1>2 DEF TablesSound
<1> QED BY <1>1, <1>3

\* The assignments are those of tags there are.
LEMMA TagsOfTags ==
  ASSUME TablesSound
  PROVE  tagged \subseteq Of(objects, "tag") \X Vm
BY DEF TablesSound

\* UPDATE of an attachment: the same pairs, another status at most.
LEMMA SwitchLinkKeeps ==
  ASSUME IInv, NEW r \in Req, SwitchLink(r)
  PROVE  IInv'
<1>1. PICK s \in Meant("storage"), d \in Meant("datacenter"), status \in Attached :
        IF ~options THEN Refuse(r, "act", "500")
        ELSE /\ Proceed(r, "idle", "job", Closing("act", None, None, "200"))
             /\ links' = [l \in DOMAIN links |-> IF l = <<s, d>> THEN status ELSE links[l]]
             /\ UNCHANGED <<objects, tagged, spent, options, jobs, steps>>
  BY DEF SwitchLink
<1>2. CASE ~options
  BY <1>1, <1>2, RefuseKeeps DEF Answers
<1>3. CASE options
  <2>1. /\ Proceed(r, "idle", "job", Closing("act", None, None, "200"))
        /\ links' = [l \in DOMAIN links |-> IF l = <<s, d>> THEN status ELSE links[l]]
        /\ UNCHANGED <<objects, tagged, spent, options, jobs, steps>>
    BY <1>1, <1>3
  <2>2. DOMAIN links' = DOMAIN links /\ links' \in [DOMAIN links' -> Attached]
    BY <2>1 DEF IInv, TablesSound
  <2>3. TablesSound' /\ Stable
    BY <2>1, <2>2, OtherTables, TagsOfTags DEF IInv, TablesSound
  <2>4. PICK q : q = Closing("act", None, None, "200")
    OBVIOUS
  <2>5. q \in Locals
    BY <2>4, ClosingType DEF Answers
  <2>6. q.op = "act" /\ q.id = None /\ q.kind = None /\ ScopeKnown(q)
    BY <2>4, ClosingFields
  <2>7. Known("job", q)'
    BY <2>5, <2>6 DEF Known, AtPoint, RowKnown, Points, ScopeKnown
  <2> QED BY <2>1, <2>3, <2>4, <2>7, StepKeeps DEF IInv
<1> QED BY <1>2, <1>3

\* DELETE of an attachment, whether it is there or not.
LEMMA DetachKeeps ==
  ASSUME IInv, NEW r \in Req, Detach(r)
  PROVE  IInv'
<1>1. PICK s \in Meant("storage"), d \in Meant("datacenter"), code \in {"200", "500"} :
        /\ Proceed(r, "idle", "done", Closing("remove", None, None, code))
        /\ links' = Delete(links, {<<s, d>>})
        /\ UNCHANGED <<objects, tagged, spent, options, jobs, steps>>
  BY DEF Detach
<1>2. /\ DOMAIN links' = DOMAIN links \ {<<s, d>>}
      /\ \A l \in DOMAIN links' : links'[l] = links[l]
      /\ links' = [l \in DOMAIN links' |-> links'[l]]
  BY <1>1 DEF Delete, Restrict
<1>3. links' \in [DOMAIN links' -> Attached]
  BY <1>2 DEF IInv, TablesSound
<1>4. TablesSound' /\ Stable
  BY <1>1, <1>2, <1>3, OtherTables, TagsOfTags DEF IInv, TablesSound
<1>5. PICK q : q = Closing("remove", None, None, code)
  OBVIOUS
<1>6. q \in Locals
  BY <1>5, ClosingType DEF Answers, Crud
<1>7. q.op = "remove" /\ q.id = None /\ q.kind = None /\ ScopeKnown(q)
  BY <1>5, ClosingFields
<1>8. None \notin DOMAIN objects'
  BY <1>1, NoneIsNoId DEF IInv, TablesSound, Rows
<1>9. Known("done", q)'
  BY <1>6, <1>7, <1>8 DEF Known, AtPoint, AnswerHolds, RowKnown, Points, ScopeKnown
<1> QED BY <1>1, <1>4, <1>5, <1>9, StepKeeps DEF IInv

-----------------------------------------------------------------------------
\* What INSERT, UPDATE and DELETE do to the tables together.

\* An INSERT under an id never used: nothing that was there changes.
LEMMA InsertTables ==
  ASSUME TablesSound, NEW o \in Id, o \notin spent, NEW row, row.kind \in Kinds,
         row = [kind |-> row.kind, up |-> row.up, name |-> row.name, note |-> row.note],
         row.name \in Name, row.note \in Note,
         HasParent(objects, row.kind, row.up),
         ~NameTaken(objects, row.kind, row.up, row.name, {}),
         objects' = Insert(objects, o, row), spent' = spent \cup {o},
         UNCHANGED <<links, tagged>>
  PROVE  TablesSound' /\ Stable /\ o \in DOMAIN objects'
<1>1. row \in ObjectRow
  <2>1. row.up \in Id \cup {None}
    BY DEF HasParent, Of, TablesSound, Rows
  <2> QED BY <2>1 DEF ObjectRow
<1>2. o \notin DOMAIN objects
  BY DEF TablesSound
<1>3. /\ Rows(objects') /\ Sound(objects') /\ DOMAIN objects' = DOMAIN objects \cup {o}
      /\ \A x \in DOMAIN objects : objects'[x] = objects[x]
  <2>1. Rows(objects) /\ Sound(objects)
    BY DEF TablesSound
  <2>2. /\ Rows(Insert(objects, o, row)) /\ Sound(Insert(objects, o, row))
        /\ DOMAIN Insert(objects, o, row) = DOMAIN objects \cup {o}
        /\ \A x \in DOMAIN objects : Insert(objects, o, row)[x] = objects[x]
    BY <1>1, <1>2, <2>1, InsertSound, Zenon
  <2> QED BY <2>2
<1>4. Stable
  BY <1>3 DEF Stable
<1>5. \A k : Of(objects, k) \subseteq Of(objects', k)
  BY <1>3 DEF Of
<1>6. TablesSound'
  <2>1. DOMAIN objects' \subseteq spent' /\ spent' \subseteq Id
    BY <1>3 DEF TablesSound
  <2>2. DOMAIN links' \subseteq Of(objects', "storage") \X Of(objects', "datacenter")
    BY <1>5 DEF TablesSound
  <2>3. \A t \in tagged' : t[1] \in Of(objects', "tag")
    BY <1>5 DEF TablesSound
  <2> QED BY <1>3, <2>1, <2>2, <2>3 DEF TablesSound
<1> QED BY <1>3, <1>4, <1>6

\* An UPDATE: kinds and parents stay, so the links and tags stay right.
LEMMA ChangeTables ==
  ASSUME TablesSound, NEW o \in DOMAIN objects, NEW name \in Name, NEW note \in Note,
         name # objects[o].name =>
           ~NameTaken(objects, objects[o].kind, objects[o].up, name, {o}),
         objects' = [objects EXCEPT ![o] = [kind |-> objects[o].kind, up |-> objects[o].up,
                                            name |-> name, note |-> note]],
         UNCHANGED <<links, tagged, spent>>
  PROVE  TablesSound' /\ Stable
<1>1. /\ Rows(objects') /\ Sound(objects') /\ DOMAIN objects' = DOMAIN objects
      /\ \A x \in DOMAIN objects : /\ objects'[x].kind = objects[x].kind
                                   /\ objects'[x].up = objects[x].up
  <2>1. Rows(objects) /\ Sound(objects)
    BY DEF TablesSound
  <2> QED BY <2>1, ChangeSound, ZenonT(60)
<1>2. Stable
  BY <1>1 DEF Stable
<1>3. \A k : Of(objects, k) = Of(objects', k)
  BY <1>1 DEF Of
<1>4. TablesSound'
  BY <1>1, <1>3 DEF TablesSound
<1> QED BY <1>2, <1>4

\* A DELETE that finds no row.
LEMMA NothingDeleted ==
  ASSUME TablesSound, objects' = Delete(objects, {}), links' = Cut(links, {}),
         tagged' = {t \in tagged : t[1] \notin {}}
  PROVE  UNCHANGED <<objects, links, tagged>>
<1>1. objects = [o \in DOMAIN objects |-> objects[o]] /\ links = [l \in DOMAIN links |-> links[l]]
  BY DEF TablesSound, Rows
<1>2. objects' = [o \in DOMAIN objects |-> objects[o]]
  <2>1. DOMAIN objects \ {} = DOMAIN objects
    OBVIOUS
  <2> QED BY <2>1 DEF Delete, Restrict
<1>3. links' = [l \in DOMAIN links |-> links[l]]
  <2>1. {l \in DOMAIN links : l[1] \notin {} /\ l[2] \notin {}} = DOMAIN links
    OBVIOUS
  <2> QED BY <2>1 DEF Cut, Restrict
<1> QED BY <1>1, <1>2, <1>3

\* A DELETE takes the links and the assignments of what it takes along.
LEMMA DeleteTables ==
  ASSUME TablesSound, NEW o \in DOMAIN objects, NEW gone, gone = Subtree(objects, o),
         objects' = Delete(objects, gone), links' = Cut(links, gone),
         tagged' = {t \in tagged : t[1] \notin gone}, UNCHANGED spent
  PROVE  TablesSound' /\ Stable /\ o \notin DOMAIN objects'
<1>1. /\ Rows(objects') /\ Sound(objects') /\ DOMAIN objects' = DOMAIN objects \ gone
      /\ \A x \in DOMAIN objects' : objects'[x] = objects[x]
  <2>1. Rows(objects) /\ Sound(objects)
    BY DEF TablesSound
  <2>2. PICK new : new = Delete(objects, Subtree(objects, o))
    OBVIOUS
  <2>3. /\ Rows(new) /\ Sound(new) /\ DOMAIN new = DOMAIN objects \ Subtree(objects, o)
        /\ \A x \in DOMAIN new : new[x] = objects[x]
    BY <2>1, <2>2, DeleteSound, ZenonT(60)
  <2> QED BY <2>2, <2>3
<1>2. Stable
  BY <1>1 DEF Stable
<1>3. o \in gone
  BY DEF Subtree
<1>4. \A k, x : x \in Of(objects, k) /\ x \notin gone => x \in Of(objects', k)
  BY <1>1 DEF Of
<1>5. /\ DOMAIN links' = {l \in DOMAIN links : l[1] \notin gone /\ l[2] \notin gone}
      /\ links' = [l \in DOMAIN links' |-> links[l]]
  BY DEF Cut, Restrict
<1>6. links' \in [DOMAIN links' -> Attached]
  BY <1>5 DEF TablesSound
<1>7. DOMAIN links' \subseteq Of(objects', "storage") \X Of(objects', "datacenter")
  BY <1>4, <1>5 DEF TablesSound
<1>8. tagged' \subseteq Id \X Vm /\ \A t \in tagged' : t[1] \in Of(objects', "tag")
  BY <1>4 DEF TablesSound
<1>9. DOMAIN objects' \subseteq spent' /\ spent' \subseteq Id
  BY <1>1 DEF TablesSound
<1>10. TablesSound'
  BY <1>1, <1>6, <1>7, <1>8, <1>9 DEF TablesSound
<1> QED BY <1>1, <1>2, <1>3, <1>10

-----------------------------------------------------------------------------
\* The statements that continue a request.

\* A request in flight knows what its point says.
LEMMA AtItsPoint ==
  ASSUME IInv, NEW r \in Req
  PROVE  Known(pc[r], rq[r]) /\ rq[r] \in Locals
BY DEF IInv, Known

\* The tag made on the way, or the one that has its name already.
LEMMA TagByNameKeeps ==
  ASSUME IInv, NEW r \in Req, TagByName(r)
  PROVE  IInv'
<1> DEFINE Made(n, v, id) ==
      LET name == IF n = None THEN DefaultTag ELSE n
          q    == [Closing("tag", id, v, None) EXCEPT !.name = n]
      IN /\ UNCHANGED <<links, tagged, options, jobs, steps>>
         /\ \/ Refuse(r, "tag", "500")
            \/ /\ id = Unknown /\ Proceed(r, "idle", "find", q)
               /\ UNCHANGED <<objects, spent>>
            \/ /\ id \in Id \ spent /\ ~NameTaken(objects, "tag", None, name, {})
               /\ objects' = Insert(objects, id, [kind |-> "tag", up |-> None,
                                                  name |-> name, note |-> Blank])
               /\ spent' = spent \cup {id}
               /\ Proceed(r, "idle", "find", q)
<1>1. PICK n \in Name \cup {None}, v \in Vm : \E id : Made(n, v, id)
  BY DEF TagByName
<1>2. PICK id : Made(n, v, id)
  BY <1>1
<1>3. CASE Refuse(r, "tag", "500")
  BY <1>3, RefuseKeeps DEF Answers
<1>4. ASSUME Proceed(r, "idle", "find", [Closing("tag", id, v, None) EXCEPT !.name = n]),
             TablesSound', Stable, id \in spent' \cup {Unknown}
      PROVE  IInv'
  <2>1. PICK q : q = [Closing("tag", id, v, None) EXCEPT !.name = n]
    OBVIOUS
  <2>2. q = [op |-> "tag", kind |-> None, through |-> (v # None), reads |-> FALSE,
             plain |-> FALSE, id |-> id, up |-> v, named |-> {}, name |-> n,
             note |-> None, answer |-> None]
    BY <2>1, ZenonT(60) DEF Closing
  <2>3. id \in Id \cup {Unknown, None} /\ v # None
    BY <1>4, NoneAssumption DEF TablesSound
  <2>4. q \in Locals
    BY <2>2, <2>3 DEF Locals
  <2>5. Known("find", q)'
    BY <1>4, <2>2, <2>3, <2>4 DEF Known, AtPoint, RowKnown, ScopeKnown, Points
  <2> QED BY <1>2, <1>4, <2>1, <2>5, StepKeeps DEF IInv
<1>5. CASE /\ id = Unknown /\ UNCHANGED <<objects, spent>>
           /\ Proceed(r, "idle", "find", [Closing("tag", id, v, None) EXCEPT !.name = n])
  <2>1. TablesSound' /\ Stable
    BY <1>2, <1>5, UnchangedSound DEF tables, IInv
  <2> QED BY <1>4, <1>5, <2>1
<1>6. ASSUME NEW name \in Name, id \in Id \ spent, ~NameTaken(objects, "tag", None, name, {}),
             objects' = Insert(objects, id, [kind |-> "tag", up |-> None,
                                             name |-> name, note |-> Blank]),
             spent' = spent \cup {id},
             Proceed(r, "idle", "find", [Closing("tag", id, v, None) EXCEPT !.name = n])
      PROVE  IInv'
  <2>1. PICK row : row = [kind |-> "tag", up |-> None, name |-> name, note |-> Blank]
    OBVIOUS
  <2>2. HasParent(objects, "tag", None) /\ "tag" \in Kinds
    BY NoneAssumption DEF HasParent, Above, Kinds
  <2>3. TablesSound' /\ Stable
    BY <1>2, <1>6, <2>1, <2>2, UnknownAssumption, InsertTables DEF IInv
  <2> QED BY <1>4, <1>6, <2>3
<1> QED BY <1>2, <1>3, <1>5, <1>6, UnknownAssumption

\* A POST refused before its INSERT: its handler has no id yet.
LEMMA AddRefusedKeeps ==
  ASSUME IInv, NEW r \in Req, AddRefused(r)
  PROVE  IInv'
<1>1. rq[r].op = "add" /\ rq[r].id = None
  BY AtItsPoint DEF AddRefused, Known, AtPoint
<1>2. rq[r].id \notin DOMAIN objects
  BY <1>1, NoneIsNoId DEF IInv, TablesSound, Rows
<1>3. \E code \in {"500", "400", "409"} : Outcome(r, "insert", code)
  BY DEF AddRefused
<1> QED BY <1>1, <1>2, <1>3, OutcomeKeeps DEF Answers

\* The INSERT of a POST.
LEMMA AddInsertKeeps ==
  ASSUME IInv, NEW r \in Req, AddInsert(r)
  PROVE  IInv'
<1>1. rq[r].kind \in Kinds /\ rq[r].name \in Name
  BY AtItsPoint DEF AddInsert, Known, AtPoint
<1>2. PICK o \in Id \ spent :
        /\ HasParent(objects, rq[r].kind, rq[r].up)
        /\ ~NameTaken(objects, rq[r].kind, rq[r].up, rq[r].name, {})
        /\ objects' = Insert(objects, o, NewRow(rq[r]))
        /\ spent' = spent \cup {o}
        /\ Proceed(r, "insert", "reread", Closing("add", o, None, None))
        /\ UNCHANGED <<links, tagged, options, jobs, steps>>
  BY DEF AddInsert
<1>3. PICK row : row = NewRow(rq[r])
  OBVIOUS
<1>4. row = [kind |-> row.kind, up |-> row.up, name |-> row.name, note |-> row.note]
      /\ row.kind = rq[r].kind /\ row.up = rq[r].up /\ row.name = rq[r].name /\ row.note = Blank
  BY <1>3 DEF NewRow
<1>5. TablesSound' /\ Stable /\ o \in spent'
  BY <1>1, <1>2, <1>3, <1>4, UnknownAssumption, InsertTables DEF IInv
<1>6. PICK q : q = Closing("add", o, None, None)
  OBVIOUS
<1>7. q \in Locals
  BY <1>6, ClosingType DEF Crud
<1>8. q.op = "add" /\ q.id = o /\ q.kind = None /\ ScopeKnown(q)
  BY <1>6, ClosingFields
<1>9. Known("reread", q)'
  BY <1>5, <1>7, <1>8 DEF Known, AtPoint, RowKnown, Points, ScopeKnown
<1> QED BY <1>2, <1>5, <1>6, <1>9, StepKeeps DEF IInv

\* The row read back for the answer, whichever handler reads it.
LEMMA RereadsKeep ==
  ASSUME IInv, NEW r \in Req,
         AddReread(r) \/ PutReread(r) \/ AttachReread(r) \/ TagReread(r)
  PROVE  IInv'
<1>1. Known(pc[r], rq[r])
  BY AtItsPoint
<1>2. CASE AddReread(r)
  BY <1>2, OutcomeKeeps DEF AddReread, Answers
<1>3. CASE PutReread(r)
  BY <1>3, OutcomeKeeps DEF PutReread, Answers
<1>4. CASE AttachReread(r)
  BY <1>4, OutcomeKeeps DEF AttachReread, Answers
<1>5. CASE TagReread(r)
  <2>1. pc[r] = "reread" /\ rq[r].op = "tag"
    BY <1>5 DEF TagReread, Outcome, Onward, Proceed
  <2>2. rq[r].through /\ (<<rq[r].id, rq[r].up>> \in tagged \/ rq[r].id \notin DOMAIN objects)
    BY <1>1, <2>1 DEF Known, AtPoint
  <2> QED BY <1>5, <2>1, <2>2, OutcomeKeeps DEF TagReread, Answers
<1> QED BY <1>2, <1>3, <1>4, <1>5

\* A statement after which the row is read back keeps the locals for that.
LEMMA ToReread ==
  ASSUME IInv, NEW r \in Req, NEW from, Proceed(r, from, "reread", rq[r]),
         Stable, TablesSound', UNCHANGED <<options, jobs, steps>>,
         rq[r].op \in {"put", "attach", "tag"},
         rq[r].op = "tag" => rq[r].through /\ <<rq[r].id, rq[r].up>> \in tagged'
  PROVE  IInv'
<1>1. PICK q : q = rq[r]
  OBVIOUS
<1>2. PICK p : p = pc[r]
  OBVIOUS
<1>3. Known(p, q)
  BY <1>1, <1>2, AtItsPoint
<1>4. Known(p, q)'
  BY <1>3, KnownStays DEF IInv
<1>5. Known("reread", q)'
  BY <1>1, <1>4 DEF Known, AtPoint, RowKnown, ScopeKnown, Points
<1> QED BY <1>1, <1>5, StepKeeps DEF IInv

\* The UPDATE of a PUT: COALESCE keeps what the body does not name.
LEMMA PutWriteKeeps ==
  ASSUME IInv, NEW r \in Req, PutWrite(r)
  PROVE  IInv'
<1>1. PICK q : q = rq[r]
  OBVIOUS
<1>2. /\ q \in Locals /\ q.op = "put" /\ q.kind \in Kinds
      /\ q.id \in DOMAIN objects => objects[q.id].kind = q.kind
  BY <1>1, AtItsPoint, NoneAssumption DEF PutWrite, Known, AtPoint, RowKnown
<1>3. CASE ~InScope(q.id, q, q.up)
  <2>1. Onward(r, "write", "reread", q)
    BY <1>1, <1>3 DEF PutWrite
  <2>2. TablesSound' /\ Stable
    BY <2>1, UnchangedSound DEF Onward, IInv
  <2> QED BY <1>1, <1>2, <2>1, <2>2, ToReread DEF Onward
<1>4. CASE InScope(q.id, q, q.up)
  <2> DEFINE row == objects[q.id]
             n   == Coalesce(q.name, row.name)
             t   == Coalesce(q.note, row.note)
  <2>1. /\ ~NameTaken(objects, q.kind, row.up, q.name, {q.id})
        /\ objects' = [objects EXCEPT ![q.id] = [kind |-> row.kind, up |-> row.up,
                                                 name |-> n, note |-> t]]
        /\ Proceed(r, "write", "reread", q)
        /\ UNCHANGED <<links, tagged, spent, options, jobs, steps>>
    BY <1>1, <1>4 DEF PutWrite
  <2>2. q.id \in DOMAIN objects /\ row \in ObjectRow
    BY <1>4 DEF InScope, IInv, TablesSound, Rows
  <2>3. n \in Name /\ t \in Note
    BY <1>2, <2>2 DEF Locals, ObjectRow, Coalesce
  <2>4. n # row.name => ~NameTaken(objects, row.kind, row.up, n, {q.id})
    BY <1>2, <2>1, <2>2 DEF Coalesce
  <2>5. TablesSound
    BY DEF IInv
  <2> HIDE DEF n, t
  <2>6. TablesSound' /\ Stable
    BY <2>1, <2>2, <2>3, <2>4, <2>5, ChangeTables, ZenonT(60)
  <2> QED BY <1>1, <1>2, <2>1, <2>6, ToReread
<1> QED BY <1>3, <1>4

\* A PUT the database refuses.
LEMMA PutRefusedKeeps ==
  ASSUME IInv, NEW r \in Req, PutRefused(r)
  PROVE  IInv'
<1>1. rq[r].op = "put"
  BY AtItsPoint DEF PutRefused, Known, AtPoint
<1>2. \E code \in {"409", "400"} : Outcome(r, "write", code)
  BY DEF PutRefused
<1> QED BY <1>1, <1>2, OutcomeKeeps DEF Answers

\* The DELETE: after it no row of that id is left in its scope, for good.
LEMMA RemoveDeleteKeeps ==
  ASSUME IInv, NEW r \in Req, RemoveDelete(r)
  PROVE  IInv'
<1>1. PICK q : q = rq[r]
  OBVIOUS
<1>2. PICK gone : gone = IF InScope(q.id, q, q.up) THEN Subtree(objects, q.id) ELSE {}
  OBVIOUS
<1>3. PICK code \in {"200", "500"} :
      /\ Proceed(r, "delete", "done", Tail(r, code))
      /\ objects' = Delete(objects, gone) /\ links' = Cut(links, gone)
      /\ tagged' = {t \in tagged : t[1] \notin gone}
      /\ UNCHANGED <<spent, options, jobs, steps>>
  BY <1>1, <1>2 DEF RemoveDelete
<1>4. q.op = "remove"
  BY <1>1, <1>3, AtItsPoint DEF Proceed, Known, AtPoint
<1>5. PICK k : k = Tail(r, code)
  OBVIOUS
<1>6. /\ k \in Locals /\ ScopeKnown(k) /\ RowKnown(k) /\ k.op = "remove" /\ k.id = q.id
      /\ k.kind = None
      /\ q.through => k.up = q.up /\ k.through
  BY <1>1, <1>4, <1>5, TailFacts DEF Answers
<1>7. /\ TablesSound' /\ Stable
      /\ q.id \in DOMAIN objects' => q.through /\ objects'[q.id].up # q.up
  <2>1. CASE InScope(q.id, q, q.up)
    <3>1. q.id \in DOMAIN objects /\ gone = Subtree(objects, q.id) /\ TablesSound
      BY <1>2, <2>1 DEF InScope, IInv
    <3> QED BY <1>3, <3>1, DeleteTables
  <2>2. CASE ~InScope(q.id, q, q.up)
    <3>1. gone = {}
      BY <1>2, <2>2
    <3>2. UNCHANGED <<objects, links, tagged>>
      BY <1>3, <3>1, NothingDeleted DEF IInv
    <3>3. TablesSound' /\ Stable
      BY <1>3, <3>2, UnchangedSound DEF IInv, tables
    <3> QED BY <2>2, <3>2, <3>3 DEF InScope
  <2> QED BY <2>1, <2>2
<1>8. Known("done", k)'
  BY <1>6, <1>7 DEF Known, AtPoint, AnswerHolds, RowKnown, ScopeKnown, Points, Stable
<1> QED BY <1>3, <1>5, <1>7, <1>8, StepKeeps DEF IInv

\* The INSERT of an attachment: the foreign keys have found both ends.
LEMMA AttachInsertKeeps ==
  ASSUME IInv, NEW r \in Req, AttachInsert(r)
  PROVE  IInv'
<1>1. PICK q : q = rq[r]
  OBVIOUS
<1>2. CASE Outcome(r, "attach", "500") \/ Outcome(r, "attach", "400")
  <2>1. q.op = "attach"
    BY <1>1, <1>2, AtItsPoint DEF Outcome, Onward, Proceed, Known, AtPoint
  <2> QED BY <1>1, <1>2, <2>1, OutcomeKeeps DEF Answers
<1>3. CASE ~(Outcome(r, "attach", "500") \/ Outcome(r, "attach", "400"))
  <2>1. /\ {q.id, q.up} \subseteq DOMAIN objects
        /\ links' = IF <<q.id, q.up>> \in DOMAIN links THEN links
                    ELSE Insert(links, <<q.id, q.up>>, "active")
        /\ Proceed(r, "attach", "reread", q)
        /\ UNCHANGED <<objects, tagged, spent, options, jobs, steps>>
    BY <1>1, <1>3 DEF AttachInsert
  <2>2. /\ q.op = "attach"
        /\ q.id \in Of(objects, "storage") /\ q.up \in Of(objects, "datacenter")
    BY <1>1, <2>1, AtItsPoint DEF Proceed, Known, AtPoint, Of
  <2>3. /\ links' \in [DOMAIN links' -> Attached]
        /\ DOMAIN links' \subseteq DOMAIN links \cup {<<q.id, q.up>>}
    <3>1. CASE <<q.id, q.up>> \in DOMAIN links
      BY <2>1, <3>1 DEF IInv, TablesSound
    <3>2. CASE <<q.id, q.up>> \notin DOMAIN links
      <4>1. links' = [l \in DOMAIN links \cup {<<q.id, q.up>>} |->
                        IF l = <<q.id, q.up>> THEN "active" ELSE links[l]]
        BY <2>1, <3>2 DEF Insert
      <4>2. \A l \in DOMAIN links : links[l] \in Attached
        BY DEF IInv, TablesSound
      <4> QED BY <4>1, <4>2 DEF Attached
    <3> QED BY <3>1, <3>2
  <2>4. DOMAIN links' \subseteq Of(objects, "storage") \X Of(objects, "datacenter")
    BY <2>2, <2>3 DEF IInv, TablesSound
  <2>5. TablesSound' /\ Stable
    BY <2>1, <2>3, <2>4, OtherTables, TagsOfTags DEF IInv
  <2> QED BY <1>1, <2>1, <2>2, <2>5, ToReread
<1> QED BY <1>2, <1>3

\* The tag found is one that is there, or what the handler had.
LEMMA TagFindKeeps ==
  ASSUME IInv, NEW r \in Req, TagFind(r)
  PROVE  IInv'
<1>1. PICK t \in Of(objects, "tag") \cup {rq[r].id} :
        Onward(r, "find", "assign", Closing("tag", t, rq[r].up, None))
  BY DEF TagFind
<1>2. /\ rq[r].up \in Vm /\ rq[r].id \in spent \cup {Unknown, None}
      /\ rq[r].up # None
  BY <1>1, AtItsPoint, NoneAssumption DEF Onward, Proceed, Known, AtPoint, RowKnown
<1>3. t \in spent \cup {Unknown, None} /\ t \in Id \cup {Unknown, None}
  BY <1>2 DEF Of, IInv, TablesSound
<1>4. PICK q : q = Closing("tag", t, rq[r].up, None)
  OBVIOUS
<1>5. q \in Locals
  BY <1>2, <1>3, <1>4, ClosingType
<1>6. q.op = "tag" /\ q.id = t /\ q.up = rq[r].up /\ q.kind = None /\ ScopeKnown(q) /\ q.through
  <2>1. q.through = (rq[r].up # None)
    BY <1>4, ClosingFields
  <2>2. q.through
    BY <1>2, <2>1
  <2> QED BY <1>4, <2>2, ClosingFields
<1>7. Known("assign", q)
  BY <1>2, <1>3, <1>5, <1>6 DEF Known, AtPoint, RowKnown, Points
<1> QED BY <1>1, <1>4, <1>7, OnwardKeeps

\* The INSERT of an assignment: the foreign key has found the tag.
LEMMA TagAssignKeeps ==
  ASSUME IInv, NEW r \in Req, TagAssign(r)
  PROVE  IInv'
<1>1. PICK q : q = rq[r]
  OBVIOUS
<1>2. pc[r] = "assign"
  BY DEF TagAssign, Outcome, Onward, Proceed
<1>3. q.op = "tag" /\ q.through /\ q.up \in Vm
  BY <1>1, <1>2, AtItsPoint DEF Known, AtPoint
<1>4. CASE q.id \notin Of(objects, "tag")
  <2>1. Outcome(r, "assign", "400")
    BY <1>1, <1>4 DEF TagAssign
  <2> QED BY <1>1, <1>3, <2>1, OutcomeKeeps DEF Answers
<1>5. CASE q.id \in Of(objects, "tag")
  <2>1. /\ tagged' = tagged \cup {<<q.id, q.up>>}
        /\ Proceed(r, "assign", "reread", q)
        /\ UNCHANGED <<objects, links, spent, options, jobs, steps>>
    BY <1>1, <1>5 DEF TagAssign
  <2>2. TablesSound' /\ Stable
    BY <1>3, <1>5, <2>1, OtherTables, TagsOfTags DEF IInv, TablesSound
  <2> QED BY <1>1, <1>3, <2>1, <2>2, ToReread
<1> QED BY <1>4, <1>5

\* The job of an action, which needs an option.
LEMMA JobInsertKeeps ==
  ASSUME IInv, NEW r \in Req, JobInsert(r)
  PROVE  IInv'
<1>1. PICK q : q = rq[r]
  OBVIOUS
<1>2. pc[r] = "job"
  BY DEF JobInsert, Outcome, Onward, Proceed
<1>3. Known("job", q) /\ q.op = "act"
  BY <1>1, <1>2, AtItsPoint DEF Known, AtPoint
<1>4. CASE ~options
  BY <1>1, <1>3, <1>4, OutcomeKeeps DEF JobInsert, Answers
<1>5. CASE options
  <2>1. /\ Proceed(r, "job", "step", q) /\ jobs' = jobs \cup {r}
        /\ UNCHANGED <<tables, options, steps>>
    BY <1>1, <1>5 DEF JobInsert
  <2>2. TablesSound' /\ Stable
    BY <2>1, UnchangedSound DEF IInv
  <2>3. Known("step", q)
    BY <1>3 DEF Known, AtPoint, Points
  <2>4. Known("step", q)'
    BY <2>1, <2>3, KnownUnchanged
  <2> QED BY <2>1, <2>2, <2>4, StepKeeps DEF IInv
<1> QED BY <1>4, <1>5

\* The step of a job: its job is in the table, which nothing deletes from.
LEMMA StepInsertKeeps ==
  ASSUME IInv, NEW r \in Req, StepInsert(r)
  PROVE  IInv'
<1>1. PICK q : q = rq[r]
  OBVIOUS
<1>2. PICK answer \in {q.answer, "500"} :
        /\ Proceed(r, "step", "done", [q EXCEPT !.answer = answer])
        /\ steps' = steps \cup {r} /\ UNCHANGED <<tables, options, jobs>>
  BY <1>1 DEF StepInsert
<1>3. Known("step", q) /\ q.op = "act" /\ r \in jobs
  BY <1>1, <1>2, AtItsPoint DEF Proceed, Known, AtPoint, IInv
<1>4. TablesSound' /\ Stable
  BY <1>2, UnchangedSound DEF IInv
<1>5. PICK k : k = [q EXCEPT !.answer = answer]
  OBVIOUS
<1>6. k \in Locals /\ k.op = "act"
  BY <1>3, <1>5 DEF Known, Locals, Answers
<1>7. RowKnown(k) /\ ScopeKnown(k)
  BY <1>3, <1>5 DEF Known, Locals, RowKnown, ScopeKnown
<1>8. Known("done", k)
  BY <1>6, <1>7 DEF Known, AtPoint, AnswerHolds, Points
<1>9. Known("done", k)'
  BY <1>2, <1>8, KnownUnchanged
<1> QED BY <1>2, <1>3, <1>4, <1>5, <1>9, StepKeeps DEF IInv

\* A time-out answers 500, which says nothing of the tables.
LEMMA TimeOutKeeps ==
  ASSUME IInv, NEW r \in Req, TimeOut(r)
  PROVE  IInv'
<1>1. pc[r] \in Points \ {"idle", "done", "lost"} /\ Known(pc[r], rq[r])
  BY AtItsPoint DEF TimeOut, InFlight, Known
<1>2. rq[r].op = "tag" => rq[r].through
  BY <1>1 DEF Known, AtPoint, Points
<1> QED BY <1>2, OutcomeKeeps DEF TimeOut, Answers

-----------------------------------------------------------------------------
\* The environment, and the invariant.

\* Fresh locals know nothing.
LEMMA FreshKnown ==
  /\ Known("idle", Fresh)
  /\ TablesSound => Known("lost", Fresh)
<1>1. PICK q : q = Fresh
  OBVIOUS
<1>2. q \in Locals
  BY <1>1, ClosingType DEF Fresh
<1>3. q.op = None /\ q.id = None /\ q.kind = None /\ ScopeKnown(q)
  BY <1>1, ClosingFields DEF Fresh
<1> QED BY <1>1, <1>2, <1>3 DEF Known, AtPoint, RowKnown, Points

\* A crash makes requests forget and keeps the tables.
LEMMA RestartKeeps ==
  ASSUME IInv, Restart
  PROVE  IInv'
<1>1. /\ pc' = [r \in Req |-> IF InFlight(r) THEN "lost" ELSE pc[r]]
      /\ rq' = [r \in Req |-> IF InFlight(r) THEN Fresh ELSE rq[r]]
      /\ options' = TRUE /\ UNCHANGED <<tables, jobs, steps>>
  BY DEF Restart
<1>2. TablesSound'
  BY <1>1, UnchangedSound DEF IInv
<1>3. ASSUME NEW r \in Req
      PROVE  Known(pc[r], rq[r])' /\ pc'[r] # "step" /\ pc'[r] \in Points /\ rq'[r] \in Locals
  <2>1. CASE InFlight(r)
    <3>1. PICK q : q = Fresh
      OBVIOUS
    <3>2. pc'[r] = "lost" /\ rq'[r] = q
      BY <1>1, <2>1, <3>1
    <3>3. Known("lost", q)
      BY <3>1, FreshKnown DEF IInv
    <3>4. Known("lost", q)'
      BY <1>1, <3>3, KnownUnchanged
    <3> QED BY <3>2, <3>3, <3>4 DEF Known
  <2>2. CASE ~InFlight(r)
    <3>1. PICK p, q : p = pc[r] /\ q = rq[r]
      OBVIOUS
    <3>2. pc'[r] = p /\ rq'[r] = q /\ p # "step"
      BY <1>1, <2>2, <3>1 DEF InFlight
    <3>3. Known(p, q)
      BY <3>1, AtItsPoint
    <3>4. Known(p, q)'
      BY <1>1, <3>3, KnownUnchanged
    <3> QED BY <3>2, <3>3, <3>4 DEF Known
  <2> QED BY <2>1, <2>2
<1>4. pc' \in [Req -> Points] /\ rq' \in [Req -> Locals]
  BY <1>1, <1>3
<1> QED BY <1>1, <1>2, <1>3, <1>4 DEF IInv

\* Options that come and go, and steps that change nothing.
LEMMA UnchangedKeeps ==
  ASSUME IInv, UNCHANGED <<tables, jobs, steps, pc, rq>>, options' \in BOOLEAN
  PROVE  IInv'
<1>1. TablesSound'
  BY UnchangedSound DEF IInv
<1>2. ASSUME NEW r \in Req PROVE Known(pc[r], rq[r])'
  <2>1. PICK p, q : p = pc[r] /\ q = rq[r]
    OBVIOUS
  <2>2. Known(p, q)'
    BY <2>1, AtItsPoint, KnownUnchanged
  <2> QED BY <2>1, <2>2
<1> QED BY <1>1, <1>2 DEF IInv

\* Every step keeps the invariant.
LEMMA NextKeeps ==
  ASSUME IInv, [Next]_vars
  PROVE  IInv'
<1>1. ASSUME NEW r \in Req, Begin(r) PROVE IInv'
  BY <1>1, AddBeginKeeps, PutBeginKeeps, RemoveBeginKeeps, AttachBeginKeeps, TagByIdKeeps,
     TagByNameKeeps, ReadsKeep, SwitchLinkKeeps, DetachKeeps, ActKeeps DEF Begin
<1>2. ASSUME NEW r \in Req, Continue(r) PROVE IInv'
  BY <1>2, AddRefusedKeeps, AddInsertKeeps, RereadsKeep, PutWriteKeeps, PutRefusedKeeps,
     RemoveDeleteKeeps, AttachInsertKeeps, TagFindKeeps, TagAssignKeeps, JobInsertKeeps,
     StepInsertKeeps DEF Continue
<1>3. CASE RemoveOption
  BY <1>3, UnchangedKeeps DEF RemoveOption
<1>4. CASE Restart
  BY <1>4, RestartKeeps
<1>5. CASE UNCHANGED vars
  BY <1>5, UnchangedKeeps DEF vars, IInv
<1> QED BY <1>1, <1>2, <1>3, <1>4, <1>5, TimeOutKeeps DEF Next, Quiet

\* It holds at the start: the seed is a tree and no request has begun.
LEMMA InitInvariant == Init => IInv
<1> SUFFICES ASSUME Init PROVE IInv
  OBVIOUS
<1>1. /\ DOMAIN objects \subseteq Id /\ objects \in [DOMAIN objects -> ObjectRow]
      /\ Sound(objects)
      /\ DOMAIN links \subseteq Of(objects, "storage") \X Of(objects, "datacenter")
      /\ links \in [DOMAIN links -> Attached]
  BY SeedAssumption DEF SeedOK, Init, Sound
<1>2. TablesSound
  BY <1>1 DEF Init, TablesSound, Rows
<1>3. ASSUME NEW r \in Req PROVE pc[r] = "idle" /\ rq[r] = Fresh /\ Known(pc[r], rq[r])
  BY <1>3, FreshKnown DEF Init
<1>4. pc \in [Req -> Points] /\ rq \in [Req -> Locals]
  <2>1. "idle" \in Points /\ Fresh \in Locals
    BY FreshKnown DEF Known, Points
  <2> QED BY <2>1 DEF Init
<1> QED BY <1>2, <1>3, <1>4 DEF Init, IInv

-----------------------------------------------------------------------------
\* The theorems.

\* What the handlers remember stays true of the tables.
THEOREM Invariance == Spec => []IInv
<1>1. Init => IInv
  BY InitInvariant
<1>2. IInv /\ [Next]_vars => IInv'
  BY NextKeeps
<1> QED BY <1>1, <1>2, PTL DEF Spec

\* Every variable has its type, whatever the estate and however many requests.
THEOREM TypesHold == Spec => []TypeOK
<1>1. IInv => TypeOK
  BY DEF IInv, TablesSound, Rows, TypeOK
<1> QED BY <1>1, Invariance, PTL

\* The inventory stays a tree, with unique names and whole attachments,
\* whatever statements of other requests come between those of one.
THEOREM TreeStaysSound == Spec => []TreeSound
<1>1. IInv => TreeSound
  BY DEF IInv, TablesSound, Sound, TreeSound
<1> QED BY <1>1, Invariance, PTL

\* A POST refused with 400, 404 or 409 has left no row.
THEOREM NothingLeftBehind == Spec => []NoResidue
<1>1. IInv => NoResidue
  BY DEF IInv, Known, AnswerHolds, NoResidue
<1> QED BY <1>1, Invariance, PTL

\* What a DELETE removed never comes back below the parent of its URL.
THEOREM DeletedForGood == Spec => []GoneForGood
<1>1. IInv => GoneForGood
  BY DEF IInv, Known, AnswerHolds, GoneForGood
<1> QED BY <1>1, Invariance, PTL

\* A 201 for a tag is true as long as there is such a tag.
THEOREM TagsHold == Spec => []TagsTellTheTruth
<1>1. IInv => TagsTellTheTruth
  BY DEF IInv, Known, AnswerHolds, TagsTellTheTruth
<1> QED BY <1>1, Invariance, PTL

-----------------------------------------------------------------------------
\* Which statement writes what.

\* A statement of one request moves no other.
LEMMA MovesOne ==
  ASSUME pc \in [Req -> Points], NEW s \in Req, Begin(s) \/ Continue(s) \/ TimeOut(s),
         NEW r \in Req, r # s
  PROVE  pc'[r] = pc[r]
<1>1. CASE \E from, to, q : Proceed(s, from, to, q)
  BY <1>1 DEF Proceed
<1>2. CASE AddBegin(s) \/ PutBegin(s) \/ RemoveBegin(s) \/ AttachBegin(s)
  BY <1>1, <1>2 DEF AddBegin, PutBegin, RemoveBegin, AttachBegin, Refuse, Onward
<1>3. CASE TagById(s) \/ TagByName(s) \/ SwitchLink(s) \/ Detach(s) \/ Act(s)
  BY <1>1, <1>3 DEF TagById, TagByName, SwitchLink, Detach, Act, Refuse, Onward
<1>4. CASE Read(s) \/ ReadClusterNetworks(s) \/ ReadJobs(s) \/ ReadLink(s)
  BY <1>1, <1>4 DEF Read, ReadClusterNetworks, ReadJobs, ReadLink, Refuse, Onward
<1>5. CASE AddRefused(s) \/ AddInsert(s) \/ AddReread(s) \/ PutWrite(s) \/ PutRefused(s)
           \/ PutReread(s) \/ RemoveDelete(s)
  BY <1>1, <1>5 DEF AddRefused, AddInsert, AddReread, PutWrite, PutRefused, PutReread,
                    RemoveDelete, Outcome, Onward
<1>6. CASE AttachInsert(s) \/ AttachReread(s) \/ TagFind(s) \/ TagAssign(s) \/ TagReread(s)
           \/ JobInsert(s) \/ StepInsert(s) \/ TimeOut(s)
  BY <1>1, <1>6 DEF AttachInsert, AttachReread, TagFind, TagAssign, TagReread, JobInsert,
                    StepInsert, TimeOut, Outcome, Onward
<1> QED BY <1>2, <1>3, <1>4, <1>5, <1>6 DEF Begin, Continue

\* What a request that has begun does to the objects: it inserts, updates or
\* deletes, or leaves them alone.
LEMMA ContinueWrites ==
  ASSUME NEW r \in Req, Continue(r)
  PROVE  AddInsert(r) \/ PutWrite(r) \/ RemoveDelete(r) \/ AttachInsert(r)
           \/ UNCHANGED <<objects, links, spent>>
BY DEF Continue, AddRefused, AddReread, PutRefused, PutReread, AttachReread, TagFind,
       TagAssign, TagReread, JobInsert, StepInsert, Outcome, Onward, tables

\* The step that moves a request which serves a PUT or a DELETE on an object
\* and changes an object is its UPDATE or its DELETE.
LEMMA WriterIs ==
  ASSUME IInv, [Next]_vars, NEW r \in Req, pc'[r] # pc[r], rq[r].op \in {"put", "remove"},
         objects' # objects
  PROVE  \/ rq[r].op = "put" /\ PutWrite(r)
         \/ rq[r].op = "remove" /\ RemoveDelete(r)
<1>1. Begin(r) \/ Continue(r)
  <2>1. CASE RemoveOption \/ Restart \/ Quiet \/ UNCHANGED vars
    BY <2>1 DEF RemoveOption, Restart, Quiet, vars, tables
  <2>2. ASSUME NEW s \in Req, Begin(s) \/ Continue(s) PROVE s = r
    BY <2>2, MovesOne DEF IInv
  <2>3. ASSUME NEW s \in Req, TimeOut(s) PROVE FALSE
    BY <2>3 DEF TimeOut, Outcome, Onward, tables
  <2> QED BY <2>1, <2>2, <2>3 DEF Next
<1>2. Known(pc[r], rq[r])
  BY AtItsPoint
<1>3. pc[r] \notin {"idle", "insert", "attach"}
  BY <1>2, NoneAssumption DEF Known, AtPoint, Crud
<1>4. Continue(r) /\ (PutWrite(r) \/ RemoveDelete(r))
  BY <1>1, <1>3, ContinueWrites
     DEF Begin, AddInsert, AttachInsert, Outcome, Onward, Proceed
<1>5. PutWrite(r) => pc[r] = "write"
  BY DEF PutWrite
<1>6. RemoveDelete(r) => pc[r] = "delete"
  BY DEF RemoveDelete, Proceed
<1> QED BY <1>2, <1>4, <1>5, <1>6 DEF Known, AtPoint

\* The row an UPDATE writes.
LEMMA PutWritesRow ==
  ASSUME IInv, NEW r \in Req, PutWrite(r), objects' # objects
  PROVE  /\ InScope(rq[r].id, rq[r], rq[r].up)
         /\ objects' = [objects EXCEPT ![rq[r].id] =
                          [kind |-> objects[rq[r].id].kind, up |-> objects[rq[r].id].up,
                           name |-> Coalesce(rq[r].name, objects[rq[r].id].name),
                           note |-> Coalesce(rq[r].note, objects[rq[r].id].note)]]
BY DEF PutWrite, Onward, tables

\* No PUT and no DELETE through a parent's URL reaches what is not below it.
THEOREM WritesStayInScope == Spec => ScopedWrites
<1> DEFINE A == \A r \in Req, o \in Id :
       pc'[r] # pc[r] /\ rq[r].op \in {"put", "remove"} /\ rq[r].through /\ Changed(o) =>
         rq[r].up \in {objects[o].up} \cup {objects[p].up : p \in {objects[o].up} \cap DOMAIN objects}
<1>1. ASSUME IInv, [Next]_vars PROVE A
  <2> SUFFICES ASSUME NEW r \in Req, NEW o \in Id,
                      pc'[r] # pc[r], rq[r].op \in {"put", "remove"}, rq[r].through, Changed(o)
               PROVE  \/ rq[r].up = objects[o].up
                      \/ /\ objects[o].up \in DOMAIN objects
                         /\ rq[r].up = objects[objects[o].up].up
    OBVIOUS
  <2>1. PICK q : q = rq[r]
    OBVIOUS
  <2>2. objects' # objects /\ o \in DOMAIN objects
    BY DEF Changed
  <2>3. CASE PutWrite(r)
    <3>1. /\ q.id \in DOMAIN objects /\ objects[q.id].up = q.up
          /\ \A x \in DOMAIN objects : x # q.id => x \in DOMAIN objects' /\ objects'[x] = objects[x]
      BY <1>1, <2>1, <2>2, <2>3, PutWritesRow DEF InScope, IInv, TablesSound, Rows
    <3>2. o = q.id
      BY <2>2, <3>1 DEF Changed
    <3> QED BY <2>1, <3>1, <3>2
  <2>4. CASE RemoveDelete(r)
    <3>1. objects' = Delete(objects, IF InScope(q.id, q, q.up) THEN Subtree(objects, q.id) ELSE {})
      BY <2>1, <2>4 DEF RemoveDelete
    <3>2. /\ q.id \in DOMAIN objects /\ objects[q.id].up = q.up /\ o \in Subtree(objects, q.id)
      BY <2>1, <2>2, <3>1 DEF Changed, Delete, Restrict, InScope
    <3>3. CASE o = q.id
      BY <2>1, <3>2, <3>3
    <3>4. CASE objects[o].up = q.id
      BY <2>1, <3>2, <3>4
    <3>5. CASE o # q.id /\ objects[o].up # q.id
      <4>1. PICK y \in DOMAIN objects : objects[y].up = q.id /\ objects[o].up = y
        BY <3>2, <3>5 DEF Subtree, Children
      <4>2. q.up # None /\ q.id # None /\ y # None
        BY <1>1, <2>1, <3>2, <4>1, AtItsPoint, NoneIsNoId DEF Known, ScopeKnown, IInv, TablesSound, Rows
      <4>3. \A x \in DOMAIN objects : objects[x].up # None =>
              /\ objects[x].kind \in Kinds /\ Above[objects[x].kind] # None
              /\ objects[objects[x].up].kind = Above[objects[x].kind]
        BY <1>1 DEF IInv, TablesSound, Rows, Sound, HasParent, ObjectRow, Of
      <4>4. /\ Above[objects[o].kind] = objects[y].kind /\ objects[o].kind \in Kinds
            /\ Above[objects[y].kind] = objects[q.id].kind
            /\ Above[objects[o].kind] # None /\ Above[objects[y].kind] # None
            /\ Above[objects[q.id].kind] # None
        BY <2>2, <3>2, <4>1, <4>2, <4>3
      <4> QED BY <4>4, AboveFacts
    <3> QED BY <3>3, <3>4, <3>5
  <2> QED BY <1>1, <2>2, <2>3, <2>4, WriterIs
<1>2. IInv /\ [Next]_vars => [A]_vars
  BY <1>1
<1> QED BY <1>2, Invariance, PTL DEF Spec, ScopedWrites

\* A PUT writes no object but the one its URL names, and no field its body
\* did not name.
THEOREM OnlyNamedFields == Spec => NamedFieldsOnly
<1> DEFINE A == \A r \in Req, o \in DOMAIN objects \cap DOMAIN objects' :
       pc'[r] # pc[r] /\ rq[r].op = "put" =>
         /\ objects'[o] # objects[o] => o = rq[r].id
         /\ objects'[o].name # objects[o].name => "name" \in rq[r].named
         /\ objects'[o].note # objects[o].note => "note" \in rq[r].named
<1>1. ASSUME IInv, [Next]_vars PROVE A
  <2> SUFFICES ASSUME NEW r \in Req, NEW o \in DOMAIN objects \cap DOMAIN objects',
                      pc'[r] # pc[r], rq[r].op = "put", objects'[o] # objects[o]
               PROVE  /\ o = rq[r].id
                      /\ objects'[o].name # objects[o].name => "name" \in rq[r].named
                      /\ objects'[o].note # objects[o].note => "note" \in rq[r].named
    OBVIOUS
  <2>1. PICK q : q = rq[r]
    OBVIOUS
  <2>2. PutWrite(r)
    BY <1>1, WriterIs
  <2>3. /\ q.id \in DOMAIN objects
        /\ objects' = [objects EXCEPT ![q.id] =
                         [kind |-> objects[q.id].kind, up |-> objects[q.id].up,
                          name |-> Coalesce(q.name, objects[q.id].name),
                          note |-> Coalesce(q.note, objects[q.id].note)]]
    BY <1>1, <2>1, <2>2, PutWritesRow DEF InScope
  <2>4. o = q.id
    BY <2>3
  <2>5. objects'[o].name = Coalesce(q.name, objects[o].name)
        /\ objects'[o].note = Coalesce(q.note, objects[o].note)
    BY <2>3, <2>4
  <2>6. ("name" \notin q.named => q.name = None) /\ ("note" \notin q.named => q.note = None)
    BY <1>1, <2>1, AtItsPoint DEF Known, ScopeKnown
  <2> QED BY <2>1, <2>4, <2>5, <2>6 DEF Coalesce
<1>2. IInv /\ [Next]_vars => [A]_vars
  BY <1>1
<1> QED BY <1>2, Invariance, PTL DEF Spec, NamedFieldsOnly

-----------------------------------------------------------------------------
\* The handlers implement InventoryTree.

\* Both speak of the same schema and the same statements.
LEMMA SameTables ==
  /\ Tree!Above = Above /\ Tree!Kinds = Kinds
  /\ \A t, i, row : Tree!Insert(t, i, row) = Insert(t, i, row)
  /\ \A t, ids : Tree!Delete(t, ids) = Delete(t, ids)
  /\ \A l, ids : Tree!Cut(l, ids) = Cut(l, ids)
  /\ \A objs, k : Tree!Of(objs, k) = Of(objs, k)
  /\ \A objs, o : Tree!Subtree(objs, o) = Subtree(objs, o)
  /\ \A objs, k, up, n, but : Tree!NameTaken(objs, k, up, n, but) = NameTaken(objs, k, up, n, but)
<1>1. /\ Tree!Above = Above /\ Tree!Kinds = Kinds
      /\ Tree!Unnamed = Unnamed /\ Tree!NamedOnce = NamedOnce
  BY DEF Tree!Above, Above, Tree!Kinds, Kinds, Tree!Unnamed, Unnamed, Tree!NamedOnce, NamedOnce
<1>2. \A t, i, row : Tree!Insert(t, i, row) = Insert(t, i, row)
  BY DEF Tree!Insert, Insert
<1>3. \A t, ids : Tree!Delete(t, ids) = Delete(t, ids)
  BY DEF Tree!Delete, Delete, Tree!Restrict, Restrict
<1>4. \A l, ids : Tree!Cut(l, ids) = Cut(l, ids)
  BY DEF Tree!Cut, Cut, Tree!Restrict, Restrict
<1>5. \A objs, k : Tree!Of(objs, k) = Of(objs, k)
  BY DEF Tree!Of, Of
<1>6. \A objs, o : Tree!Subtree(objs, o) = Subtree(objs, o)
  BY DEF Tree!Subtree, Subtree, Tree!Children, Children
<1>7. \A objs, k, up, n, but : Tree!NameTaken(objs, k, up, n, but) = NameTaken(objs, k, up, n, but)
  BY <1>1, <1>5 DEF Tree!NameTaken, NameTaken
<1> QED BY <1>1, <1>2, <1>3, <1>4, <1>5, <1>6, <1>7

\* An INSERT is a Create, whoever runs it.
LEMMA InsertCreates ==
  ASSUME NEW o \in Id \ spent, NEW kind \in Kinds, NEW up, NEW name \in Name,
         HasParent(objects, kind, up), ~NameTaken(objects, kind, up, name, {}),
         objects' = Insert(objects, o, [kind |-> kind, up |-> up, name |-> name, note |-> Blank]),
         spent' = spent \cup {o}, UNCHANGED links
  PROVE  Tree!Next
<1>1. up \in Tree!Parents(kind) /\ kind \in Tree!Kinds
  BY SameTables DEF HasParent, Tree!Parents
<1>2. Blank \in Note
  BY UnknownAssumption
<1>3. ~Tree!NameTaken(objects, kind, up, name, {})
  BY SameTables
<1>4. objects' = Tree!Insert(objects, o, [kind |-> kind, up |-> up, name |-> name, note |-> Blank])
  BY SameTables
<1>5. Tree!Create(o)
  BY <1>1, <1>2, <1>3, <1>4 DEF Tree!Create
<1> QED BY <1>5 DEF Tree!Next

\* Setting the status of a pair of existing ends is a SetLink.
LEMMA LinkSets ==
  ASSUME NEW s \in Of(objects, "storage"), NEW d \in Of(objects, "datacenter"),
         NEW status \in Attached, links' = Insert(links, <<s, d>>, status),
         UNCHANGED <<objects, spent>>
  PROVE  Tree!Next
<1>1. Tree!SetLink
  BY SameTables DEF Tree!SetLink
<1> QED BY <1>1 DEF Tree!Next

\* The statement that begins a request makes a tag, switches or drops an
\* attachment, or changes nothing InventoryTree sees.
LEMMA BeginImplements ==
  ASSUME IInv, NEW r \in Req, Begin(r)
  PROVE  [Tree!Next]_(Tree!vars)
<1>1. CASE UNCHANGED tables
  BY <1>1 DEF tables, Tree!vars
<1>2. CASE TagByName(r)
  <2>1. SUFFICES ASSUME ~UNCHANGED tables PROVE Tree!Next
    BY <1>1
  <2>2. PICK name \in Name, o \in Id \ spent :
          /\ ~NameTaken(objects, "tag", None, name, {})
          /\ objects' = Insert(objects, o, [kind |-> "tag", up |-> None,
                                            name |-> name, note |-> Blank])
          /\ spent' = spent \cup {o} /\ UNCHANGED links
    BY <1>2, <2>1, UnknownAssumption DEF TagByName, Refuse, Onward, tables
  <2>3. HasParent(objects, "tag", None) /\ "tag" \in Kinds
    BY NoneAssumption DEF HasParent, Above, Kinds
  <2> QED BY <2>2, <2>3, InsertCreates
<1>3. CASE SwitchLink(r)
  <2>1. SUFFICES ASSUME ~UNCHANGED <<objects, links, spent>> PROVE Tree!Next
    BY DEF Tree!vars
  <2>2. PICK s \in Meant("storage"), d \in Meant("datacenter"), status \in Attached :
          IF ~options THEN Refuse(r, "act", "500")
          ELSE /\ links' = [l \in DOMAIN links |-> IF l = <<s, d>> THEN status ELSE links[l]]
               /\ UNCHANGED <<objects, spent>>
    BY <1>3 DEF SwitchLink
  <2>3. /\ links' = [l \in DOMAIN links |-> IF l = <<s, d>> THEN status ELSE links[l]]
        /\ UNCHANGED <<objects, spent>>
    BY <2>1, <2>2 DEF Refuse, Onward, tables
  <2>4. links = [l \in DOMAIN links |-> links[l]]
    BY DEF IInv, TablesSound
  <2>5. <<s, d>> \in DOMAIN links
    <3>1. SUFFICES ASSUME <<s, d>> \notin DOMAIN links PROVE FALSE
      OBVIOUS
    <3>2. links' = [l \in DOMAIN links |-> links[l]]
      BY <2>3, <3>1
    <3> QED BY <2>1, <2>3, <2>4, <3>2
  <2>6. s \in Of(objects, "storage") /\ d \in Of(objects, "datacenter")
    BY <2>5 DEF IInv, TablesSound
  <2>7. links' = Insert(links, <<s, d>>, status)
    <3>1. DOMAIN links \cup {<<s, d>>} = DOMAIN links
      BY <2>5
    <3> QED BY <2>3, <3>1 DEF Insert
  <2> QED BY <2>3, <2>6, <2>7, LinkSets
<1>4. CASE Detach(r)
  <2>1. PICK l : links' = Delete(links, {l}) /\ UNCHANGED <<objects, spent>>
    BY <1>4 DEF Detach
  <2>2. CASE l \in DOMAIN links
    <3>1. Tree!DropLink(l)
      BY <2>1, <2>2, SameTables DEF Tree!DropLink
    <3> QED BY <2>2, <3>1 DEF Tree!Next
  <2>3. CASE l \notin DOMAIN links
    <3>1. links = [m \in DOMAIN links |-> links[m]] /\ DOMAIN links \ {l} = DOMAIN links
      BY <2>3 DEF IInv, TablesSound
    <3>2. links' = links
      BY <2>1, <3>1 DEF Delete, Restrict
    <3> QED BY <2>1, <3>2 DEF Tree!vars
  <2> QED BY <2>2, <2>3
<1>5. CASE AddBegin(r) \/ PutBegin(r) \/ RemoveBegin(r) \/ AttachBegin(r) \/ TagById(r) \/ Act(r)
  BY <1>1, <1>5 DEF AddBegin, PutBegin, RemoveBegin, AttachBegin, TagById, Act, Refuse, Onward
<1>6. CASE Read(r) \/ ReadClusterNetworks(r) \/ ReadJobs(r) \/ ReadLink(r)
  BY <1>1, <1>6 DEF Read, ReadClusterNetworks, ReadJobs, ReadLink, Refuse, Onward
<1> QED BY <1>2, <1>3, <1>4, <1>5, <1>6 DEF Begin

\* The statements that follow create, change, remove or attach one object.
LEMMA ContinueImplements ==
  ASSUME IInv, NEW r \in Req, Continue(r)
  PROVE  [Tree!Next]_(Tree!vars)
<1>1. PICK q : q = rq[r]
  OBVIOUS
<1>2. CASE UNCHANGED <<objects, links, spent>>
  BY <1>2 DEF Tree!vars
<1>3. CASE AddInsert(r)
  <2>1. q.kind \in Kinds /\ q.name \in Name
    BY <1>1, <1>3, AtItsPoint DEF AddInsert, Known, AtPoint
  <2>2. PICK o \in Id \ spent :
          /\ HasParent(objects, q.kind, q.up) /\ ~NameTaken(objects, q.kind, q.up, q.name, {})
          /\ objects' = Insert(objects, o, [kind |-> q.kind, up |-> q.up,
                                            name |-> q.name, note |-> Blank])
          /\ spent' = spent \cup {o} /\ UNCHANGED links
    BY <1>1, <1>3 DEF AddInsert, NewRow
  <2> QED BY <2>1, <2>2, InsertCreates
<1>4. CASE PutWrite(r) /\ objects' # objects
  <2> DEFINE row == objects[q.id]
             n   == Coalesce(q.name, row.name)
             t   == Coalesce(q.note, row.note)
  <2>1. /\ q.id \in DOMAIN objects
        /\ objects' = [objects EXCEPT ![q.id] = [kind |-> row.kind, up |-> row.up,
                                                 name |-> n, note |-> t]]
    BY <1>1, <1>4, PutWritesRow DEF InScope
  <2>2. ~NameTaken(objects, q.kind, row.up, q.name, {q.id}) /\ UNCHANGED <<links, spent>>
    BY <1>1, <1>4 DEF PutWrite, Onward, tables
  <2>3. q \in Locals /\ row.kind = q.kind /\ row \in ObjectRow /\ q.id \in Id
    BY <1>1, <1>4, <2>1, AtItsPoint, NoneAssumption
       DEF PutWrite, Known, AtPoint, RowKnown, IInv, TablesSound, Rows
  <2>4. n \in Name /\ t \in Note
    BY <2>3 DEF Locals, ObjectRow, Coalesce
  <2>5. n # row.name => ~Tree!NameTaken(objects, row.kind, row.up, n, {q.id})
    BY <2>2, <2>3, SameTables DEF Coalesce
  <2> HIDE DEF n, t
  <2>6. Tree!Change(q.id)
    BY <2>1, <2>2, <2>4, <2>5 DEF Tree!Change
  <2> QED BY <2>3, <2>6 DEF Tree!Next
<1>5. CASE RemoveDelete(r)
  <2>1. PICK gone : gone = IF InScope(q.id, q, q.up) THEN Subtree(objects, q.id) ELSE {}
    OBVIOUS
  <2>2. /\ objects' = Delete(objects, gone) /\ links' = Cut(links, gone)
        /\ tagged' = {t \in tagged : t[1] \notin gone} /\ UNCHANGED spent
    BY <1>1, <1>5, <2>1 DEF RemoveDelete
  <2>3. CASE InScope(q.id, q, q.up)
    <3>1. q.id \in DOMAIN objects /\ q.id \in Id
      BY <2>3 DEF InScope, IInv, TablesSound, Rows
    <3>2. Tree!Remove(q.id)
      BY <2>1, <2>2, <2>3, <3>1, SameTables DEF Tree!Remove
    <3> QED BY <3>1, <3>2 DEF Tree!Next
  <2>4. CASE ~InScope(q.id, q, q.up)
    <3>1. gone = {}
      BY <2>1, <2>4
    <3> QED BY <2>2, <3>1, NothingDeleted DEF IInv, Tree!vars
  <2> QED BY <2>3, <2>4
<1>6. CASE AttachInsert(r)
  <2>1. SUFFICES ASSUME ~UNCHANGED <<objects, links, spent>> PROVE Tree!Next
    BY <1>2
  <2>2. /\ {q.id, q.up} \subseteq DOMAIN objects
        /\ links' = Insert(links, <<q.id, q.up>>, "active")
        /\ UNCHANGED <<objects, spent>> /\ pc[r] = "attach"
    BY <1>1, <1>6, <2>1 DEF AttachInsert, Outcome, Onward, Proceed, tables
  <2>3. q.id \in Of(objects, "storage") /\ q.up \in Of(objects, "datacenter")
    BY <1>1, <2>2, AtItsPoint DEF Known, AtPoint, Of
  <2>4. "active" \in Attached
    BY DEF Attached
  <2> QED BY <2>2, <2>3, <2>4, LinkSets
<1>7. CASE PutWrite(r) /\ objects' = objects
  <2>1. UNCHANGED <<links, spent>>
    BY <1>7 DEF PutWrite, Onward, tables
  <2> QED BY <1>2, <1>7, <2>1
<1> QED BY <1>2, <1>3, <1>4, <1>5, <1>6, <1>7, ContinueWrites

\* Every step is one of InventoryTree or stutters there; so do crashes.
LEMMA StepImplements == IInv /\ [Next]_vars => [Tree!Next]_(Tree!vars)
<1>1. ASSUME RemoveOption \/ Restart \/ Quiet \/ UNCHANGED vars PROVE UNCHANGED Tree!vars
  BY <1>1 DEF RemoveOption, Restart, Quiet, vars, tables, Tree!vars
<1>2. ASSUME NEW r \in Req, TimeOut(r) PROVE UNCHANGED Tree!vars
  BY <1>2 DEF TimeOut, Outcome, Onward, tables, Tree!vars
<1> QED BY <1>1, <1>2, BeginImplements, ContinueImplements DEF Next

\* Both start from the seed.
LEMMA InitImplements == Init => Tree!Init
BY DEF Init, Tree!Init

\* Whatever statements run side by side, the inventory changes in atomic
\* creates, changes, removals and attachments of InventoryTree.
THEOREM Refinement == Spec => ImplementsTree
BY InitImplements, StepImplements, Invariance, PTL DEF Spec, ImplementsTree, Tree!Spec

=============================================================================
