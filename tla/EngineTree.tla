----------------------------- MODULE EngineTree -----------------------------
(***************************************************************************)
(* The Engine handlers for everything that is not a virtual machine: data  *)
(* centers, clusters, hosts, networks, profiles, quotas, affinity groups,  *)
(* storage domains and their attachments, connections, identity, tags,     *)
(* bookmarks, jobs.  They share one shape, so a handler is a record that   *)
(* says which statements it runs, and one action is one SQL statement of   *)
(* that shape with the Python up to the next one.  Other requests run      *)
(* between any two statements; reads that only choose the answer or        *)
(* commute with every other step are joined to their neighbour.            *)
(***************************************************************************)
EXTENDS InventorySchema

CONSTANTS
  Id,         \* the ids of the seed and those uuid4() will produce
  Unknown,    \* an id in a URL or a body that is no row's and never will be
  Name,       \* names in bodies, and those made of an id where a body has none
  Note,       \* values of the field beside the name
  Blank,      \* its value where the body of a POST leaves it out
  DefaultTag, \* OPT_DEFAULT_TAG_NAME
  Vm,         \* ids in /vms/{id}/tags: no table is asked whether they exist
  Req,        \* the requests clients make, each made once
  Seed        \* inventory the process starts with

VARIABLES
  objects,    \* id -> [kind, up, name, note]
  links,      \* ov_storage_domain_attachments: <<domain, data center>> -> status
  tagged,     \* ov_tag_assignments: <<tag, VM>>
  spent,      \* ids ever used
  options,    \* the rows option_value() needs are all there
  jobs,       \* requests whose row is in ov_jobs
  steps,      \* requests whose row is in ov_job_steps
  pc,         \* request -> its next statement
  rq          \* request -> its Python locals and its answer

tables == <<objects, links, tagged, spent>>
vars   == <<tables, options, jobs, steps, pc, rq>>

-----------------------------------------------------------------------------
\* What a handler does: the kind it serves; whether its URL goes through the
\* parent, and whether it reads that parent first; whether POST reads an
\* option (always, when the body says nothing, never); its methods; those
\* that read the row before they write; the fields PUT may set, and whether
\* it sets them as they are where COALESCE would keep the old value for null.
Handler(kind, options_, does, checked, fields) ==
  [kind |-> kind, through |-> FALSE, guarded |-> FALSE, options |-> options_,
   does |-> does, checked |-> checked, fields |-> fields, plain |-> FALSE]

Nested(h)  == [h EXCEPT !.through = TRUE]
Guarded(h) == [h EXCEPT !.through = TRUE, !.guarded = TRUE]

Always == {TRUE}
Maybe  == {TRUE, FALSE}
Never  == {FALSE}
Reads  == {"get"}
Crud   == Reads \cup {"add", "put", "remove"}
NoPut  == Crud \ {"put"}
Both   == {"name", "note"}

DataCenters == Handler("datacenter", Always, Crud \cup {"act"}, {"put", "remove"}, Both)
DcClusters  == Guarded(Handler("cluster", Maybe, NoPut, {}, {}))
DcNetworks  == Guarded(Handler("network", Never, NoPut, {}, {}))
DcQuotas    == Nested(Handler("quota", Never, Crud, {}, Both))
Clusters    == Handler("cluster", Maybe, Crud \cup {"act"}, {"put", "remove"}, Both)
Affinity    == Nested(Handler("affinity", Never, Crud, {}, Both))
Networks    == Handler("network", Never, Crud, {}, Both)
NetProfiles == Nested(Handler("profile", Never, Reads \cup {"remove"}, {}, {}))
Profiles    == Handler("profile", Never, NoPut, {}, {})
Hosts       == Handler("host", Always, Crud, {"put", "remove"}, Both)
Storage     == Handler("storage", Always, Crud \cup {"act"}, {}, {"name"})
Connections == Handler("connection", Maybe, NoPut, {}, {})
Groups      == Handler("group", Never, Crud, {}, {"name"})
Users       == Handler("user", Never, Reads, {}, {})
Domains     == Handler("domain", Never, Reads, {}, {})
DomainUsers == Guarded(Handler("user", Never, Reads, {}, {}))
DomainGroups == Guarded(Handler("group", Never, Reads, {}, {}))
Permissions == Handler("permission", Never, Reads, {}, {})
Events      == Handler("event", Never, Reads, {}, {})
TopQuotas   == Handler("quota", Never, Reads, {}, {})
TopAffinity == Handler("affinity", Never, Reads, {}, {})
SimpleTable(kind) == [Handler(kind, Never, Crud, {}, Both) EXCEPT !.plain = TRUE]

\* _dispatch: the first segment of the URL picks the handler.
Routes ==
  {DataCenters, DcClusters, DcNetworks, DcQuotas, Clusters, Affinity, Networks,
   NetProfiles, Profiles, Hosts, Storage, Connections, Groups, Users, Domains,
   DomainUsers, DomainGroups, Permissions, Events, TopQuotas, TopAffinity}
    \cup {SimpleTable(kind) : kind \in {"role", "tag", "bookmark"}}

-----------------------------------------------------------------------------
\* Types.

ObjectRow == [kind : Kinds, up : Id \cup {None}, name : Name, note : Note]
Attached  == {"active", "maintenance"}
Points    == {"idle", "insert", "write", "delete", "attach", "find",
              "assign", "reread", "job", "step", "done", "lost"}
Answers   == {"200", "201", "400", "404", "409", "500"}

\* The locals of a handler that outlive a statement.
Locals == [op : Crud \cup {"act", "attach", "tag", None}, kind : Kinds \cup {None},
           through : BOOLEAN, reads : BOOLEAN, plain : BOOLEAN,
           id : Id \cup {Unknown, None}, up : Id \cup Vm \cup {Unknown, None},
           named : SUBSET Both, name : Name \cup {None}, note : Note \cup {None},
           answer : Answers \cup {None}]

Closing(op, id, up, answer) ==
  [op |-> op, kind |-> None, through |-> up # None, reads |-> FALSE, plain |-> FALSE,
   id |-> id, up |-> up, named |-> {}, name |-> None, note |-> None, answer |-> answer]
Fresh == Closing(None, None, None, None)

\* A handler that still has to write: what it serves, the row and its scope.
Working(h, op, id, up) ==
  [Closing(op, id, up, None) EXCEPT !.kind = h.kind, !.through = h.through, !.plain = h.plain]

\* The seed is a tree: every object below a parent that exists, no name twice.
SeedOK ==
  /\ DOMAIN Seed.objects \subseteq Id /\ Seed.objects \in [DOMAIN Seed.objects -> ObjectRow]
  /\ \A o \in DOMAIN Seed.objects :
       LET row == Seed.objects[o]
       IN /\ HasParent(Seed.objects, row.kind, row.up)
          /\ ~NameTaken(Seed.objects, row.kind, row.up, row.name, {o})
  /\ DOMAIN Seed.links \subseteq Of(Seed.objects, "storage") \X Of(Seed.objects, "datacenter")
  /\ Seed.links \in [DOMAIN Seed.links -> Attached]

ASSUME SeedAssumption == SeedOK
ASSUME UnknownAssumption == Unknown \notin Id /\ None \notin Id \cup {Unknown}
                              /\ Blank \in Note /\ DefaultTag \in Name
ASSUME NoneAssumption == None \notin Kinds \cup Vm \cup Name \cup Note \cup Answers \cup Crud

Init ==
  /\ objects = Seed.objects
  /\ links = Seed.links
  /\ tagged = {}
  /\ spent = DOMAIN Seed.objects
  /\ options = TRUE
  /\ jobs = {} /\ steps = {}
  /\ pc = [r \in Req |-> "idle"]
  /\ rq = [r \in Req |-> Fresh]

-----------------------------------------------------------------------------
\* How a handler moves on, and how it ends.

Proceed(r, from, to, locals) ==
  /\ pc[r] = from
  /\ pc' = [pc EXCEPT ![r] = to]
  /\ rq' = [rq EXCEPT ![r] = locals]

Onward(r, from, to, locals) ==
  Proceed(r, from, to, locals) /\ UNCHANGED <<tables, options, jobs, steps>>

\* What is left once only the answer matters; a DELETE keeps its scope.
Tail(r, answer) ==
  Closing(rq[r].op, rq[r].id, IF rq[r].through THEN rq[r].up ELSE None, answer)

Outcome(r, from, code) == Onward(r, from, "done", Tail(r, code))
Refuse(r, op, code)    == Onward(r, "idle", "done", Closing(op, None, None, code))

\* The ids a client can put where a row of this kind is meant.
Meant(kind) == IF kind = None THEN {None} ELSE Of(objects, kind) \cup {Unknown}

\* The parent in a URL that goes through one.
Scopes(h) == IF h.through THEN Meant(Above[h.kind]) ELSE {None}

\* require_datacenter and the like, where the handler begins with it.
Missing(h, up) == h.guarded /\ up \notin DOMAIN objects

\* (InScope with a bug: see the note on names X_Y below.)
InScope_ById(id, h, up) == id \in DOMAIN objects

\* WHERE id = ... AND parent = ...: the row the statement finds.
InScope(id, h, up) == id \in DOMAIN objects /\ (h.through => objects[id].up = up)

-----------------------------------------------------------------------------
\* POST on a collection.

\* The parent is the URL's, else the body's, else the first row of its table:
\* some existing one, NULL when there is none.
Parents(h) ==
  IF Above[h.kind] = None THEN {None}
  ELSE Meant(Above[h.kind]) \cup
         (IF ~h.through /\ Of(objects, Above[h.kind]) = {} THEN {None} ELSE {})

AddBegin(r) ==
  \E h \in Routes :
    /\ "add" \in h.does
    /\ \E up \in Parents(h), n \in Name, reads \in h.options :
         IF Missing(h, up) THEN Refuse(r, "add", "404")
         ELSE Onward(r, "idle", "insert",
                     [Working(h, "add", None, up) EXCEPT !.name = n, !.reads = reads])

\* What can stop the INSERT: an option that is gone, a foreign key that is
\* NULL or dangles, a name that is taken.
AddRefused(r) ==
  LET q == rq[r] IN
  /\ pc[r] = "insert"
  /\ \/ q.reads /\ ~options /\ Outcome(r, "insert", "500")
     \/ ~HasParent(objects, q.kind, q.up) /\ Outcome(r, "insert", "400")
     \/ NameTaken(objects, q.kind, q.up, q.name, {}) /\ Outcome(r, "insert", "409")

NewRow(q) == [kind |-> q.kind, up |-> q.up, name |-> q.name, note |-> Blank]

\* Operators named X_Y are X with the bug Y; the model uses none of them.

\* An id made from the name, as the seed makes its ids.
AddInsert_StableId(r) ==
  LET q == rq[r] IN
  /\ pc[r] = "insert"
  /\ q.reads => options
  /\ HasParent(objects, q.kind, q.up)
  /\ ~NameTaken(objects, q.kind, q.up, q.name, {})
  /\ \E o \in Id \ DOMAIN objects :
       /\ objects' = Insert(objects, o, NewRow(q))
       /\ spent' = spent \cup {o}
       /\ Proceed(r, "insert", "reread", Closing("add", o, None, None))
  /\ UNCHANGED <<links, tagged, options, jobs, steps>>

\* The option read after the INSERT, for the answer: the None of a missing one
\* crashes there, which handle_engine_request turns into 404.
AddInsert_OptionsLate(r) ==
  LET q == rq[r] IN
  /\ pc[r] = "insert"
  /\ HasParent(objects, q.kind, q.up)
  /\ ~NameTaken(objects, q.kind, q.up, q.name, {})
  /\ \E o \in Id \ spent :
       /\ objects' = Insert(objects, o, NewRow(q))
       /\ spent' = spent \cup {o}
       /\ IF q.reads /\ ~options
          THEN Proceed(r, "insert", "done", Closing("add", o, None, "404"))
          ELSE Proceed(r, "insert", "reread", Closing("add", o, None, None))
  /\ UNCHANGED <<links, tagged, options, jobs, steps>>

AddInsert(r) ==
  LET q == rq[r] IN
  /\ pc[r] = "insert"
  /\ q.reads => options
  /\ HasParent(objects, q.kind, q.up)
  /\ ~NameTaken(objects, q.kind, q.up, q.name, {})
  /\ \E o \in Id \ spent :
       /\ objects' = Insert(objects, o, NewRow(q))
       /\ spent' = spent \cup {o}
       /\ Proceed(r, "insert", "reread", Closing("add", o, None, None))
  /\ UNCHANGED <<links, tagged, options, jobs, steps>>

\* The row is read back for the answer; None crashes the entity builder,
\* which handle_engine_request turns into 404.
AddReread(r) ==
  /\ rq[r].op = "add"
  /\ Outcome(r, "reread", IF rq[r].id \in DOMAIN objects THEN "201" ELSE "404")

-----------------------------------------------------------------------------
\* PUT on an object.

\* body.get(field): a value when the body names the field, else None.
Given(field, named, values) == IF field \in named THEN values ELSE {None}

\* A write-back of the whole row read at the start, as if COALESCE were
\* done in Python.
PutBegin_WholeRow(r) ==
  \E h \in Routes :
    /\ "put" \in h.does
    /\ \E id \in Meant(h.kind), up \in Scopes(h), named \in SUBSET h.fields :
         LET found == id \in DOMAIN objects
         IN IF "put" \in h.checked /\ ~found THEN Refuse(r, "put", "404")
            ELSE \E n \in Given("name", named, Name), t \in Given("note", named, Note) :
              Onward(r, "idle", "write",
                     [Working(h, "put", id, up) EXCEPT
                        !.named = named,
                        !.name = IF n = None /\ found THEN objects[id].name ELSE n,
                        !.note = IF t = None /\ found THEN objects[id].note ELSE t])

PutBegin(r) ==
  \E h \in Routes :
    /\ "put" \in h.does
    /\ \E id \in Meant(h.kind), up \in Scopes(h), named \in SUBSET h.fields :
         IF "put" \in h.checked /\ id \notin DOMAIN objects THEN Refuse(r, "put", "404")
         ELSE \E n \in Given("name", named, Name), t \in Given("note", named, Note) :
           Onward(r, "idle", "write",
                  [Working(h, "put", id, up) EXCEPT !.named = named, !.name = n, !.note = t])

Coalesce_Nulls(value, old) == value

Coalesce(value, old) == IF value = None THEN old ELSE value

PutWrite_Upsert(r) ==
  LET q == rq[r] IN
  /\ pc[r] = "write"
  /\ Proceed(r, "write", "reread", q)
  /\ objects' = IF q.id = Unknown \/ q.name = None THEN objects
                ELSE Insert(objects, q.id,
                            [kind |-> q.kind, name |-> q.name, note |-> Coalesce(q.note, Blank),
                             up |-> IF q.id \in DOMAIN objects THEN objects[q.id].up ELSE None])
  /\ UNCHANGED <<links, tagged, spent, options, jobs, steps>>

PutWrite(r) ==
  LET q == rq[r] IN
  /\ pc[r] = "write"
  /\ IF ~InScope(q.id, q, q.up)
     THEN Onward(r, "write", "reread", q)
     ELSE LET row == objects[q.id] IN
          /\ ~NameTaken(objects, q.kind, row.up, q.name, {q.id})
          /\ objects' = [objects EXCEPT ![q.id] =
                           [kind |-> row.kind, up |-> row.up,
                            name |-> Coalesce(q.name, row.name),
                            note |-> Coalesce(q.note, row.note)]]
          /\ Proceed(r, "write", "reread", q)
          /\ UNCHANGED <<links, tagged, spent, options, jobs, steps>>

\* The unique index refuses the name; a role, tag or bookmark whose body says
\* "name": null runs into NOT NULL, which COALESCE keeps the others from.
PutRefused(r) ==
  LET q == rq[r] IN
  /\ pc[r] = "write"
  /\ InScope(q.id, q, q.up)
  /\ \/ /\ NameTaken(objects, q.kind, objects[q.id].up, q.name, {q.id})
        /\ Outcome(r, "write", "409")
     \/ q.plain /\ q.named # {} /\ Outcome(r, "write", "400")

PutReread(r) ==
  /\ rq[r].op = "put"
  /\ Outcome(r, "reread", IF InScope(rq[r].id, rq[r], rq[r].up) THEN "200" ELSE "404")

-----------------------------------------------------------------------------
\* DELETE of an object.

RemoveBegin(r) ==
  \E h \in Routes :
    /\ "remove" \in h.does
    /\ \E id \in Meant(h.kind), up \in Scopes(h) :
         IF Missing(h, up) \/ ("remove" \in h.checked /\ id \notin DOMAIN objects)
         THEN Refuse(r, "remove", "404")
         ELSE Onward(r, "idle", "delete", Working(h, "remove", id, up))

\* DELETE of no row is no error; a time-out may come too late to stop it.
RemoveDelete(r) ==
  LET q    == rq[r]
      gone == IF InScope(q.id, q, q.up) THEN Subtree(objects, q.id) ELSE {}
  IN /\ \E code \in {"200", "500"} : Proceed(r, "delete", "done", Tail(r, code))
     /\ objects' = Delete(objects, gone)
     /\ links' = Cut(links, gone)
     /\ tagged' = {t \in tagged : t[1] \notin gone}
     /\ UNCHANGED <<spent, options, jobs, steps>>

-----------------------------------------------------------------------------
\* GET: the reads choose the answer and nothing else.

Found(h, id, up) == IF Missing(h, up) \/ ~InScope(id, h, up) THEN "404" ELSE "200"
Listed(h, up)    == IF Missing(h, up) THEN "404" ELSE "200"

Read(r) ==
  \E h \in Routes :
    \E code \in {Found(h, id, up) : id \in Meant(h.kind), up \in Scopes(h)}
                 \cup {Listed(h, up) : up \in Scopes(h)} :
      Refuse(r, "get", code)

\* The networks of a cluster are those of its data center.
ClusterNetwork(c, n) ==
  IF c \in DOMAIN objects /\ n \in DOMAIN objects /\ objects[n].up = objects[c].up
  THEN "200" ELSE "404"

ReadClusterNetworks(r) ==
  \E code \in {ClusterNetwork(c, n) : c \in Meant("cluster"), n \in Meant("network")}
               \cup {IF c \in DOMAIN objects THEN "200" ELSE "404" : c \in Meant("cluster")} :
    Refuse(r, "get", code)

\* A job and its steps: a job whose step is not written yet has none to get.
ReadJobs(r) ==
  \E code \in {"200"} \cup {IF j \in table THEN "200" ELSE "404" : table \in {jobs, steps}, j \in Req} :
    Refuse(r, "get", code)

-----------------------------------------------------------------------------
\* Storage domains of a data center.

AttachBegin(r) ==
  \E s \in Meant("storage") \cup {None}, d \in Meant("datacenter") :
    IF s = None THEN Refuse(r, "attach", "400")
    ELSE Onward(r, "idle", "attach", Closing("attach", s, d, None))

\* ON CONFLICT DO NOTHING: a domain attached already keeps its status.
AttachInsert(r) ==
  LET l == <<rq[r].id, rq[r].up>> IN
  IF ~options THEN Outcome(r, "attach", "500")
  ELSE IF {l[1], l[2]} \subseteq DOMAIN objects
  THEN /\ links' = IF l \in DOMAIN links THEN links ELSE Insert(links, l, "active")
       /\ Proceed(r, "attach", "reread", rq[r])
       /\ UNCHANGED <<objects, tagged, spent, options, jobs, steps>>
  ELSE Outcome(r, "attach", "400")

AttachReread(r) ==
  /\ rq[r].op = "attach"
  /\ Outcome(r, "reread", IF rq[r].id \in DOMAIN objects THEN "201" ELSE "404")

\* POST .../activate, .../deactivate: UPDATE of no row is no error, and the
\* job is written all the same.
SwitchLink(r) ==
  \E s \in Meant("storage"), d \in Meant("datacenter"), status \in Attached :
    IF ~options THEN Refuse(r, "act", "500")
    ELSE /\ Proceed(r, "idle", "job", Closing("act", None, None, "200"))
         /\ links' = [l \in DOMAIN links |-> IF l = <<s, d>> THEN status ELSE links[l]]
         /\ UNCHANGED <<objects, tagged, spent, options, jobs, steps>>

Detach(r) ==
  \E s \in Meant("storage"), d \in Meant("datacenter"), code \in {"200", "500"} :
    /\ Proceed(r, "idle", "done", Closing("remove", None, None, code))
    /\ links' = Delete(links, {<<s, d>>})
    /\ UNCHANGED <<objects, tagged, spent, options, jobs, steps>>

ReadLink(r) ==
  \E code \in {"200"} \cup {IF <<s, d>> \in DOMAIN links THEN "200" ELSE "404" :
                              s \in Meant("storage"), d \in Meant("datacenter")} :
    Refuse(r, "get", code)

-----------------------------------------------------------------------------
\* POST /vms/{id}/tags: the tag of the body's id, or the one of its name, made
\* when there is none.

TagById(r) ==
  \E t \in Meant("tag"), v \in Vm : Onward(r, "idle", "assign", Closing("tag", t, v, None))

\* INSERT ... ON CONFLICT (name) DO NOTHING, under the default name when the
\* body has none; an id that got no row is as good as unknown.
TagByName(r) ==
  \E n \in Name \cup {None}, v \in Vm :
    LET name   == IF n = None THEN DefaultTag ELSE n
        next(id) == Proceed(r, "idle", "find", [Closing("tag", id, v, None) EXCEPT !.name = n])
    IN /\ UNCHANGED <<links, tagged, options, jobs, steps>>
       /\ IF n = None /\ ~options
          THEN Refuse(r, "tag", "500")
          ELSE IF NameTaken(objects, "tag", None, name, {})
          THEN next(Unknown) /\ UNCHANGED <<objects, spent>>
          ELSE \E o \in Id \ spent :
                 /\ objects' = Insert(objects, o, [kind |-> "tag", up |-> None,
                                                   name |-> name, note |-> Blank])
                 /\ spent' = spent \cup {o}
                 /\ next(o)

\* The tag that has the name of the body now; WHERE name = NULL finds none,
\* so that a body without a name keeps the id just made, row or no row.
TagFind(r) ==
  LET found == {t \in Of(objects, "tag") : objects[t].name = rq[r].name}
  IN \E t \in IF found = {} THEN {rq[r].id} ELSE found :
       Onward(r, "find", "assign", Closing("tag", t, rq[r].up, None))

TagAssign_OnePerVm(r) ==
  LET t == <<rq[r].id, rq[r].up>> IN
  IF t[1] \notin Of(objects, "tag") THEN Outcome(r, "assign", "400")
  ELSE /\ tagged' = IF \E u \in tagged : u[2] = t[2] THEN tagged ELSE tagged \cup {t}
       /\ Proceed(r, "assign", "reread", rq[r])
       /\ UNCHANGED <<objects, links, spent, options, jobs, steps>>

TagAssign(r) ==
  LET t == <<rq[r].id, rq[r].up>> IN
  IF t[1] \notin Of(objects, "tag") THEN Outcome(r, "assign", "400")
  ELSE /\ tagged' = tagged \cup {t}
       /\ Proceed(r, "assign", "reread", rq[r])
       /\ UNCHANGED <<objects, links, spent, options, jobs, steps>>

TagReread(r) ==
  /\ rq[r].op = "tag"
  /\ Outcome(r, "reread", IF rq[r].id \in DOMAIN objects THEN "201" ELSE "404")

-----------------------------------------------------------------------------
\* Actions that write only a job: of a storage domain or a cluster, which
\* need not exist, and the data center's "clean finished tasks".
Act(r) ==
  \E h \in Routes :
    /\ "act" \in h.does
    /\ Onward(r, "idle", "job", Closing("act", None, None, "200"))

JobInsert(r) ==
  IF ~options THEN Outcome(r, "job", "500")
  ELSE /\ Proceed(r, "job", "step", rq[r])
       /\ jobs' = jobs \cup {r}
       /\ UNCHANGED <<tables, options, steps>>

\* The job is read back after its step is written, and that may fail.
StepInsert(r) ==
  /\ \E answer \in {rq[r].answer, "500"} :
       Proceed(r, "step", "done", [rq[r] EXCEPT !.answer = answer])
  /\ steps' = steps \cup {r}
  /\ UNCHANGED <<tables, options, jobs>>

InFlight(r) == pc[r] \notin {"idle", "done", "lost"}

\* Any statement may exceed the connection's command_timeout: the handler ends
\* there with 500, and what its earlier statements committed stays.  When the
\* statement took effect all the same, this is the step after it.
TimeOut(r) == InFlight(r) /\ Outcome(r, pc[r], "500")

-----------------------------------------------------------------------------
\* DELETE /options/{id}; the next start of the process writes them back.
RemoveOption ==
  /\ options
  /\ options' = FALSE
  /\ UNCHANGED <<tables, jobs, steps, pc, rq>>

\* The process dies and starts again on the same database, which holds a
\* sized demo: what it was serving is gone, what it committed is not.
Restart ==
  /\ ~options \/ \E r \in Req : InFlight(r)
  /\ pc' = [r \in Req |-> IF InFlight(r) THEN "lost" ELSE pc[r]]
  /\ rq' = [r \in Req |-> IF InFlight(r) THEN Fresh ELSE rq[r]]
  /\ options' = TRUE
  /\ UNCHANGED <<tables, jobs, steps>>

Begin(r) ==
  /\ pc[r] = "idle"
  /\ \/ AddBegin(r) \/ PutBegin(r) \/ RemoveBegin(r) \/ AttachBegin(r)
     \/ TagById(r) \/ TagByName(r)
     \/ Read(r) \/ ReadClusterNetworks(r) \/ ReadJobs(r) \/ ReadLink(r)
     \/ SwitchLink(r) \/ Detach(r) \/ Act(r)

Continue(r) ==
  \/ AddRefused(r) \/ AddInsert(r) \/ AddReread(r)
  \/ PutWrite(r) \/ PutRefused(r) \/ PutReread(r) \/ RemoveDelete(r)
  \/ AttachInsert(r) \/ AttachReread(r)
  \/ TagFind(r) \/ TagAssign(r) \/ TagReread(r)
  \/ JobInsert(r) \/ StepInsert(r)

\* Every request of the run has been made and answered or lost.
Quiet == (\A r \in Req : pc[r] \in {"done", "lost"}) /\ UNCHANGED vars

Next ==
  \/ \E r \in Req : Begin(r) \/ Continue(r) \/ TimeOut(r)
  \/ RemoveOption \/ Restart \/ Quiet

Spec == Init /\ [][Next]_vars

-----------------------------------------------------------------------------
\* Properties.

\* Every variable has its type: in particular no field of a row becomes NULL.
TypeOK ==
  /\ DOMAIN objects \subseteq Id /\ objects \in [DOMAIN objects -> ObjectRow]
  /\ links \in [DOMAIN links -> Attached]
  /\ tagged \subseteq Id \X Vm
  /\ spent \subseteq Id
  /\ options \in BOOLEAN
  /\ steps \subseteq jobs /\ jobs \subseteq Req
  /\ pc \in [Req -> Points]
  /\ rq \in [Req -> Locals]

\* The inventory is a tree whatever runs side by side: every object hangs
\* below a parent of its schema that exists (the handlers read, default or
\* check that parent one or two statements before the INSERT), no two share
\* a name where one is to be unique, attachments have both their ends and
\* assignments their tag.
TreeSound ==
  /\ \A o \in DOMAIN objects :
       LET row == objects[o]
       IN /\ HasParent(objects, row.kind, row.up)
          /\ ~NameTaken(objects, row.kind, row.up, row.name, {o})
  /\ DOMAIN links \subseteq Of(objects, "storage") \X Of(objects, "datacenter")
  /\ \A t \in tagged : t[1] \in Of(objects, "tag")

\* A POST refused with 400, 404 or 409 has left no object behind: what can
\* refuse it comes before the INSERT, and when the row read back is missing it
\* is missing for good.  (The client would otherwise retry into a second
\* object.)  A 500 promises nothing: a time-out after the INSERT leaves it.
NoResidue ==
  \A r \in Req :
    pc[r] = "done" /\ rq[r].op = "add" /\ rq[r].answer \in {"400", "404", "409"} =>
      rq[r].id \notin DOMAIN objects

\* A DELETE answered 200 leaves no such object below the parent in its URL,
\* then and for ever, though a PUT that read the row before may still write.
GoneForGood ==
  \A r \in Req :
    pc[r] = "done" /\ rq[r].op = "remove" /\ rq[r].answer = "200"
      /\ rq[r].id \in DOMAIN objects =>
        rq[r].through /\ objects[rq[r].id].up # rq[r].up

\* A VM whose client was told 201 has that tag for as long as the tag is
\* there, though its id was read two statements before the assignment and
\* tags are renamed and removed meanwhile.
TagsTellTheTruth ==
  \A r \in Req :
    pc[r] = "done" /\ rq[r].op = "tag" /\ rq[r].answer = "201" =>
      <<rq[r].id, rq[r].up>> \in tagged \/ rq[r].id \notin DOMAIN objects

Changed(o) ==
  o \in DOMAIN objects /\ (o \notin DOMAIN objects' \/ objects'[o] # objects[o])

\* A write through a parent's URL touches only what hangs below that parent,
\* though most of these handlers never look whether the parent is there.
ScopedWrites ==
  [][\A r \in Req, o \in Id :
       pc'[r] # pc[r] /\ rq[r].op \in {"put", "remove"} /\ rq[r].through /\ Changed(o) =>
         rq[r].up \in {objects[o].up} \cup {objects[p].up : p \in {objects[o].up} \cap DOMAIN objects}]_vars

\* A PUT changes the object its URL names and no other, and of that one the
\* fields its body names; it leaves the others as they are then, not as they
\* were when the handler read the row.
NamedFieldsOnly ==
  [][\A r \in Req, o \in DOMAIN objects \cap DOMAIN objects' :
       pc'[r] # pc[r] /\ rq[r].op = "put" =>
         /\ objects'[o] # objects[o] => o = rq[r].id
         /\ objects'[o].name # objects[o].name => "name" \in rq[r].named
         /\ objects'[o].note # objects[o].note => "note" \in rq[r].named]_vars

\* The handlers implement InventoryTree: each statement is one of its atomic
\* steps or changes nothing it can see.
Tree == INSTANCE InventoryTree
ImplementsTree == Tree!Spec
=============================================================================
