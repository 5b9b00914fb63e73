----------------------------- MODULE EngineVms -----------------------------
(***************************************************************************)
(* The Engine handlers for VMs, and what hosts and clusters do to VMs, as  *)
(* the simulator runs them: each request is a coroutine on one event loop, *)
(* each SQL statement commits by itself, and other requests run between    *)
(* two statements of a handler.  A handler reads a row, decides, and later *)
(* writes from what it read.  One action is one statement, together with   *)
(* the Python up to the next one; reads that only choose the answer or     *)
(* commute with every other step are joined to their neighbour.            *)
(***************************************************************************)
EXTENDS Tables

CONSTANTS
  Vm, Host, Cluster,   \* ids: those of the seed and those uuid4() will produce
  Name,                \* VM names clients use
  Req,                 \* the requests clients make, each made once
  None,                \* SQL NULL, and a local not assigned yet
  Power,               \* OPT_VM_ACTION_STATUS_MAP: action -> status
  Release,             \* the actions whose handler sets host_id to NULL
  HostPower,           \* OPT_HOST_ACTION_STATUS_MAP: host action -> status
  DefaultStatus,       \* OPT_DEFAULT_VM_STATUS
  Seed                 \* inventory the process starts with

VARIABLES
  vms,        \* ov_vms: id -> [cluster, name, status, host]
  hosts,      \* ov_hosts: id -> [cluster, status]
  clusters,   \* ov_clusters
  spent,      \* ids ever used: uuid4() and the seed's stable ids never collide
  options,    \* the rows option_value() needs are all there
  jobs,       \* requests whose row is in ov_jobs
  steps,      \* requests whose row is in ov_job_steps
  pc,         \* request -> its next statement
  rq          \* request -> its Python locals and its answer

tables == <<vms, hosts, clusters, spent>>
vars   == <<tables, options, jobs, steps, pc, rq>>

-----------------------------------------------------------------------------
\* Types.

Statuses     == {Power[a] : a \in DOMAIN Power} \cup {DefaultStatus}
                  \cup {Seed.vms[v].status : v \in DOMAIN Seed.vms}
HostStatuses == {HostPower[a] : a \in DOMAIN HostPower} \cup {"up"}
VmRow        == [cluster : Cluster, name : Name, status : Statuses,
                 host : Host \cup {None}]
HostRow      == [cluster : Cluster, status : HostStatuses]

Ops     == {"create", "clone", "update", "remove", "action", "noop", "host"}
Points  == {"idle", "check", "prepare", "write", "insert", "delete", "copy",
            "reread", "hostwrite", "job", "step", "done", "lost"}
Answers == {"200", "201", "400", "404", "409", "500"}

\* The locals of a handler that outlive a statement.
Locals  == [op : Ops \cup {None}, vm : Vm \cup {None},
            cluster : Cluster \cup {None}, host : Host \cup {None},
            name : Name \cup {None}, act : DOMAIN Power \cup DOMAIN HostPower \cup {None},
            answer : Answers \cup {None}]

\* A handler that holds what it still needs, and one that only has to answer.
Held(op, vm, name, act, cluster, host) ==
  [op |-> op, vm |-> vm, name |-> name, act |-> act,
   cluster |-> cluster, host |-> host, answer |-> None]
Closing(op, vm, answer) ==
  [op |-> op, vm |-> vm, name |-> None, act |-> None,
   cluster |-> None, host |-> None, answer |-> answer]
Fresh == Closing(None, None, None)

\* The seed is one a profile or API calls produce: every VM in a cluster that
\* exists, on no host or on one that exists.  The host need not be of the VM's
\* cluster: the sized demos deal out hosts and clusters each in turn.
SeedOK ==
  /\ DOMAIN Seed.vms \subseteq Vm /\ Seed.vms \in [DOMAIN Seed.vms -> VmRow]
  /\ DOMAIN Seed.hosts \subseteq Host /\ Seed.hosts \in [DOMAIN Seed.hosts -> HostRow]
  /\ Seed.clusters \subseteq Cluster
  /\ \A h \in DOMAIN Seed.hosts : Seed.hosts[h].cluster \in Seed.clusters
  /\ \A v \in DOMAIN Seed.vms :
       /\ Seed.vms[v].cluster \in Seed.clusters
       /\ Seed.vms[v].host \in DOMAIN Seed.hosts \cup {None}
       /\ \A w \in DOMAIN Seed.vms \ {v} :
            Seed.vms[v].cluster = Seed.vms[w].cluster =>
              Seed.vms[v].name # Seed.vms[w].name

SeededOn(v, h) == v \in DOMAIN Seed.vms /\ Seed.vms[v].host = h

ASSUME SeedAssumption == SeedOK
ASSUME NoneAssumption == None \notin Vm \cup Host \cup Cluster \cup Name \cup Ops
ASSUME ActionAssumption == Release \subseteq DOMAIN Power

Init ==
  /\ vms = Seed.vms
  /\ hosts = Seed.hosts
  /\ clusters = Seed.clusters
  /\ spent = DOMAIN Seed.vms \cup DOMAIN Seed.hosts \cup Seed.clusters
  /\ options = TRUE
  /\ jobs = {} /\ steps = {}
  /\ pc = [r \in Req |-> "idle"]
  /\ rq = [r \in Req |-> Fresh]

-----------------------------------------------------------------------------
\* How a handler moves on, and how it ends.

Proceed(r, from, to, locals) ==
  /\ pc[r] = from
  /\ pc' = [pc EXCEPT ![r] = to]
  /\ rq' = [rq EXCEPT ![r] = locals]

\* What is left of the locals once nothing but the job is still to be written.
Tail(r, answer) == Closing(rq[r].op, rq[r].vm, answer)

Answer(r, from, code) == Proceed(r, from, "done", Tail(r, code))

Outcome(r, from, code) == Answer(r, from, code) /\ UNCHANGED <<tables, options, jobs, steps>>
Onward(r, from, to, locals) ==
  Proceed(r, from, to, locals) /\ UNCHANGED <<tables, options, jobs, steps>>

\* Operators named X_Y are X with the bug Y; the model uses none of them.
NameTaken_NoIndex(c, n, others) == FALSE

NameTaken(c, n, others) ==
  \E w \in DOMAIN vms \cap others : vms[w].cluster = c /\ vms[w].name = n

-----------------------------------------------------------------------------
\* POST /vms.

CreateResolve_Unnamed(r) ==
  \E c \in clusters : Onward(r, "idle", "insert", Held("create", None, None, None, c, None))

\* The cluster named in the body when it exists, else the one found by name,
\* else the first: some existing cluster, or 400 when there is none.
CreateResolve(r) ==
  \E n \in Name :
    IF clusters = {}
    THEN Onward(r, "idle", "done", Closing("create", None, "400"))
    ELSE \E c \in clusters :
           Onward(r, "idle", "insert", Held("create", None, n, None, c, None))

\* INSERT INTO ov_vms, for POST /vms and for clone.  The foreign keys and the
\* unique index are checked here, against the rows there are now: the
\* cluster and the template were read earlier.
InsertRefused(r) ==
  \/ ~options /\ Outcome(r, "insert", "500")
  \/ Outcome(r, "insert", "400") /\ rq[r].cluster \notin clusters
  \/ Outcome(r, "insert", "400")  \* template deleted since it was read
  \/ Outcome(r, "insert", "409") /\ NameTaken(rq[r].cluster, rq[r].name, Vm)

InsertVm(r) ==
  /\ pc[r] = "insert"
  /\ options
  /\ rq[r].cluster \in clusters
  /\ ~NameTaken(rq[r].cluster, rq[r].name, Vm)
  /\ \E v \in Vm \ spent :
       /\ vms' = Insert(vms, v, [cluster |-> rq[r].cluster, name |-> rq[r].name,
                                 status |-> DefaultStatus, host |-> None])
       /\ spent' = spent \cup {v}
       /\ Proceed(r, "insert", IF rq[r].op = "clone" THEN "copy" ELSE "reread",
                  Closing(rq[r].op, v, None))
  /\ UNCHANGED <<hosts, clusters, options, jobs, steps>>

\* The new row is read back; when it is gone again the answer is 404, sent
\* only after the job "Add VM" is written.
CreateReread(r) ==
  /\ rq[r].op = "create"
  /\ Onward(r, "reread", "job", Tail(r, IF rq[r].vm \in DOMAIN vms THEN "201" ELSE "404"))

-----------------------------------------------------------------------------
\* PUT, DELETE and POST on /vms/{id}: the row is read first.

ReadVm(r, op, v, next, locals) ==
  IF v \in DOMAIN vms
  THEN Onward(r, "idle", next, locals)
  ELSE Onward(r, "idle", "done", Closing(op, v, "404"))

\* PUT: a name not in the body is the one just read.
UpdateRead(r) ==
  \E v \in Vm \cap spent, n \in Name :
    ReadVm(r, "update", v, "write", Held("update", v, n, None, None, None))

UpdateWrite_Upsert(r) ==
  /\ pc[r] = "write" /\ rq[r].op = "update"
  /\ \E c \in clusters :
       vms' = Insert(vms, rq[r].vm, [cluster |-> c, name |-> rq[r].name,
                                     status |-> DefaultStatus, host |-> None])
  /\ Proceed(r, "write", "reread", Tail(r, None))
  /\ UNCHANGED <<hosts, clusters, spent, options, jobs, steps>>

UpdateWrite(r) ==
  LET v == rq[r].vm IN
  /\ pc[r] = "write" /\ rq[r].op = "update"
  /\ IF v \notin DOMAIN vms
     THEN Onward(r, "write", "reread", Tail(r, None))
     ELSE IF NameTaken(vms[v].cluster, rq[r].name, Vm \ {v})
     THEN Outcome(r, "write", "409")
     ELSE /\ vms' = [vms EXCEPT ![v].name = rq[r].name]
          /\ Proceed(r, "write", "reread", Tail(r, None))
          /\ UNCHANGED <<hosts, clusters, spent, options, jobs, steps>>

UpdateReread(r) ==
  /\ rq[r].op = "update"
  /\ Outcome(r, "reread", IF rq[r].vm \in DOMAIN vms THEN "200" ELSE "404")

RemoveRead(r) ==
  \E v \in Vm \cap spent :
    ReadVm(r, "remove", v, "delete", Closing("remove", v, None))

RemoveDelete_KeepsUp(r) ==
  LET v == rq[r].vm IN
  /\ Proceed(r, "delete", "job", Tail(r, "200"))
  /\ vms' = IF v \in DOMAIN vms /\ vms[v].status = "up" THEN vms ELSE Delete(vms, {v})
  /\ UNCHANGED <<hosts, clusters, spent, options, jobs, steps>>

\* DELETE of no row is no error: the job is written and the answer is 200.
RemoveDelete(r) ==
  /\ Proceed(r, "delete", "job", Tail(r, "200"))
  /\ vms' = Delete(vms, {rq[r].vm})
  /\ UNCHANGED <<hosts, clusters, spent, options, jobs, steps>>

\* POST .../export, .../ticket and the like write only a job.
NoopRead(r) ==
  \E v \in Vm \cap spent :
    ReadVm(r, "noop", v, "job", Closing("noop", v, "200"))

-----------------------------------------------------------------------------
\* POST /vms/{id}/clone.

CloneRead(r) ==
  \E v \in Vm \cap spent, n \in Name :
    ReadVm(r, "clone", v, "check",
           Held("clone", v, n, None, vms[v].cluster, None))

\* The name may be used nowhere, though the index is per cluster.
CloneCheck(r) ==
  IF \E w \in DOMAIN vms : vms[w].name = rq[r].name
  THEN Outcome(r, "check", "409")
  ELSE Onward(r, "check", "insert", rq[r])

CloneCopy_Waits(r) ==
  rq[r].vm \in DOMAIN vms /\ Onward(r, "copy", "job", Tail(r, "200"))

\* Disks and NICs are copied to the new VM, which may be gone by then, as may
\* the rows the copies refer to, or their names be taken meanwhile: VmStorage
\* has the tables that decide.  A VM with nothing to copy does not notice.
CloneCopy(r) ==
  \/ Onward(r, "copy", "job", Tail(r, "200"))
  \/ Outcome(r, "copy", "400")
  \/ Outcome(r, "copy", "409")

-----------------------------------------------------------------------------
\* POST /vms/{id}/{start, stop, ...}.

ActionRead(r) ==
  \E v \in Vm \cap spent, a \in DOMAIN Power :
    ReadVm(r, "action", v, "prepare",
           Held("action", v, None, a, vms[v].cluster, vms[v].host))

UpHosts_AnyCluster(c) == {h \in DOMAIN hosts : hosts[h].status = "up"}
UpHosts(c) == {h \in DOMAIN hosts : hosts[h].cluster = c /\ hosts[h].status = "up"}

\* The status map is read, and for a start of an unplaced VM a host is
\* picked: any host of the VM's cluster that is up, none when there is none.
ActionPrepare(r) ==
  LET pick == rq[r].act = "start" /\ rq[r].host = None
      up   == UpHosts(rq[r].cluster)
  IN IF ~options THEN Outcome(r, "prepare", "500")
     ELSE \E h \in (IF ~pick THEN {rq[r].host} ELSE IF up = {} THEN {None} ELSE up) :
            Onward(r, "prepare", "write", [rq[r] EXCEPT !.host = h])

ActionWrite_NoForeignKey(r) ==
  /\ rq[r].op = "action"
  /\ Proceed(r, "write", "job", Tail(r, "200"))
  /\ vms' = [v \in DOMAIN vms |->
               IF v = rq[r].vm THEN [vms[v] EXCEPT !.host = rq[r].host] ELSE vms[v]]
  /\ UNCHANGED <<hosts, clusters, spent, options, jobs, steps>>

\* UPDATE ov_vms SET status, host_id: no row when the VM is gone, a foreign
\* key error when the host is.
ActionWrite(r) ==
  LET v == rq[r].vm
      h == IF rq[r].act \in Release THEN None ELSE rq[r].host
  IN /\ pc[r] = "write" /\ rq[r].op = "action"
     /\ IF v \notin DOMAIN vms
        THEN Onward(r, "write", "job", Tail(r, "200"))
        ELSE IF h # None /\ h \notin DOMAIN hosts
        THEN Outcome(r, "write", "400")
        ELSE /\ vms' = [vms EXCEPT ![v] = [cluster |-> @.cluster, name |-> @.name,
                                           status |-> Power[rq[r].act], host |-> h]]
             /\ Proceed(r, "write", "job", Tail(r, "200"))
             /\ UNCHANGED <<hosts, clusters, spent, options, jobs, steps>>

-----------------------------------------------------------------------------
\* create_job: the options, then the job, then its step; the answer follows.

JobInsert_NoStep(r) ==
  /\ options
  /\ Answer(r, "job", rq[r].answer)
  /\ jobs' = jobs \cup {r}
  /\ UNCHANGED <<tables, options, steps>>

JobInsert(r) ==
  IF ~options THEN Outcome(r, "job", "500")
  ELSE /\ Proceed(r, "job", "step", rq[r])
       /\ jobs' = jobs \cup {r}
       /\ UNCHANGED <<tables, options, steps>>

\* The job is read back after its step is written, and that may fail.
StepInsert(r) ==
  /\ \E answer \in {rq[r].answer, "500"} : Answer(r, "step", answer)
  /\ steps' = steps \cup {r}
  /\ UNCHANGED <<tables, options, jobs>>

InFlight(r) == pc[r] \notin {"idle", "done", "lost"}

\* Any statement may exceed the connection's command_timeout: the handler ends
\* there with 500, and what its earlier statements committed stays.  When the
\* statement took effect all the same, this is the step after it.
TimeOut(r) == InFlight(r) /\ Outcome(r, pc[r], "500")

-----------------------------------------------------------------------------
\* Hosts, clusters and data centers.  Each handler has one statement that
\* writes; the others only choose between 200 and 404.

\* POST /hosts/{id}/{activate, deactivate, ...}.
HostActionRead(r) ==
  \E h \in Host \cap spent, a \in DOMAIN HostPower :
    IF h \in DOMAIN hosts
    THEN Onward(r, "idle", "hostwrite", Held("host", None, None, a, None, h))
    ELSE Onward(r, "idle", "done", Closing("host", None, "404"))

HostActionWrite(r) ==
  IF ~options THEN Outcome(r, "hostwrite", "500")
  ELSE /\ Proceed(r, "hostwrite", "job", Tail(r, "200"))
       /\ hosts' = [h \in DOMAIN hosts |->
                      IF h = rq[r].host
                      THEN [hosts[h] EXCEPT !.status = HostPower[rq[r].act]]
                      ELSE hosts[h]]
       /\ UNCHANGED <<vms, clusters, spent, options, jobs, steps>>

requests == <<options, jobs, steps, pc, rq>>

AddHost ==
  /\ options
  /\ \E h \in Host \ spent, c \in clusters :
       /\ hosts' = Insert(hosts, h, [cluster |-> c, status |-> "up"])
       /\ spent' = spent \cup {h}
  /\ UNCHANGED <<vms, clusters, requests>>

SetNull_Stops(table, gone) ==
  [v \in DOMAIN table |->
    IF table[v].host \in gone
    THEN [table[v] EXCEPT !.host = None, !.status = DefaultStatus] ELSE table[v]]

\* ov_vms.host_id REFERENCES ov_hosts ON DELETE SET NULL.
SetNull(table, gone) ==
  [v \in DOMAIN table |->
    IF table[v].host \in gone THEN [table[v] EXCEPT !.host = None] ELSE table[v]]

RemoveHost ==
  /\ \E h \in DOMAIN hosts :
       /\ hosts' = Delete(hosts, {h})
       /\ vms' = SetNull(vms, {h})
  /\ UNCHANGED <<clusters, spent, requests>>

\* Without a CPU type in the body its default is read from the options.
AddCluster ==
  /\ \E c \in Cluster \ spent :
       /\ clusters' = clusters \cup {c}
       /\ spent' = spent \cup {c}
  /\ UNCHANGED <<vms, hosts, requests>>

\* DELETE of a cluster, or of a data center with all its clusters: hosts and
\* VMs REFERENCE ov_clusters ON DELETE CASCADE.
RemoveClusters ==
  /\ \E cs \in (SUBSET clusters) \ {{}} :
       LET deadHosts == {h \in DOMAIN hosts : hosts[h].cluster \in cs}
           deadVms   == {v \in DOMAIN vms : vms[v].cluster \in cs}
       IN /\ clusters' = clusters \ cs
          /\ hosts' = Delete(hosts, deadHosts)
          /\ vms' = SetNull(Delete(vms, deadVms), deadHosts)
  /\ UNCHANGED <<spent, requests>>

-----------------------------------------------------------------------------
\* The options are ordinary objects, DELETE /options/{id} included; the next
\* start of the process writes them back.
RemoveOption ==
  /\ options
  /\ options' = FALSE
  /\ UNCHANGED <<tables, jobs, steps, pc, rq>>

\* The process dies and starts again on the same database, which holds one of
\* the sized demos (under "minimal" the start would seed anew): the requests
\* it was serving are gone, what their statements committed is not.
Restart ==
  /\ ~options \/ \E r \in Req : InFlight(r)
  /\ pc' = [r \in Req |-> IF InFlight(r) THEN "lost" ELSE pc[r]]
  /\ rq' = [r \in Req |-> IF InFlight(r) THEN Tail(r, None) ELSE rq[r]]
  /\ options' = TRUE
  /\ UNCHANGED <<tables, jobs, steps>>

Begin(r) ==
  \/ CreateResolve(r) \/ UpdateRead(r) \/ RemoveRead(r) \/ NoopRead(r)
  \/ CloneRead(r) \/ ActionRead(r) \/ HostActionRead(r)

Continue(r) ==
  \/ InsertRefused(r) \/ InsertVm(r) \/ CreateReread(r)
  \/ UpdateWrite(r) \/ UpdateReread(r) \/ RemoveDelete(r)
  \/ CloneCheck(r) \/ CloneCopy(r)
  \/ ActionPrepare(r) \/ ActionWrite(r) \/ HostActionWrite(r)
  \/ JobInsert(r) \/ StepInsert(r)

Others ==
  \/ AddHost \/ RemoveHost \/ AddCluster \/ RemoveClusters
  \/ RemoveOption \/ Restart

\* Every request of the run has been made and answered or lost.
Quiet == (\A r \in Req : pc[r] \in {"done", "lost"}) /\ UNCHANGED vars

Next == (\E r \in Req : Begin(r) \/ Continue(r) \/ TimeOut(r)) \/ Others \/ Quiet

\* A statement waits for no other request (each commits at once) and asyncio
\* resumes every coroutine whose statement has returned.
Fairness == \A r \in Req : WF_vars(Continue(r))

Spec     == Init /\ [][Next]_vars
FairSpec == Spec /\ Fairness

-----------------------------------------------------------------------------
\* Properties.

\* Every variable has its type; in particular no row refers to a value no
\* client or option can supply.
TypeOK ==
  /\ DOMAIN vms \subseteq Vm /\ vms \in [DOMAIN vms -> VmRow]
  /\ DOMAIN hosts \subseteq Host /\ hosts \in [DOMAIN hosts -> HostRow]
  /\ clusters \subseteq Cluster
  /\ spent \subseteq Vm \cup Host \cup Cluster
  /\ options \in BOOLEAN
  /\ jobs \subseteq Req /\ steps \subseteq Req
  /\ pc \in [Req -> Points]
  /\ rq \in [Req -> Locals]

\* A VM is placed on no host, on an existing host of its own cluster or on the
\* host it was seeded on: the start handler's pick (cluster_id = the row's)
\* and every action's write-back of the host it read stay right whatever
\* hosts, clusters and VMs other requests remove and add between the read and
\* the UPDATE.  Only a seed can place a VM on a host of another cluster.
PlacedInCluster ==
  \A v \in DOMAIN vms :
    /\ vms[v].cluster \in clusters
    /\ vms[v].host # None =>
         /\ vms[v].host \in DOMAIN hosts
         /\ \/ hosts[vms[v].host].cluster = vms[v].cluster
            \/ SeededOn(v, vms[v].host)

\* No two VMs of a cluster have the same name, though clone checks the name
\* long before it inserts and PUT writes a name from a row read earlier.
UniqueNames ==
  \A v, w \in DOMAIN vms :
    v # w /\ vms[v].cluster = vms[w].cluster => vms[v].name # vms[w].name

\* What the job log says is so: a "Remove VM" job means the VM is gone for
\* good, an "Add VM" or "Clone VM" job that the new VM did get its row, and
\* an action's job that its VM has existed.
JobsTellTheTruth ==
  \A r \in jobs :
    /\ rq[r].op = "remove" => rq[r].vm \notin DOMAIN vms
    /\ rq[r].op \in {"create", "clone", "action"} => rq[r].vm \in spent

\* A job without its step belongs to a request about to write it, to one a
\* restart cut short or to one whose client was told 500; whoever is answered
\* with success has both.
JobsComplete ==
  /\ steps \subseteq jobs
  /\ \A r \in jobs \ steps :
       pc[r] \in {"step", "lost"} \/ (pc[r] = "done" /\ rq[r].answer = "500")
  /\ \A r \in Req : /\ rq[r].answer \in {"200", "201"}
                    /\ rq[r].op # "update"
                    /\ pc[r] = "done"
                   => r \in steps

\* A write from a stale row never brings back a VM another request deleted.
NoResurrection ==
  [][\A v \in spent \ DOMAIN vms : v \notin DOMAIN vms']_vars

\* The handlers implement VmInventory: each statement is one of its atomic
\* steps or changes nothing it can see.
HostOf == [h \in DOMAIN hosts |-> hosts[h].cluster]
Inventory == INSTANCE VmInventory WITH hostOf <- HostOf
ImplementsInventory == Inventory!Spec

\* Every request that is begun is answered, or lost in a restart.
Answered ==
  \A r \in Req : InFlight(r) ~> pc[r] \in {"done", "lost"}

-----------------------------------------------------------------------------
\* The inductive invariant: the properties above and why they last.

\* Ids in use have been used; an id is never new twice.
LiveIsSpent == DOMAIN vms \cup DOMAIN hosts \cup clusters \subseteq spent

HostsHaveClusters == \A h \in DOMAIN hosts : hosts[h].cluster \in clusters

\* What an action's handler has read of a VM is still true of the VM, if it
\* exists, as far as the cluster goes, and of the host it is going to write.
StaleReadAgrees(r) ==
  pc[r] \in {"prepare", "write"} /\ rq[r].op = "action" =>
    /\ rq[r].vm \in Vm \cap spent
    /\ rq[r].vm \in DOMAIN vms => vms[rq[r].vm].cluster = rq[r].cluster
    /\ rq[r].host # None =>
         /\ rq[r].host \in spent
         /\ \/ rq[r].host \in DOMAIN hosts => hosts[rq[r].host].cluster = rq[r].cluster
            \/ SeededOn(rq[r].vm, rq[r].host)

\* A request past its write has a target, and a removed target is gone.
TargetKnown(r) ==
  r \in jobs \/ pc[r] \in {"copy", "reread", "job", "step"} =>
    /\ rq[r].op \in {"create", "clone", "action", "remove"} => rq[r].vm \in Vm \cap spent
    /\ rq[r].op = "remove" => rq[r].vm \notin DOMAIN vms

\* A handler holds the locals its next statement uses.
LocalsKnown(r) ==
  /\ pc[r] = "write" => rq[r].op \in {"update", "action"}
  /\ pc[r] = "write" /\ rq[r].op = "update" => rq[r].name \in Name /\ rq[r].vm \in Vm
  /\ pc[r] \in {"prepare", "write"} /\ rq[r].op = "action" => rq[r].act \in DOMAIN Power
  /\ pc[r] = "insert" => /\ rq[r].name \in Name /\ rq[r].cluster \in Cluster
                        /\ rq[r].op \in {"create", "clone"}
  /\ pc[r] = "delete" => rq[r].vm \in Vm \cap spent /\ rq[r].op = "remove"
  /\ pc[r] = "prepare" => rq[r].op = "action"
  /\ pc[r] = "check" => /\ rq[r].name \in Name /\ rq[r].cluster \in Cluster
                       /\ rq[r].op = "clone"
  /\ pc[r] = "hostwrite" => rq[r].act \in DOMAIN HostPower /\ rq[r].op = "host"

\* A job is written late in a handler, its step next, the answer last.
JobFollows(r) ==
  /\ r \in steps \/ pc[r] = "step" => r \in jobs
  /\ r \in jobs => pc[r] \in {"step", "done", "lost"}
  /\ r \in jobs \ steps =>
       pc[r] \in {"step", "lost"} \/ (pc[r] = "done" /\ rq[r].answer = "500")
  /\ /\ rq[r].answer \in {"200", "201"} /\ rq[r].op # "update" /\ pc[r] = "done"
     => r \in steps

TablesInv == LiveIsSpent /\ HostsHaveClusters /\ PlacedInCluster /\ UniqueNames

RequestInv(r) == StaleReadAgrees(r) /\ TargetKnown(r) /\ LocalsKnown(r) /\ JobFollows(r)

IInv == TypeOK /\ TablesInv /\ \A r \in Req : RequestInv(r)
=============================================================================
