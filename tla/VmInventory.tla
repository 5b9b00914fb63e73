---------------------------- MODULE VmInventory ----------------------------
(***************************************************************************)
(* What the Engine API promises about virtual machines, whatever requests  *)
(* run side by side: every change of a VM is one atomic step of one of the *)
(* kinds below.  A VM is created in a cluster that exists and stays in it; *)
(* it runs only on a host of that cluster, or on the host it was seeded    *)
(* on; two VMs of a cluster never have one name; what a host's or a        *)
(* cluster's removal takes along is taken at once; an id is never used     *)
(* again.  EngineVms implements it statement by statement.                 *)
(***************************************************************************)
EXTENDS Tables

CONSTANTS
  Vm, Host, Cluster,   \* the ids uuid4() may produce
  Name,                \* names a client may give a VM
  None,                \* SQL NULL
  Power,               \* VM action name -> status it sets, as long as nobody
                       \* edits the option that says so
  Release,             \* the actions that take the VM off its host
  DefaultStatus,       \* status of a VM just created
  Seed                 \* inventory at start: [vms, hosts, clusters]

VARIABLES
  vms,        \* VM id -> [cluster, name, status, host]
  hostOf,     \* host id -> its cluster
  clusters,   \* the clusters that exist
  spent       \* every id ever used

vars == <<vms, hostOf, clusters, spent>>

Placements(v) ==
  {None} \cup {h \in DOMAIN hostOf :
                 \/ hostOf[h] = vms[v].cluster
                 \/ v \in DOMAIN Seed.vms /\ h = Seed.vms[v].host}

NameFree(c, n, others) ==
  \A w \in DOMAIN vms \cap others : vms[w].cluster = c => vms[w].name # n

Init ==
  /\ vms = Seed.vms
  /\ hostOf = [h \in DOMAIN Seed.hosts |-> Seed.hosts[h].cluster]
  /\ clusters = Seed.clusters
  /\ spent = DOMAIN Seed.vms \cup DOMAIN Seed.hosts \cup Seed.clusters

\* A VM appears: stopped or whatever the default is, on no host.
CreateVm(v, c, n) ==
  /\ v \notin spent
  /\ c \in clusters
  /\ NameFree(c, n, Vm)
  /\ vms' = Insert(vms, v, [cluster |-> c, name |-> n,
                            status |-> DefaultStatus, host |-> None])
  /\ spent' = spent \cup {v}
  /\ UNCHANGED <<hostOf, clusters>>

RenameVm(v, n) ==
  /\ v \in DOMAIN vms
  /\ NameFree(vms[v].cluster, n, Vm \ {v})
  /\ vms' = [vms EXCEPT ![v].name = n]
  /\ UNCHANGED <<hostOf, clusters, spent>>

\* Status and host change together, to what the action asks.
SetPower(v, a, h) ==
  /\ v \in DOMAIN vms
  /\ h \in Placements(v)
  /\ a \in Release => h = None
  /\ vms' = [vms EXCEPT ![v] = [cluster |-> @.cluster, name |-> @.name,
                                status |-> Power[a], host |-> h]]
  /\ UNCHANGED <<hostOf, clusters, spent>>

RemoveVm(v) ==
  /\ v \in DOMAIN vms
  /\ vms' = Delete(vms, {v})
  /\ UNCHANGED <<hostOf, clusters, spent>>

AddHost(h, c) ==
  /\ h \notin spent
  /\ c \in clusters
  /\ hostOf' = Insert(hostOf, h, c)
  /\ spent' = spent \cup {h}
  /\ UNCHANGED <<vms, clusters>>

\* The VMs of a host that goes lose their placement, not their status.
Displaced(table, gone) ==
  [v \in DOMAIN table |->
    IF table[v].host \in gone THEN [table[v] EXCEPT !.host = None] ELSE table[v]]

RemoveHost(h) ==
  /\ h \in DOMAIN hostOf
  /\ hostOf' = Delete(hostOf, {h})
  /\ vms' = Displaced(vms, {h})
  /\ UNCHANGED <<clusters, spent>>

AddCluster(c) ==
  /\ c \notin spent
  /\ clusters' = clusters \cup {c}
  /\ spent' = spent \cup {c}
  /\ UNCHANGED <<vms, hostOf>>

HostsIn(cs) == {h \in DOMAIN hostOf : hostOf[h] \in cs}
VmsIn(cs)   == {v \in DOMAIN vms : vms[v].cluster \in cs}

\* One cluster, or all those of a data center: their hosts and VMs go too.
RemoveClusters(cs) ==
  /\ cs # {}
  /\ cs \subseteq clusters
  /\ clusters' = clusters \ cs
  /\ hostOf' = Delete(hostOf, HostsIn(cs))
  /\ vms' = Displaced(Delete(vms, VmsIn(cs)), HostsIn(cs))
  /\ UNCHANGED spent

Next ==
  \/ \E v \in Vm, c \in Cluster, n \in Name : CreateVm(v, c, n)
  \/ \E v \in Vm, n \in Name : RenameVm(v, n)
  \/ \E v \in Vm, a \in DOMAIN Power, h \in Host \cup {None} : SetPower(v, a, h)
  \/ \E v \in Vm : RemoveVm(v)
  \/ \E h \in Host, c \in Cluster : AddHost(h, c)
  \/ \E h \in Host : RemoveHost(h)
  \/ \E c \in Cluster : AddCluster(c)
  \/ \E cs \in SUBSET Cluster : RemoveClusters(cs)

Spec == Init /\ [][Next]_vars
=============================================================================
