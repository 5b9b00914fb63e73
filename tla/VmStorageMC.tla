---------------------------- MODULE VmStorageMC ----------------------------
(* One VM with a disk in a storage domain and a NIC. *)
EXTENDS VmStorage, TLC

CONSTANTS v1, d1, a1, s1, MCNics

MCSeed ==
  [vms |-> {v1}, disks |-> [d \in {d1} |-> s1],
   atts |-> [a \in {a1} |-> [vm |-> v1, disk |-> d1]],
   nics |-> {v1} \X MCNics, domains |-> {s1}]

\* Ids and requests that nothing tells apart at the start.
MCSymmetry ==
  Permutations(Req) \cup Permutations(Disk \ {d1}) \cup Permutations(Att \ {a1})
    \cup Permutations(Vm \ {v1})

\* Bound: there are NICs, and requests that saw some, only while one request
\* was made and the operator left disks and storage domains alone.
MCNicsBound ==
  \/ nics = {} /\ \A r \in Req : rq[r].had \cup rq[r].copied = {}
  \/ /\ Cardinality({r \in Req : pc[r] # "idle"}) <= 1
     /\ domains = Seed.domains /\ loose = {}
=============================================================================
