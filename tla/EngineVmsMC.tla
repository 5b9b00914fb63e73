---------------------------- MODULE EngineVmsMC ----------------------------
(* Small inventories for TLC: one cluster, and one a sized demo's way. *)
EXTENDS EngineVms

CONSTANTS v1, v2, v3, h1, h2, h3, c1, c2, n1, n2

MCPower     == [start |-> "up", stop |-> "down", suspend |-> "suspended"]
MCRelease   == {"stop"}
MCHostPower == [activate |-> "up", deactivate |-> "maintenance"]

\* One cluster; as in the "small" profile the VM runs on one of its hosts.
MCSeed ==
  [clusters |-> {c1},
   hosts |-> [h \in {h1} |-> [cluster |-> c1, status |-> "up"]],
   vms |-> [v \in {v1} |-> [cluster |-> c1, name |-> n1, status |-> "up", host |-> h1]]]

\* Two clusters; as in the "large" and "big" demos a VM runs on a host of the
\* other cluster.
MCDemo ==
  [clusters |-> {c1, c2},
   hosts |-> [h \in {h1} |-> [cluster |-> c1, status |-> "up"]],
   vms |-> [v \in {v1} |-> [cluster |-> c2, name |-> n1, status |-> "up", host |-> h1]]]
=============================================================================
