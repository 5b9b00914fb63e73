--------------------------- MODULE VmTemplatesMC ---------------------------
(* One VM with a disk in a storage domain and a NIC. *)
EXTENDS VmTemplates

CONSTANTS v1, d1, a1, s1, MCNics

MCSeed ==
  [vms |-> {v1}, disks |-> [d \in {d1} |-> s1],
   atts |-> [a \in {a1} |-> [vm |-> v1, disk |-> d1]],
   nics |-> {v1} \X MCNics, domains |-> {s1}]

MCDiskName == [d \in Disk |-> d]
=============================================================================
