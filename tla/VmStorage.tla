----------------------------- MODULE VmStorage -----------------------------
(***************************************************************************)
(* Disks, their attachments and NICs of VMs: POST and DELETE below         *)
(* /vms/{id}/diskattachments and /vms/{id}/nics, /disks, /storagedomains,  *)
(* and the copying part of POST /vms/{id}/clone.  As in EngineVms each SQL *)
(* statement is a step and commits by itself, so what a handler inserted   *)
(* before it failed stays.  What EngineVms calls the copy of a clone is    *)
(* here a loop over what was read of the source VM.                        *)
(***************************************************************************)
EXTENDS Tables, FiniteSets

CONSTANTS
  Vm, Disk, Att, Domain, \* ids: those of the seed and those uuid4() will produce
  Nic,                   \* NIC names: a NIC is known by its VM and its name
  Req,                   \* the requests that take several statements
  None,                  \* SQL NULL, and a local not assigned yet
  Seed                   \* [vms, disks, atts, nics, domains] at the start

VARIABLES
  vms,      \* the VMs that exist
  disks,    \* ov_disks: id -> its storage domain or NULL
  atts,     \* ov_disk_attachments: id -> [vm, disk]
  nics,     \* ov_nics: <<vm, name>>, its UNIQUE key
  domains,  \* ov_storage_domains
  spent,    \* ids ever used
  pc,       \* request -> its next statement
  rq,       \* request -> its locals and its answer
  loose     \* disks an operator left on their own: those of the seed, added by POST
            \* /disks, detached, or the VM they were attached to removed

tables == <<vms, disks, atts, nics, domains, spent>>
vars   == <<tables, pc, rq, loose>>

Points  == {"idle", "pick", "check", "disk", "attach", "reread", "disks",
            "copydisk", "copyatt", "copynic", "done", "lost"}
Answers == {"200", "201", "400", "404", "409", "500"}

\* The locals of a handler.  A clone keeps the disks it read with their
\* domains, what is left to copy, the copies made, and, for the properties
\* only, the NICs the source had at first and nobody took from it.
Nothing == [x \in {} |-> None]
Fresh == [op |-> None, vm |-> None, src |-> None, disk |-> None, att |-> None,
          domain |-> None, read |-> Nothing, left |-> {}, made |-> Nothing,
          had |-> {}, copied |-> {}, answer |-> None]

\* The estate at the start: no reference dangles, nothing is attached twice.
SeedOK ==
  /\ Seed.vms \subseteq Vm /\ Seed.domains \subseteq Domain
  /\ DOMAIN Seed.disks \subseteq Disk
  /\ Seed.disks \in [DOMAIN Seed.disks -> Seed.domains \cup {None}]
  /\ DOMAIN Seed.atts \subseteq Att
  /\ Seed.atts \in [DOMAIN Seed.atts -> [vm : Seed.vms, disk : DOMAIN Seed.disks]]
  /\ \A a, b \in DOMAIN Seed.atts : a # b => Seed.atts[a] # Seed.atts[b]
  /\ Seed.nics \subseteq Seed.vms \X Nic

ASSUME SeedAssumption == SeedOK
ASSUME NoneAssumption == None \notin Answers

Init ==
  /\ vms = Seed.vms /\ disks = Seed.disks /\ atts = Seed.atts
  /\ nics = Seed.nics /\ domains = Seed.domains
  /\ spent = Seed.vms \cup DOMAIN Seed.disks \cup DOMAIN Seed.atts
  /\ pc = [r \in Req |-> "idle"]
  /\ rq = [r \in Req |-> Fresh]
  /\ loose = DOMAIN Seed.disks \ {Seed.atts[a].disk : a \in DOMAIN Seed.atts}

\* Operators named X_Y are X with the bug Y; the model uses none of them.
DisksOf_Ids(v) == {a \in DOMAIN atts : atts[a].vm = v}

DisksOf(v) == {atts[a].disk : a \in {b \in DOMAIN atts : atts[b].vm = v}}
NicsOf(v)  == {n \in Nic : <<v, n>> \in nics}
Attached(d) == \E a \in DOMAIN atts : atts[a].disk = d

Onward(r, from, to, locals) ==
  /\ pc[r] = from
  /\ pc' = [pc EXCEPT ![r] = to]
  /\ rq' = [rq EXCEPT ![r] = locals]

Outcome(r, from, code) == Onward(r, from, "done", [rq[r] EXCEPT !.answer = code])

Begin(r, to, locals) == Onward(r, "idle", to, locals) /\ UNCHANGED <<tables, loose>>

InFlight(r) == pc[r] \notin {"idle", "done", "lost"}

\* Any statement may exceed the connection's command_timeout: the handler ends
\* there with 500, and what its earlier statements committed stays.  When the
\* statement took effect all the same, this is the step after it.
TimeOut(r) == InFlight(r) /\ Outcome(r, pc[r], "500") /\ UNCHANGED <<tables, loose>>

-----------------------------------------------------------------------------
\* Statements that write, with the constraints PostgreSQL checks.

NewDisk(d, domain) ==
  /\ d \in Disk \ spent
  /\ disks' = Insert(disks, d, domain)
  /\ spent' = spent \cup {d}
  /\ UNCHANGED <<vms, atts, nics, domains, loose>>

Duplicate_NoIndex(v, d) == FALSE

\* UNIQUE (vm_id, disk_id)
Duplicate(v, d) == \E a \in DOMAIN atts : atts[a] = [vm |-> v, disk |-> d]

\* vm_id REFERENCES ov_vms, disk_id REFERENCES ov_disks
Missing(v, d) == v \notin vms \/ d \notin DOMAIN disks

NewAtt(a, v, d) ==
  /\ ~Missing(v, d) /\ ~Duplicate(v, d)
  /\ a \in Att \ spent
  /\ atts' = Insert(atts, a, [vm |-> v, disk |-> d])
  /\ spent' = spent \cup {a}
  /\ UNCHANGED <<vms, disks, nics, domains, loose>>

\* An attachment PostgreSQL refuses, and the answer that gives.
AttRefused(r, from) ==
  /\ \/ Missing(rq[r].vm, rq[r].disk) /\ Outcome(r, from, "400")
     \/ Duplicate(rq[r].vm, rq[r].disk) /\ Outcome(r, from, "409")
  /\ UNCHANGED <<tables, loose>>

-----------------------------------------------------------------------------
\* POST /vms/{id}/diskattachments.  _handle_vms has read the VM's row but
\* does not look at it on this path: the VM may never have existed.

AttachNew(r) ==
  \E v \in Vm : Begin(r, "pick", [Fresh EXCEPT !.op = "new", !.vm = v])

\* The default size is an option; the domain is the first there is, else NULL.
PickDomain(r) ==
  /\ \/ Outcome(r, "pick", "500")
     \/ \E s \in IF domains = {} THEN {None} ELSE domains :
          Onward(r, "pick", "disk", [rq[r] EXCEPT !.domain = s])
  /\ UNCHANGED <<tables, loose>>

InsertDisk(r) ==
  \/ /\ rq[r].domain \in domains \cup {None}
     /\ \E d \in Disk : /\ NewDisk(d, rq[r].domain)
                        /\ Onward(r, "disk", "attach", [rq[r] EXCEPT !.disk = d])
  \/ /\ rq[r].domain \notin domains \cup {None}
     /\ Outcome(r, "disk", "400")
     /\ UNCHANGED <<tables, loose>>

AttachExisting(r) ==
  \E v \in Vm, d \in Disk \cap spent :
    IF d \in DOMAIN disks
    THEN Begin(r, "check", [Fresh EXCEPT !.op = "existing", !.vm = v, !.disk = d])
    ELSE Begin(r, "done", [Fresh EXCEPT !.op = "existing", !.answer = "404"])

CheckAttached(r) ==
  /\ IF Duplicate(rq[r].vm, rq[r].disk)
     THEN Outcome(r, "check", "409")
     ELSE Onward(r, "check", "attach", rq[r])
  /\ UNCHANGED <<tables, loose>>

InsertAtt_Tolerant(r) ==
  \/ \E a \in Att : /\ NewAtt(a, rq[r].vm, rq[r].disk)
                    /\ Onward(r, "attach", "reread", [rq[r] EXCEPT !.att = a])
  \/ /\ Missing(rq[r].vm, rq[r].disk) \/ Duplicate(rq[r].vm, rq[r].disk)
     /\ Outcome(r, "attach", "201")
     /\ UNCHANGED <<tables, loose>>

\* The default interface is an option, read after the disk was inserted.
InsertAtt(r) ==
  \/ \E a \in Att : /\ NewAtt(a, rq[r].vm, rq[r].disk)
                    /\ Onward(r, "attach", "reread", [rq[r] EXCEPT !.att = a])
  \/ AttRefused(r, "attach")
  \/ Outcome(r, "attach", "500") /\ UNCHANGED <<tables, loose>>

\* The answer shows the row just written; without it the handler fails.
RereadAtt(r) ==
  /\ Outcome(r, "reread", IF rq[r].att \in DOMAIN atts THEN "201" ELSE "404")
  /\ UNCHANGED <<tables, loose>>

-----------------------------------------------------------------------------
\* POST /vms/{id}/clone, from the INSERT of the new VM on.

\* The source was read before; it may be gone by now.
CloneVm(r) ==
  \E src \in Vm \cap spent, v \in Vm \ spent :
    /\ vms' = vms \cup {v}
    /\ spent' = spent \cup {v}
    /\ Onward(r, "idle", "disks", [Fresh EXCEPT !.op = "clone", !.vm = v, !.src = src,
                                                !.had = NicsOf(src)])
    /\ UNCHANGED <<disks, atts, nics, domains, loose>>

ReadDisks(r) ==
  /\ LET ds == DisksOf(rq[r].src) IN
     Onward(r, "disks", "copydisk",
            [rq[r] EXCEPT !.read = [d \in ds |-> disks[d]], !.left = ds])
  /\ UNCHANGED <<tables, loose>>

CopyDisk_First(r) ==
  /\ pc[r] = "copydisk"
  /\ \E d \in rq[r].left, new \in Disk :
       /\ NewDisk(new, rq[r].read[d])
       /\ Onward(r, "copydisk", "copyatt",
                 [rq[r] EXCEPT !.left = {}, !.disk = new, !.made = Insert(@, d, new)])

\* For each disk read: a new one like it, in the domain it had when read
\* (400 when that is gone by now), ...
CopyDisk(r) ==
  /\ pc[r] = "copydisk"
  /\ \E d \in rq[r].left :
       IF rq[r].read[d] \in domains \cup {None}
       THEN \E new \in Disk :
              /\ NewDisk(new, rq[r].read[d])
              /\ Onward(r, "copydisk", "copyatt",
                        [rq[r] EXCEPT !.left = @ \ {d}, !.disk = new,
                                      !.made = Insert(@, d, new)])
       ELSE Outcome(r, "copydisk", "400") /\ UNCHANGED <<tables, loose>>

\* ... attached to the new VM.
CopyAtt(r) ==
  \/ \E a \in Att : /\ NewAtt(a, rq[r].vm, rq[r].disk)
                    /\ Onward(r, "copyatt", "copydisk", rq[r])
  \/ AttRefused(r, "copyatt")

CopyNic_Retries(r) ==
  /\ pc[r] = "copynic"
  /\ \E n \in rq[r].left :
       /\ rq[r].vm \in vms /\ <<rq[r].vm, n>> \notin nics
       /\ nics' = nics \cup {<<rq[r].vm, n>>}
       /\ Onward(r, "copynic", "copynic",
                 [rq[r] EXCEPT !.left = @ \ {n}, !.copied = @ \cup {n}])
       /\ UNCHANGED <<vms, disks, atts, domains, spent, loose>>

ReadNics(r) ==
  /\ pc[r] = "copydisk" /\ rq[r].left = {}
  /\ Onward(r, "copydisk", "copynic", [rq[r] EXCEPT !.left = NicsOf(rq[r].src)])
  /\ UNCHANGED <<tables, loose>>

\* Refused with 400 when the new VM is gone, or the vNIC profile the NIC had
\* when it was read (profiles are no state of this module: any may be gone).
CopyNic(r) ==
  /\ pc[r] = "copynic"
  /\ \E n \in rq[r].left :
       \/ Outcome(r, "copynic", "400") /\ UNCHANGED <<tables, loose>>
       \/ /\ rq[r].vm \in vms /\ <<rq[r].vm, n>> \in nics
          /\ Outcome(r, "copynic", "409")
          /\ UNCHANGED <<tables, loose>>
       \/ /\ rq[r].vm \in vms /\ <<rq[r].vm, n>> \notin nics
          /\ nics' = nics \cup {<<rq[r].vm, n>>}
          /\ Onward(r, "copynic", "copynic",
                    [rq[r] EXCEPT !.left = @ \ {n}, !.copied = @ \cup {n}])
          /\ UNCHANGED <<vms, disks, atts, domains, spent, loose>>

\* The job is written and the answer sent.
CloneDone(r) ==
  /\ rq[r].left = {}
  /\ Outcome(r, "copynic", "200") \/ Outcome(r, "copynic", "500")
  /\ UNCHANGED <<tables, loose>>

-----------------------------------------------------------------------------
\* Requests of one statement that writes.

requests == <<pc, rq>>

RemoveVm_KeepsNics ==
  /\ \E v \in vms :
       /\ vms' = vms \ {v}
       /\ atts' = Delete(atts, {a \in DOMAIN atts : atts[a].vm = v})
       /\ loose' = loose \cup DisksOf(v)
  /\ UNCHANGED <<disks, nics, domains, spent, requests>>

\* DELETE /vms/{id}: attachments and NICs go with the VM, disks stay.
RemoveVm ==
  /\ \E v \in vms :
       /\ vms' = vms \ {v}
       /\ atts' = Delete(atts, {a \in DOMAIN atts : atts[a].vm = v})
       /\ nics' = {x \in nics : x[1] # v}
       /\ loose' = loose \cup DisksOf(v)
  /\ UNCHANGED <<disks, domains, spent, requests>>

AddDisk ==
  /\ \E d \in Disk \ spent, s \in IF domains = {} THEN {None} ELSE domains :
       /\ disks' = Insert(disks, d, s)
       /\ spent' = spent \cup {d}
       /\ loose' = loose \cup {d}
  /\ UNCHANGED <<vms, atts, nics, domains, requests>>

RemoveDisk ==
  /\ \E d \in DOMAIN disks :
       /\ disks' = Delete(disks, {d})
       /\ atts' = Delete(atts, {a \in DOMAIN atts : atts[a].disk = d})
  /\ UNCHANGED <<vms, nics, domains, spent, loose, requests>>

Detach ==
  /\ \E a \in DOMAIN atts :
       /\ atts' = Delete(atts, {a})
       /\ loose' = loose \cup {atts[a].disk}
  /\ UNCHANGED <<vms, disks, nics, domains, spent, requests>>

AddNic ==
  /\ \E v \in vms, n \in Nic : <<v, n>> \notin nics /\ nics' = nics \cup {<<v, n>>}
  /\ UNCHANGED <<vms, disks, atts, domains, spent, loose, requests>>

Forget(x) ==
  rq' = [r \in Req |-> IF rq[r].src = x[1] THEN [rq[r] EXCEPT !.had = @ \ {x[2]}] ELSE rq[r]]

\* DELETE of a NIC, and PUT that gives it another name.
RemoveNic ==
  /\ \E x \in nics : nics' = nics \ {x} /\ Forget(x)
  /\ UNCHANGED <<vms, disks, atts, domains, spent, loose, pc>>

RenameNic ==
  /\ \E x \in nics, n \in Nic :
       /\ <<x[1], n>> \notin nics
       /\ nics' = (nics \ {x}) \cup {<<x[1], n>>}
       /\ Forget(x)
  /\ UNCHANGED <<vms, disks, atts, domains, spent, loose, pc>>

\* ov_disks.storage_domain_id REFERENCES ov_storage_domains ON DELETE SET NULL.
RemoveDomain ==
  /\ \E s \in domains :
       /\ domains' = domains \ {s}
       /\ disks' = [d \in DOMAIN disks |-> IF disks[d] = s THEN None ELSE disks[d]]
  /\ UNCHANGED <<vms, atts, nics, spent, loose, requests>>

\* The process dies: its requests are lost, what they committed is not.
Restart ==
  /\ \E r \in Req : InFlight(r)
  /\ pc' = [r \in Req |-> IF InFlight(r) THEN "lost" ELSE pc[r]]
  /\ UNCHANGED <<tables, rq, loose>>

Continue(r) ==
  \/ PickDomain(r) \/ InsertDisk(r) \/ CheckAttached(r) \/ InsertAtt(r) \/ RereadAtt(r)
  \/ ReadDisks(r) \/ CopyDisk(r) \/ CopyAtt(r) \/ ReadNics(r) \/ CopyNic(r)
  \/ CloneDone(r)

Others ==
  \/ RemoveVm \/ AddDisk \/ RemoveDisk \/ Detach \/ AddNic \/ RemoveNic \/ RenameNic
  \/ RemoveDomain \/ Restart

Next ==
  \/ \E r \in Req :
       AttachNew(r) \/ AttachExisting(r) \/ CloneVm(r) \/ Continue(r) \/ TimeOut(r)
  \/ Others

\* No statement waits for another request.
Fairness == \A r \in Req : WF_vars(Continue(r))

Spec     == Init /\ [][Next]_vars
FairSpec == Spec /\ Fairness

-----------------------------------------------------------------------------
\* Properties.

\* Every variable has its type.
TypeOK ==
  /\ vms \subseteq Vm
  /\ DOMAIN disks \subseteq Disk /\ \A d \in DOMAIN disks : disks[d] \in Domain \cup {None}
  /\ DOMAIN atts \subseteq Att /\ \A a \in DOMAIN atts : atts[a] \in [vm : Vm, disk : Disk]
  /\ nics \subseteq Vm \X Nic
  /\ domains \subseteq Domain
  /\ \A r \in Req : pc[r] \in Points /\ rq[r].answer \in Answers \cup {None}
  /\ loose \subseteq Disk

\* No disk hangs on a VM twice, though "already attached" is checked one
\* statement before the attachment is inserted.
AttachedOnce ==
  \A a, b \in DOMAIN atts : a # b => atts[a] # atts[b]

\* Attachments and NICs belong to VMs and disks that exist, however late a
\* handler or a clone writes to what was removed under it.
NoGhosts ==
  /\ \A a \in DOMAIN atts : ~Missing(atts[a].vm, atts[a].disk)
  /\ \A x \in nics : x[1] \in vms

\* A disk nobody left on its own is attached, or belongs to a request that
\* is about to attach it, was lost, or was answered with an error: a success
\* never leaves a disk behind that is on no VM.
OrphansExplained ==
  \A d \in DOMAIN disks \ loose :
    \/ Attached(d)
    \/ \E r \in Req :
         /\ rq[r].disk = d
         /\ \/ pc[r] \in {"attach", "copyatt", "lost"}
            \/ pc[r] = "done" /\ rq[r].answer \notin {"200", "201"}

Cloned(r) == rq[r].op = "clone" /\ rq[r].answer = "200"

\* A clone answered 200 made one copy of each disk its source had at the
\* moment it read them, each copy another disk.
CloneCopiesDisks ==
  \A r \in Req : Cloned(r) =>
    /\ DOMAIN rq[r].made = DOMAIN rq[r].read
    /\ \A d, e \in DOMAIN rq[r].made : d # e => rq[r].made[d] # rq[r].made[e]

\* uuid4() never runs out of ids; the bounded sets of the model do.
NoIdsLeft == Disk \subseteq spent \/ Att \subseteq spent

\* Every request begun is answered, or lost in a restart: a clone's loops end
\* whatever is attached, detached and removed while it copies.
Answered == \A r \in Req : InFlight(r) ~> (pc[r] \in {"done", "lost"} \/ NoIdsLeft)

\* "Clone disk attachments (new disk rows) and NICs onto a target VM": a
\* clone answered 200 copied each NIC its source had when the new VM was
\* inserted, unless that NIC was removed or renamed.  The NICs are read after
\* the disks were copied; a source removed in between has none, and nobody
\* looks.
CloneCopiesNics ==
  \A r \in Req : Cloned(r) => rq[r].had \subseteq rq[r].copied
=============================================================================
