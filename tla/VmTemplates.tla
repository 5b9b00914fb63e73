----------------------------- MODULE VmTemplates -----------------------------
(***************************************************************************)
(* Templates made of a VM and snapshots of one, beside everything that     *)
(* changes the VM meanwhile (VmStorage): POST /templates reads the VM,     *)
(* inserts the template, reads the NICs and copies them one by one, reads  *)
(* the disks and copies those, and only then writes its job; POST          *)
(* /vms/{id}/snapshots inserts the snapshot before it writes its job.      *)
(***************************************************************************)
EXTENDS VmStorage

CONSTANTS
  Template, Snapshot,  \* ids: the Blank template's and those uuid4() will produce
  Blank,               \* the template of the seed
  DiskName             \* disk -> its name; two disks may have one name

VARIABLES
  templates,  \* ov_templates
  nested,     \* ov_api_objects below templates: <<template, kind, name>>
  taken,      \* the children an operator removed, for the properties only
  snapshots   \* ov_snapshots: id -> its VM

below == <<templates, nested, taken, snapshots>>
all   == <<vars, below>>

ASSUME BlankAssumption == Blank \in Template
ASSUME DiskNameAssumption == DOMAIN DiskName = Disk

InitAll ==
  /\ Init
  /\ templates = {Blank}
  /\ nested = {} /\ taken = {}
  /\ snapshots = Nothing

AttsOf(v) == {a \in DOMAIN atts : atts[a].vm = v}

\* A statement that changes no table, and one that ends its request so.
Step(r, from, to, locals) == Onward(r, from, to, locals) /\ UNCHANGED <<tables, loose, below>>
End(r, from, code) == Outcome(r, from, code) /\ UNCHANGED <<tables, loose, below>>

-----------------------------------------------------------------------------
\* POST /templates with a VM.  The handler's vm is the template it makes; for
\* the properties only, it keeps which NICs (had) and which attachments
\* (read) the VM had when its row was read.

TemplateRead(r) ==
  \E v \in Vm \cap spent :
    IF v \notin vms THEN Step(r, "idle", "done", [Fresh EXCEPT !.op = "template", !.answer = "404"])
    ELSE Step(r, "idle", "template",
              [Fresh EXCEPT !.op = "template", !.src = v, !.had = NicsOf(v), !.read = AttsOf(v)])

\* The name may be that of a template there is; the VM's cluster may be gone,
\* and then so is the VM.
TemplateInsert(r) ==
  \/ templates # {} /\ End(r, "template", "409")
  \/ rq[r].src \notin vms /\ End(r, "template", "400")
  \/ \E t \in Template \ (spent \cup {Blank}) :
       /\ templates' = templates \cup {t}
       /\ spent' = spent \cup {t}
       /\ Onward(r, "template", "nics", [rq[r] EXCEPT !.vm = t])
       /\ UNCHANGED <<vms, disks, atts, nics, domains, loose, nested, taken, snapshots>>

TemplateReadNics(r) ==
  Step(r, "nics", "nic", [rq[r] EXCEPT !.left = NicsOf(rq[r].src)])

Nest(r, at, kind, x, name) ==
  /\ nested' = nested \cup {<<rq[r].vm, kind, name>>}
  /\ Onward(r, at, at, [rq[r] EXCEPT !.left = @ \ {x}])
  /\ UNCHANGED <<tables, loose, templates, taken, snapshots>>

TemplateNic_OneId(r) ==
  /\ pc[r] = "nic"
  /\ \E n \in rq[r].left :
       IF \E c \in nested : c[1] = rq[r].vm
       THEN Step(r, "nic", "nic", [rq[r] EXCEPT !.left = @ \ {n}])
       ELSE Nest(r, "nic", "nics", n, n)

\* The child's id is made of the template, the kind and the name, and ON
\* CONFLICT (id) DO NOTHING.  Nothing asks whether the template is still there.
TemplateNic(r) == pc[r] = "nic" /\ \E n \in rq[r].left : Nest(r, "nic", "nics", n, n)

TemplateReadDisks(r) ==
  /\ rq[r].left = {}
  /\ Step(r, "nic", "tdisk", [rq[r] EXCEPT !.left = DisksOf(rq[r].src)])

\* Of two disks with one name the second makes no child.
TemplateDisk(r) ==
  /\ pc[r] = "tdisk"
  /\ \E d \in rq[r].left : Nest(r, "tdisk", "diskattachments", d, DiskName[d])

TemplateJob(r) ==
  /\ pc[r] = "tdisk"
  /\ rq[r].left = {}
  /\ \/ End(r, "tdisk", "500")
     \/ Step(r, "tdisk", "treread", rq[r])

TemplateReread(r) == End(r, "treread", IF rq[r].vm \in templates THEN "201" ELSE "404")

\* DELETE /templates/{id}: the children are rows of another table and stay, to
\* be removed one by one.
RemoveTemplate ==
  /\ \E t \in templates : templates' = templates \ {t}
  /\ UNCHANGED <<vars, nested, taken, snapshots>>

\* DELETE /templates/{id}/nics/{child} and .../diskattachments/{child}, while
\* the template is being made as well as later.
RemoveChild ==
  /\ \E c \in nested : nested' = nested \ {c} /\ taken' = taken \cup {c}
  /\ UNCHANGED <<vars, templates, snapshots>>

-----------------------------------------------------------------------------
\* POST /vms/{id}/snapshots, for a VM that may not exist.

SnapshotNew(r) ==
  \E v \in Vm : Step(r, "idle", "snapshot", [Fresh EXCEPT !.op = "snapshot", !.vm = v])

SnapshotInsert_Unchecked(r) ==
  \E s \in Snapshot \ spent :
    /\ snapshots' = Insert(snapshots, s, rq[r].vm)
    /\ spent' = spent \cup {s}
    /\ Onward(r, "snapshot", "sjob", [rq[r] EXCEPT !.disk = s])
    /\ UNCHANGED <<vms, disks, atts, nics, domains, loose, templates, nested, taken>>

\* The default description is an option; vm_id REFERENCES ov_vms.
SnapshotInsert(r) ==
  \/ End(r, "snapshot", "500")
  \/ rq[r].vm \notin vms /\ End(r, "snapshot", "400")
  \/ /\ rq[r].vm \in vms
     /\ \E s \in Snapshot \ spent :
          /\ snapshots' = Insert(snapshots, s, rq[r].vm)
          /\ spent' = spent \cup {s}
          /\ Onward(r, "snapshot", "sjob", [rq[r] EXCEPT !.disk = s])
     /\ UNCHANGED <<vms, disks, atts, nics, domains, loose, templates, nested, taken>>

\* An option missing now fails a request whose snapshot is there already.
SnapshotJob(r) == End(r, "sjob", "500") \/ Step(r, "sjob", "sreread", rq[r])

SnapshotReread(r) == End(r, "sreread", IF rq[r].disk \in DOMAIN snapshots THEN "201" ELSE "404")

RemoveSnapshot ==
  /\ \E s \in DOMAIN snapshots : snapshots' = Delete(snapshots, {s})
  /\ UNCHANGED <<vars, templates, nested, taken>>

-----------------------------------------------------------------------------
Start(r) == TemplateRead(r) \/ SnapshotNew(r)

GoOn(r) ==
  \/ TemplateInsert(r) \/ TemplateReadNics(r) \/ TemplateNic(r) \/ TemplateReadDisks(r)
  \/ TemplateDisk(r) \/ TemplateJob(r) \/ TemplateReread(r)
  \/ SnapshotInsert(r) \/ SnapshotJob(r) \/ SnapshotReread(r)

\* What VmStorage does; a VM's snapshots go with it.
Storage(step) ==
  /\ step
  /\ snapshots' = Restrict(snapshots, {s \in DOMAIN snapshots : snapshots[s] \in vms'})
  /\ UNCHANGED <<templates, nested, taken>>

NextAll ==
  \/ Storage(Next)
  \/ \E r \in Req : Start(r) \/ GoOn(r)
  \/ RemoveTemplate \/ RemoveChild \/ RemoveSnapshot

\* No statement waits for another request.
FairAll == \A r \in Req : WF_all(Storage(Continue(r)) \/ GoOn(r))

SpecAll == InitAll /\ [][NextAll]_all /\ FairAll

-----------------------------------------------------------------------------
\* Properties.

\* The children templates were given, those removed since included.
given == nested \cup taken

\* "Materialize template nested nics/diskattachments from a source VM": a
\* template answered 201 has a child for each NIC and each disk its VM had
\* from the first statement of the request to the last, though NICs and disks
\* are read at two moments and added, renamed, detached and removed between
\* them; it lacks only children an operator removed from it.  (Of a VM removed
\* meanwhile it may have the NICs and not the disks.)
TemplateIsWhole ==
  \A r \in Req :
    rq[r].op = "template" /\ rq[r].answer = "201" /\ rq[r].src \in vms =>
      /\ \A n \in rq[r].had : <<rq[r].vm, "nics", n>> \in given
      /\ \A a \in rq[r].read \cap DOMAIN atts :
           <<rq[r].vm, "diskattachments", DiskName[atts[a].disk]>> \in given

\* No snapshot outlives its VM, though the VM may go between the moment its
\* row was read and the INSERT, and between that and the answer.
SnapshotsOfVms == \A s \in DOMAIN snapshots : snapshots[s] \in vms
=============================================================================
