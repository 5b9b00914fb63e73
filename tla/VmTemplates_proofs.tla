------------------------- MODULE VmTemplates_proofs -------------------------
(***************************************************************************)
(* Proofs, for any number of VMs, NICs, disks, templates, snapshots and    *)
(* requests, that a template answered 201 has what its VM had all along,   *)
(* that no snapshot outlives its VM, and that the requests of this module  *)
(* keep what VmStorage_proofs shows of the tables they share.              *)
(***************************************************************************)
EXTENDS VmTemplates, VmStorage_proofs

-----------------------------------------------------------------------------
\* The inductive invariant.

TemplatePoints == {"template", "nics", "nic", "tdisk", "treread"}
SnapshotPoints == {"snapshot", "sjob", "sreread"}

Has(q, kind, name) == <<q.vm, kind, name>> \in given

\* Until the NICs are read the VM has those it had; each is then still to be
\* copied, or copied.
NicsDrawn(p, q) ==
  q.src \in vms =>
    IF p \in {"template", "nics"} THEN q.had \subseteq NicsOf(q.src)
    ELSE \A n \in q.had : Has(q, "nics", n) \/ (p = "nic" /\ n \in q.left)

\* The same of the disks by their attachments, which keep their VM and disk.
DisksDrawn(p, q) ==
  \A a \in q.read \cap DOMAIN atts :
    /\ atts[a].vm = q.src
    /\ p \in {"tdisk", "treread", "done"} =>
         \/ Has(q, "diskattachments", DiskName[atts[a].disk])
         \/ p = "tdisk" /\ atts[a].disk \in q.left

Drawn(p, q) ==
  /\ p \in TemplatePoints => q.op = "template"
  /\ p \in SnapshotPoints => q.op = "snapshot"
  /\ p \in TemplatePoints \/ (p = "done" /\ q.op = "template" /\ q.answer = "201") =>
       /\ q.src \in spent /\ q.read \subseteq spent
       /\ NicsDrawn(p, q) /\ DisksDrawn(p, q)

AllInv ==
  /\ StorageInv
  /\ SnapshotsOfVms
  /\ \A r \in Req : Drawn(pc[r], rq[r])


-----------------------------------------------------------------------------
\* What a step does to what a template is drawn from.

\* No id is used again, so a VM or an attachment that went does not come
\* back, and what templates were given stays given.
Lasting ==
  /\ spent \subseteq spent' /\ given \subseteq given'
  /\ vms' \cap spent \subseteq vms
  /\ \A a \in DOMAIN atts' \cap spent : a \in DOMAIN atts /\ atts'[a] = atts[a]

\* No NIC is taken from a VM that stays.
NicsLast == \A v \in vms', n \in Nic : <<v, n>> \in nics => <<v, n>> \in nics'

\* A request loses nothing it drew when another does not take it away.
LEMMA DrawnStays ==
  ASSUME Lasting, NicsLast, NEW p, NEW q, Drawn(p, q)
  PROVE  Drawn(p, q)'
<1>1. SUFFICES ASSUME p \in TemplatePoints \/ (p = "done" /\ q.op = "template" /\ q.answer = "201")
               PROVE  q.src \in spent' /\ q.read \subseteq spent'
                      /\ NicsDrawn(p, q)' /\ DisksDrawn(p, q)'
  BY DEF Drawn
<1>2. q.src \in spent /\ q.read \subseteq spent /\ NicsDrawn(p, q) /\ DisksDrawn(p, q)
  BY <1>1 DEF Drawn
<1>3. NicsDrawn(p, q)'
  <2>1. SUFFICES ASSUME q.src \in vms'
                 PROVE  IF p \in {"template", "nics"} THEN q.had \subseteq NicsOf(q.src)'
                        ELSE \A n \in q.had : Has(q, "nics", n)' \/ (p = "nic" /\ n \in q.left)
    BY DEF NicsDrawn
  <2>2. q.src \in vms
    BY <1>2, <2>1 DEF Lasting
  <2>3. NicsOf(q.src) \subseteq NicsOf(q.src)'
    BY <2>1 DEF NicsLast, NicsOf
  <2> QED BY <1>2, <2>2, <2>3 DEF NicsDrawn, Has, Lasting
<1>4. DisksDrawn(p, q)'
  <2>1. ASSUME NEW a \in q.read, a \in DOMAIN atts'
        PROVE  a \in DOMAIN atts /\ atts'[a] = atts[a]
    BY <1>2, <2>1 DEF Lasting
  <2> QED BY <1>2, <2>1 DEF DisksDrawn, Has, Lasting
<1> QED BY <1>2, <1>3, <1>4 DEF Lasting

\* The step of one request.
LEMMA StepDraws ==
  ASSUME AllInv, NEW r \in Req, NEW from, NEW to, NEW k, Onward(r, from, to, k),
         Lasting, NicsLast, Drawn(to, k)'
  PROVE  \A s \in Req : Drawn(pc[s], rq[s])'
<1>1. /\ pc'[r] = to /\ rq'[r] = k
      /\ \A s \in Req : s # r => pc'[s] = pc[s] /\ rq'[s] = rq[s]
  BY DEF Onward, AllInv, StorageInv
<1>2. ASSUME NEW s \in Req PROVE Drawn(pc[s], rq[s])'
  <2>1. CASE s = r
    BY <2>1, <1>1 DEF Drawn, NicsDrawn, DisksDrawn, Has
  <2>2. CASE s # r
    <3>1. PICK p, q : p = pc[s] /\ q = rq[s]
      OBVIOUS
    <3>2. Drawn(p, q)'
      BY <3>1, DrawnStays DEF AllInv
    <3> QED BY <3>1, <3>2, <2>2, <1>1
  <2> QED BY <2>1, <2>2
<1> QED BY <1>2

-----------------------------------------------------------------------------
\* The steps of VmStorage.

\* The requests of VmStorage make no template, and keep what they are.
LEMMA StartsElsewhere ==
  ASSUME NEW r \in Req, AttachNew(r) \/ AttachExisting(r) \/ CloneVm(r)
  PROVE  \E to, k : /\ Onward(r, "idle", to, k)
                    /\ to \in {"pick", "check", "disks", "done"}
                    /\ k.op \in {"new", "existing", "clone"}
<1>1. CASE AttachNew(r)
  <2>1. PICK v \in Vm : Begin(r, "pick", [Fresh EXCEPT !.op = "new", !.vm = v])
    BY <1>1 DEF AttachNew
  <2>2. PICK k : k = [Fresh EXCEPT !.op = "new", !.vm = v] /\ Begin(r, "pick", k)
    BY <2>1
  <2>3. Onward(r, "idle", "pick", k) /\ k.op = "new"
    BY <2>2 DEF Begin, Fresh
  <2> QED BY <2>3
<1>2. CASE AttachExisting(r)
  <2>1. PICK v \in Vm, d \in Disk \cap spent :
          \/ Begin(r, "check", [Fresh EXCEPT !.op = "existing", !.vm = v, !.disk = d])
          \/ Begin(r, "done", [Fresh EXCEPT !.op = "existing", !.answer = "404"])
    BY <1>2 DEF AttachExisting
  <2>2. PICK k, to :
          /\ \/ k = [Fresh EXCEPT !.op = "existing", !.vm = v, !.disk = d]
             \/ k = [Fresh EXCEPT !.op = "existing", !.answer = "404"]
          /\ to \in {"check", "done"}
          /\ Begin(r, to, k)
    BY <2>1
  <2>3. Onward(r, "idle", to, k) /\ k.op = "existing"
    BY <2>2 DEF Begin, Fresh
  <2> QED BY <2>2, <2>3
<1>3. CASE CloneVm(r)
  <2>1. PICK src \in Vm \cap spent, v \in Vm \ spent :
          Onward(r, "idle", "disks", [Fresh EXCEPT !.op = "clone", !.vm = v, !.src = src,
                                                   !.had = NicsOf(src)])
    BY <1>3 DEF CloneVm
  <2>2. PICK k, h : /\ k = [Fresh EXCEPT !.op = "clone", !.vm = v, !.src = src, !.had = h]
                    /\ Onward(r, "idle", "disks", k)
    BY <2>1
  <2>3. k.op = "clone"
    BY <2>2 DEF Fresh
  <2> QED BY <2>2, <2>3
<1> QED BY <1>1, <1>2, <1>3, Zenon

\* And so they do at each further statement.
LEMMA GoesOnElsewhere ==
  ASSUME StorageInv, NEW r \in Req, Continue(r)
  PROVE  \E from, to, k : /\ Onward(r, from, to, k)
                          /\ to \in Cloning \cup Attaching \cup {"done"}
                          /\ k.op \in {"new", "existing", "clone"}
<1>1. PICK q : q = rq[r]
  OBVIOUS
<1>2. SUFFICES ASSUME DOMAIN q = Fields
               PROVE  \E from, to, k : /\ Onward(r, from, to, k)
                                       /\ from \in Cloning \cup Attaching
                                       /\ to \in Cloning \cup Attaching \cup {"done"}
                                       /\ k.op = q.op
  <2>1. Known(pc[r], q)
    BY <1>1 DEF StorageInv
  <2> QED BY <2>1, <1>2 DEF Known, Onward
<1>3. ASSUME NEW from \in Cloning \cup Attaching, NEW code, Outcome(r, from, code)
      PROVE  \E k : Onward(r, from, "done", k) /\ k.op = q.op
  <2>1. PICK k : k = [q EXCEPT !.answer = code] /\ Onward(r, from, "done", k)
    BY <1>1, <1>3 DEF Outcome
  <2> QED BY <2>1, <1>2 DEF Fields
<1>4. CASE \E from \in Cloning \cup Attaching : \E code : Outcome(r, from, code)
  BY <1>3, <1>4
<1>5. CASE \E from, to \in Cloning \cup Attaching : Onward(r, from, to, q)
  BY <1>5
<1>6. CASE PickDomain(r)
  <2>1. CASE \E s : Onward(r, "pick", "disk", [q EXCEPT !.domain = s])
    <3>1. PICK s, k : k = [q EXCEPT !.domain = s] /\ Onward(r, "pick", "disk", k)
      BY <2>1
    <3> QED BY <3>1, <1>2 DEF Fields, Attaching
  <2> QED BY <1>1, <1>4, <1>6, <2>1 DEF PickDomain, Attaching
<1>7. CASE InsertDisk(r)
  <2>1. CASE \E d : Onward(r, "disk", "attach", [q EXCEPT !.disk = d])
    <3>1. PICK d, k : k = [q EXCEPT !.disk = d] /\ Onward(r, "disk", "attach", k)
      BY <2>1
    <3> QED BY <3>1, <1>2 DEF Fields, Attaching
  <2> QED BY <1>1, <1>4, <1>7, <2>1 DEF InsertDisk, Attaching
<1>8. CASE CheckAttached(r)
  BY <1>1, <1>4, <1>5, <1>8 DEF CheckAttached, Attaching
<1>9. CASE InsertAtt(r)
  <2>1. CASE \E a : Onward(r, "attach", "reread", [q EXCEPT !.att = a])
    <3>1. PICK a, k : k = [q EXCEPT !.att = a] /\ Onward(r, "attach", "reread", k)
      BY <2>1
    <3> QED BY <3>1, <1>2 DEF Fields, Attaching
  <2> QED BY <1>1, <1>4, <1>9, <2>1 DEF InsertAtt, AttRefused, Attaching
<1>10. CASE RereadAtt(r)
  BY <1>4, <1>10 DEF RereadAtt, Attaching
<1>11. CASE ReadDisks(r)
  <2>1. PICK m, l, k : /\ k = [q EXCEPT !.read = m, !.left = l]
                       /\ Onward(r, "disks", "copydisk", k)
    BY <1>1, <1>11 DEF ReadDisks
  <2>2. k.op = q.op
    BY <2>1, <1>2 DEF Fields
  <2> QED BY <2>1, <2>2 DEF Cloning
<1>12. CASE CopyDisk(r)
  <2>1. CASE \E d \in q.left : \E new \in Disk :
               /\ NewDisk(new, q.read[d])
               /\ Onward(r, "copydisk", "copyatt",
                         [q EXCEPT !.left = @ \ {d}, !.disk = new, !.made = Insert(@, d, new)])
    <3>1. PICK d, new, l, m, k : /\ k = [q EXCEPT !.left = l, !.disk = new, !.made = m]
                                 /\ Onward(r, "copydisk", "copyatt", k)
      BY <2>1
    <3>2. k.op = q.op
      BY <3>1, <1>2 DEF Fields
    <3> QED BY <3>1, <3>2 DEF Cloning
  <2>2. CASE \E code : Outcome(r, "copydisk", code)
    BY <1>4, <2>2 DEF Cloning
  <2> QED BY <1>1, <1>12, <2>1, <2>2 DEF CopyDisk
<1>13. CASE CopyAtt(r)
  BY <1>1, <1>4, <1>5, <1>13 DEF CopyAtt, AttRefused, Cloning
<1>14. CASE ReadNics(r)
  <2>1. PICK l, k : k = [q EXCEPT !.left = l] /\ Onward(r, "copydisk", "copynic", k)
    BY <1>1, <1>14 DEF ReadNics
  <2> QED BY <2>1, <1>2 DEF Fields, Cloning
<1>15. CASE CopyNic(r)
  <2>1. CASE \E n \in q.left :
               /\ nics' = nics \cup {<<q.vm, n>>}
               /\ Onward(r, "copynic", "copynic",
                         [q EXCEPT !.left = @ \ {n}, !.copied = @ \cup {n}])
    <3>1. PICK l, c, k : /\ k = [q EXCEPT !.left = l, !.copied = c]
                         /\ Onward(r, "copynic", "copynic", k)
      BY <2>1
    <3>2. k.op = q.op
      BY <3>1, <1>2 DEF Fields
    <3> QED BY <3>1, <3>2 DEF Cloning
  <2>2. CASE \E code : Outcome(r, "copynic", code)
    BY <1>4, <2>2 DEF Cloning
  <2> QED BY <1>1, <1>15, <2>1, <2>2 DEF CopyNic
<1>16. CASE CloneDone(r)
  BY <1>4, <1>16 DEF CloneDone, Cloning
<1> QED BY <1>6, <1>7, <1>8, <1>9, <1>10, <1>11, <1>12, <1>13, <1>14, <1>15, <1>16
        DEF Continue

\* What a request of VmStorage inserts is new, and it takes nothing away.
LEMMA RequestsLast ==
  ASSUME NEW r \in Req, UNCHANGED given,
         AttachNew(r) \/ AttachExisting(r) \/ CloneVm(r) \/ Continue(r) \/ TimeOut(r)
  PROVE  Lasting /\ NicsLast
<1>1. CASE UNCHANGED tables
  BY <1>1 DEF tables, Lasting, NicsLast
<1>2. CASE \E d, s : NewDisk(d, s)
  BY <1>2 DEF NewDisk, Lasting, NicsLast
<1>3. CASE \E a, v, d : NewAtt(a, v, d)
  BY <1>3 DEF NewAtt, Insert, Lasting, NicsLast
<1>4. CASE nics \subseteq nics' /\ UNCHANGED <<vms, atts, spent>>
  BY <1>4 DEF Lasting, NicsLast
<1>5. CASE CloneVm(r) \/ TimeOut(r)
  BY <1>1, <1>5 DEF CloneVm, TimeOut, Lasting, NicsLast
<1>6. CASE AttachNew(r) \/ AttachExisting(r)
  BY <1>1, <1>6 DEF AttachNew, AttachExisting, Begin
<1>7. CASE PickDomain(r) \/ InsertDisk(r) \/ CheckAttached(r) \/ InsertAtt(r) \/ RereadAtt(r)
  BY <1>1, <1>2, <1>3, <1>7
     DEF PickDomain, InsertDisk, CheckAttached, InsertAtt, AttRefused, RereadAtt
<1>8. CASE ReadDisks(r) \/ CopyDisk(r) \/ CopyAtt(r) \/ ReadNics(r) \/ CopyNic(r) \/ CloneDone(r)
  BY <1>1, <1>2, <1>3, <1>4, <1>8
     DEF ReadDisks, CopyDisk, CopyAtt, AttRefused, ReadNics, CopyNic, CloneDone
<1> QED BY <1>5, <1>6, <1>7, <1>8 DEF Continue


\* A NIC removed or renamed is no longer one its VM had all along.
LEMMA ForgetDraws ==
  ASSUME AllInv, NEW x, Forget(x), nics \ {x} \subseteq nics',
         UNCHANGED <<vms, disks, atts, domains, spent, loose, pc, given>>
  PROVE  \A s \in Req : Drawn(pc[s], rq[s])'
<1>1. ASSUME NEW s \in Req PROVE Drawn(pc[s], rq[s])'
  <2>1. PICK p, q, k, h : /\ p = pc[s] /\ q = rq[s] /\ k = rq'[s] /\ h = q.had \ {x[2]}
                          /\ k = IF q.src = x[1] THEN [q EXCEPT !.had = h] ELSE q
    BY DEF Forget
  <2>2. Known(p, q) /\ Drawn(p, q)
    BY <2>1 DEF AllInv, StorageInv
  <2>3. /\ k.op = q.op /\ k.vm = q.vm /\ k.src = q.src /\ k.read = q.read
        /\ k.left = q.left /\ k.answer = q.answer
        /\ k.had = IF q.src = x[1] THEN h ELSE q.had
    BY <2>1, <2>2 DEF Known, Fields
  <2>4. \A n \in k.had : n \in q.had /\ <<q.src, n>> # x
    BY <2>1, <2>3
  <2>5. NicsDrawn(p, q) => NicsDrawn(p, k)'
    <3>1. SUFFICES ASSUME NicsDrawn(p, q), q.src \in vms
                   PROVE  IF p \in {"template", "nics"} THEN k.had \subseteq NicsOf(q.src)'
                          ELSE \A n \in k.had : Has(k, "nics", n)' \/ (p = "nic" /\ n \in k.left)
      BY <2>3 DEF NicsDrawn
    <3>2. CASE p \in {"template", "nics"}
      BY <2>4, <3>1, <3>2 DEF NicsDrawn, NicsOf
    <3>3. CASE p \notin {"template", "nics"}
      BY <2>3, <2>4, <3>1, <3>3 DEF NicsDrawn, Has
    <3> QED BY <3>2, <3>3
  <2>6. DisksDrawn(p, q) => DisksDrawn(p, k)'
    BY <2>3 DEF DisksDrawn, Has
  <2>7. Drawn(p, k)'
    BY <2>2, <2>3, <2>5, <2>6 DEF Drawn
  <2> QED BY <2>1, <2>7
<1> QED BY <1>1

\* A request lost answers nothing.
LEMMA RestartDraws ==
  ASSUME AllInv, Restart, UNCHANGED given
  PROVE  \A s \in Req : Drawn(pc[s], rq[s])'
<1>1. ASSUME NEW s \in Req PROVE Drawn(pc[s], rq[s])'
  <2>1. PICK p, q : p = pc[s] /\ q = rq[s] /\ Drawn(p, q)
    BY DEF AllInv
  <2>2. rq'[s] = q /\ pc'[s] \in {p, "lost"}
    BY <2>1 DEF Restart
  <2>3. Lasting /\ NicsLast
    BY DEF Restart, tables, Lasting, NicsLast
  <2>4. Drawn(p, q)'
    BY <2>1, <2>3, DrawnStays
  <2>5. Drawn("lost", q)'
    BY DEF Drawn, TemplatePoints, SnapshotPoints
  <2> QED BY <2>2, <2>4, <2>5
<1> QED BY <1>1

\* Nor does a request that timed out make a template.
LEMMA TimeOutDraws ==
  ASSUME AllInv, NEW r \in Req, TimeOut(r), UNCHANGED given
  PROVE  \A s \in Req : Drawn(pc[s], rq[s])'
<1>1. PICK q, k : q = rq[r] /\ k = [q EXCEPT !.answer = "500"] /\ Onward(r, pc[r], "done", k)
  BY DEF TimeOut, Outcome
<1>2. Known(pc[r], q)
  BY <1>1 DEF AllInv, StorageInv
<1>3. k.answer = "500"
  BY <1>1, <1>2 DEF Known, Fields
<1>4. Drawn("done", k)'
  BY <1>3 DEF Drawn, TemplatePoints, SnapshotPoints
<1>5. Lasting /\ NicsLast
  BY RequestsLast
<1> QED BY <1>1, <1>4, <1>5, StepDraws

\* Whatever VmStorage does beside them, templates and snapshots stay sound.
LEMMA StorageDraws ==
  ASSUME AllInv, Storage(Next)
  PROVE  AllInv'
<1>1. Next /\ UNCHANGED given
  BY DEF Storage, given
<1>2. StorageInv'
  BY <1>1, StorageKept DEF AllInv
<1>3. SnapshotsOfVms'
  BY DEF Storage, Restrict, SnapshotsOfVms
<1>4. \A s \in Req : Drawn(pc[s], rq[s])'
  <2>1. CASE \E r \in Req : AttachNew(r) \/ AttachExisting(r) \/ CloneVm(r) \/ Continue(r)
    <3>1. PICK r \in Req : AttachNew(r) \/ AttachExisting(r) \/ CloneVm(r) \/ Continue(r)
      BY <2>1
    <3>2. PICK from, to, k : /\ Onward(r, from, to, k)
                             /\ to \in Cloning \cup Attaching \cup {"done"}
                             /\ k.op \in {"new", "existing", "clone"}
      <4>1. CASE Continue(r)
        BY <4>1, GoesOnElsewhere DEF AllInv
      <4>2. CASE ~Continue(r)
        <5>1. PICK to, k : /\ Onward(r, "idle", to, k)
                           /\ to \in {"pick", "check", "disks", "done"}
                           /\ k.op \in {"new", "existing", "clone"}
          BY <3>1, <4>2, StartsElsewhere
        <5> QED BY <5>1 DEF Cloning, Attaching
      <4> QED BY <4>1, <4>2
    <3>3. Lasting /\ NicsLast
      BY <1>1, <3>1, RequestsLast
    <3>4. Drawn(to, k)'
      BY <3>2 DEF Drawn, TemplatePoints, SnapshotPoints, Cloning, Attaching
    <3> QED BY <3>2, <3>3, <3>4, StepDraws
  <2>2. CASE RemoveVm \/ AddDisk \/ RemoveDisk \/ Detach \/ AddNic \/ RemoveDomain
    <3>1. UNCHANGED requests
      BY <2>2 DEF RemoveVm, AddDisk, RemoveDisk, Detach, AddNic, RemoveDomain
    <3>2. Lasting /\ NicsLast
      BY <1>1, <2>2 DEF RemoveVm, AddDisk, RemoveDisk, Detach, AddNic, RemoveDomain,
                        Delete, Restrict, Lasting, NicsLast
    <3>3. ASSUME NEW s \in Req PROVE Drawn(pc[s], rq[s])'
      <4>1. PICK p, q : p = pc[s] /\ q = rq[s]
        OBVIOUS
      <4>2. Drawn(p, q)'
        BY <4>1, <3>2, DrawnStays DEF AllInv
      <4> QED BY <3>1, <4>1, <4>2 DEF requests
    <3> QED BY <3>3
  <2>3. CASE RemoveNic
    <3>1. PICK x \in nics : nics' = nics \ {x} /\ Forget(x)
      BY <2>3 DEF RemoveNic
    <3> QED BY <1>1, <2>3, <3>1, ForgetDraws DEF RemoveNic
  <2>4. CASE RenameNic
    <3>1. PICK x \in nics, n \in Nic : nics' = (nics \ {x}) \cup {<<x[1], n>>} /\ Forget(x)
      BY <2>4 DEF RenameNic
    <3>2. nics \ {x} \subseteq nics'
      BY <3>1
    <3> QED BY <1>1, <2>4, <3>1, <3>2, ForgetDraws DEF RenameNic
  <2>5. CASE Restart
    BY <1>1, <2>5, RestartDraws
  <2>6. CASE \E r \in Req : TimeOut(r)
    BY <1>1, <2>6, TimeOutDraws
  <2> QED BY <1>1, <2>1, <2>2, <2>3, <2>4, <2>5, <2>6 DEF Next, Others
<1> QED BY <1>2, <1>3, <1>4 DEF AllInv

-----------------------------------------------------------------------------
\* POST /templates and POST /vms/{id}/snapshots.

\* A statement that leaves VMs, disks and NICs as they are.
LEMMA MoveDraws ==
  ASSUME AllInv, NEW r \in Req, NEW from, NEW to, NEW k, Onward(r, from, to, k),
         UNCHANGED <<vms, disks, atts, nics, domains, loose>>,
         spent \subseteq spent', given \subseteq given',
         from \notin {"attach", "copyatt", "lost", "done"},
         Known(to, k), Drawn(to, k)', SnapshotsOfVms'
  PROVE  AllInv'
<1>1. StorageInv'
  BY ReadKeeps DEF AllInv
<1>2. Lasting /\ NicsLast
  BY DEF Lasting, NicsLast
<1>3. \A s \in Req : Drawn(pc[s], rq[s])'
  BY <1>2, StepDraws
<1> QED BY <1>1, <1>3 DEF AllInv

\* The same with nothing written at all.
LEMMA StepKeepsAll ==
  ASSUME AllInv, NEW r \in Req, NEW from, NEW to, NEW k, Step(r, from, to, k),
         from \notin {"attach", "copyatt", "lost", "done"}, Known(to, k), Drawn(to, k)
  PROVE  AllInv'
<1>1. Drawn(to, k)'
  BY DEF Step, tables, below, given, Drawn, NicsDrawn, DisksDrawn, NicsOf, Has
<1>2. SnapshotsOfVms'
  BY DEF Step, tables, below, AllInv, SnapshotsOfVms
<1> QED BY <1>1, <1>2, MoveDraws DEF Step, tables, below, given

\* An answer: 201 only for a template whose loops are done, or a snapshot.
LEMMA EndKeepsAll ==
  ASSUME AllInv, NEW r \in Req, NEW from \in TemplatePoints \cup SnapshotPoints,
         NEW code \in Answers \ {"200"}, End(r, from, code),
         code = "201" => from = "treread" \/ from \in SnapshotPoints
  PROVE  AllInv'
<1>1. PICK q : q = rq[r]
  OBVIOUS
<1>2. PICK k : k = [q EXCEPT !.answer = code]
  OBVIOUS
<1>3. Step(r, from, "done", k)
  BY <1>1, <1>2 DEF End, Outcome, Step
<1>4. Known(from, q) /\ Drawn(from, q)
  BY <1>1, <1>3 DEF AllInv, StorageInv, Step, Onward
<1>5. /\ DOMAIN k = Fields /\ k.answer = code
      /\ k.op = q.op /\ k.vm = q.vm /\ k.src = q.src /\ k.had = q.had /\ k.read = q.read
  BY <1>2, <1>4 DEF Known, Fields
<1>6. Known("done", k)
  BY <1>4, <1>5 DEF Known, Cloning, Attaching
<1>7. Drawn("done", k)
  <2>1. CASE code = "201" /\ from = "treread"
    BY <1>4, <1>5, <2>1 DEF Drawn, NicsDrawn, DisksDrawn, Has, TemplatePoints, SnapshotPoints
  <2>2. CASE code = "201" /\ from \in SnapshotPoints
    BY <1>4, <1>5, <2>2 DEF Drawn, TemplatePoints, SnapshotPoints
  <2>3. CASE code # "201"
    BY <1>5, <2>3 DEF Drawn, TemplatePoints, SnapshotPoints
  <2> QED BY <2>1, <2>2, <2>3
<1> QED BY <1>3, <1>6, <1>7, StepKeepsAll DEF TemplatePoints, SnapshotPoints

\* The VM has now what it is said to have had.
LEMMA TemplateReadKeeps ==
  ASSUME AllInv, NEW r \in Req, TemplateRead(r)
  PROVE  AllInv'
<1>1. PICK v \in Vm \cap spent :
        IF v \notin vms
        THEN Step(r, "idle", "done", [Fresh EXCEPT !.op = "template", !.answer = "404"])
        ELSE Step(r, "idle", "template", [Fresh EXCEPT !.op = "template", !.src = v,
                                                       !.had = NicsOf(v), !.read = AttsOf(v)])
  BY DEF TemplateRead
<1>2. CASE v \notin vms
  <2>1. PICK k : /\ k = [Fresh EXCEPT !.op = "template", !.answer = "404"]
                 /\ Step(r, "idle", "done", k)
    BY <1>1, <1>2
  <2>2. DOMAIN k = Fields /\ k.op = "template" /\ k.answer = "404"
    BY <2>1 DEF Fresh, Fields
  <2>3. Known("done", k) /\ Drawn("done", k)
    BY <2>2 DEF Known, Cloning, Attaching, Answers, Drawn, TemplatePoints, SnapshotPoints
  <2> QED BY <2>1, <2>3, StepKeepsAll
<1>3. CASE v \in vms
  <2>1. PICK k, h, as : /\ h = NicsOf(v) /\ as = AttsOf(v)
                        /\ k = [Fresh EXCEPT !.op = "template", !.src = v, !.had = h, !.read = as]
                        /\ Step(r, "idle", "template", k)
    BY <1>1, <1>3
  <2>2. /\ DOMAIN k = Fields /\ k.op = "template" /\ k.answer = None
        /\ k.src = v /\ k.had = h /\ k.read = as
    BY <2>1 DEF Fresh, Fields
  <2>3. as \subseteq spent
    BY <2>1 DEF AttsOf, AllInv, StorageInv, TablesOK
  <2>4. Known("template", k)
    BY <2>2 DEF Known, Cloning, Attaching
  <2>5. NicsDrawn("template", k)
    BY <2>1, <2>2 DEF NicsDrawn
  <2>6. DisksDrawn("template", k)
    BY <2>1, <2>2 DEF DisksDrawn, AttsOf
  <2>7. Drawn("template", k)
    BY <1>1, <2>2, <2>3, <2>5, <2>6 DEF Drawn, TemplatePoints, SnapshotPoints
  <2> QED BY <2>1, <2>4, <2>7, StepKeepsAll
<1> QED BY <1>2, <1>3

\* The template is inserted; the VM has still the NICs it keeps.
LEMMA TemplateInsertKeeps ==
  ASSUME AllInv, NEW r \in Req, TemplateInsert(r)
  PROVE  AllInv'
<1>1. PICK q : q = rq[r]
  OBVIOUS
<1>2. CASE End(r, "template", "409") \/ End(r, "template", "400")
  BY <1>2, EndKeepsAll DEF TemplatePoints, Answers
<1>3. CASE \E t : /\ spent' = spent \cup {t}
                  /\ Onward(r, "template", "nics", [q EXCEPT !.vm = t])
                  /\ UNCHANGED <<vms, disks, atts, nics, domains, loose, nested, taken, snapshots>>
  <2>1. PICK t, k : /\ spent' = spent \cup {t}
                    /\ k = [q EXCEPT !.vm = t]
                    /\ Onward(r, "template", "nics", k)
                    /\ UNCHANGED <<vms, disks, atts, nics, domains, loose, nested, taken, snapshots>>
    BY <1>3
  <2>2. Known("template", q) /\ Drawn("template", q)
    BY <1>1, <2>1 DEF AllInv, StorageInv, Onward
  <2>3. /\ DOMAIN k = Fields /\ k.op = q.op /\ k.answer = q.answer
        /\ k.src = q.src /\ k.had = q.had /\ k.read = q.read
    BY <2>1, <2>2 DEF Known, Fields
  <2>4. Known("nics", k)
    BY <2>2, <2>3 DEF Known, Cloning, Attaching
  <2>5. Drawn("nics", k)
    BY <2>2, <2>3 DEF Drawn, NicsDrawn, DisksDrawn, TemplatePoints, SnapshotPoints
  <2>6. Drawn("nics", k)'
    BY <2>1, <2>5, DrawnStays DEF Lasting, NicsLast, given
  <2>7. SnapshotsOfVms'
    BY <2>1 DEF AllInv, SnapshotsOfVms
  <2> QED BY <2>1, <2>4, <2>6, <2>7, MoveDraws DEF given
<1> QED BY <1>1, <1>2, <1>3 DEF TemplateInsert

\* The NICs to copy are those the VM has, so those it had and kept.
LEMMA TemplateReadNicsKeeps ==
  ASSUME AllInv, NEW r \in Req, TemplateReadNics(r)
  PROVE  AllInv'
<1>1. PICK q : q = rq[r]
  OBVIOUS
<1>2. PICK k, ns : /\ ns = NicsOf(q.src) /\ k = [q EXCEPT !.left = ns]
                   /\ Step(r, "nics", "nic", k)
  BY <1>1 DEF TemplateReadNics
<1>3. Known("nics", q) /\ Drawn("nics", q)
  BY <1>1, <1>2 DEF AllInv, StorageInv, Step, Onward
<1>4. /\ DOMAIN k = Fields /\ k.op = q.op /\ k.answer = q.answer /\ k.left = ns
      /\ k.src = q.src /\ k.had = q.had /\ k.read = q.read
  BY <1>2, <1>3 DEF Known, Fields
<1>5. Known("nic", k)
  BY <1>3, <1>4 DEF Known, Cloning, Attaching
<1>6. NicsDrawn("nic", k) /\ DisksDrawn("nic", k)
  BY <1>2, <1>3, <1>4 DEF Drawn, NicsDrawn, DisksDrawn, TemplatePoints
<1>7. Drawn("nic", k)
  BY <1>3, <1>4, <1>6 DEF Drawn, TemplatePoints, SnapshotPoints
<1> QED BY <1>2, <1>5, <1>7, StepKeepsAll

\* A NIC to be copied becomes a child.
LEMMA TemplateNicKeeps ==
  ASSUME AllInv, NEW r \in Req, TemplateNic(r)
  PROVE  AllInv'
<1>1. PICK q : q = rq[r]
  OBVIOUS
<1>2. PICK n, l, k :
        /\ nested' = nested \cup {<<q.vm, "nics", n>>}
        /\ l = q.left \ {n} /\ k = [q EXCEPT !.left = l]
        /\ Onward(r, "nic", "nic", k)
        /\ UNCHANGED <<tables, loose, templates, taken, snapshots>>
  BY <1>1 DEF TemplateNic, Nest
<1>3. Known("nic", q) /\ Drawn("nic", q)
  BY <1>1, <1>2 DEF AllInv, StorageInv, Onward
<1>4. /\ DOMAIN k = Fields /\ k.op = q.op /\ k.answer = q.answer /\ k.left = l
      /\ k.src = q.src /\ k.had = q.had /\ k.read = q.read /\ k.vm = q.vm
  BY <1>2, <1>3 DEF Known, Fields
<1>5. Known("nic", k)
  BY <1>3, <1>4 DEF Known, Cloning, Attaching
<1>6. NicsDrawn("nic", k)'
  BY <1>2, <1>3, <1>4 DEF tables, given, Drawn, NicsDrawn, Has, TemplatePoints
<1>7. DisksDrawn("nic", k)'
  BY <1>2, <1>3, <1>4 DEF tables, Drawn, DisksDrawn, TemplatePoints
<1>8. Drawn("nic", k)'
  BY <1>2, <1>3, <1>4, <1>6, <1>7 DEF tables, Drawn, TemplatePoints, SnapshotPoints
<1>9. SnapshotsOfVms'
  BY <1>2 DEF tables, AllInv, SnapshotsOfVms
<1> QED BY <1>2, <1>5, <1>8, <1>9, MoveDraws DEF tables, given

\* The same of the disks.
LEMMA TemplateReadDisksKeeps ==
  ASSUME AllInv, NEW r \in Req, TemplateReadDisks(r)
  PROVE  AllInv'
<1>1. PICK q : q = rq[r]
  OBVIOUS
<1>2. PICK k, ds : /\ ds = DisksOf(q.src) /\ k = [q EXCEPT !.left = ds] /\ q.left = {}
                   /\ Step(r, "nic", "tdisk", k)
  BY <1>1 DEF TemplateReadDisks
<1>3. Known("nic", q) /\ Drawn("nic", q)
  BY <1>1, <1>2 DEF AllInv, StorageInv, Step, Onward
<1>4. /\ DOMAIN k = Fields /\ k.op = q.op /\ k.answer = q.answer /\ k.left = ds
      /\ k.src = q.src /\ k.had = q.had /\ k.read = q.read /\ k.vm = q.vm
  BY <1>2, <1>3 DEF Known, Fields
<1>5. Known("tdisk", k)
  BY <1>3, <1>4 DEF Known, Cloning, Attaching
<1>6. NicsDrawn("tdisk", k)
  BY <1>2, <1>3, <1>4 DEF Drawn, NicsDrawn, Has, TemplatePoints
<1>7. DisksDrawn("tdisk", k)
  BY <1>2, <1>3, <1>4 DEF Drawn, DisksDrawn, DisksOf, TemplatePoints
<1>8. Drawn("tdisk", k)
  BY <1>3, <1>4, <1>6, <1>7 DEF Drawn, TemplatePoints, SnapshotPoints
<1> QED BY <1>2, <1>5, <1>8, StepKeepsAll

\* A disk to be copied becomes a child, or has one by its name already.
LEMMA TemplateDiskKeeps ==
  ASSUME AllInv, NEW r \in Req, TemplateDisk(r)
  PROVE  AllInv'
<1>1. PICK q : q = rq[r]
  OBVIOUS
<1>2. PICK d, l, k :
        /\ nested' = nested \cup {<<q.vm, "diskattachments", DiskName[d]>>}
        /\ l = q.left \ {d} /\ k = [q EXCEPT !.left = l]
        /\ Onward(r, "tdisk", "tdisk", k)
        /\ UNCHANGED <<tables, loose, templates, taken, snapshots>>
  BY <1>1 DEF TemplateDisk, Nest
<1>3. Known("tdisk", q) /\ Drawn("tdisk", q)
  BY <1>1, <1>2 DEF AllInv, StorageInv, Onward
<1>4. /\ DOMAIN k = Fields /\ k.op = q.op /\ k.answer = q.answer /\ k.left = l
      /\ k.src = q.src /\ k.had = q.had /\ k.read = q.read /\ k.vm = q.vm
  BY <1>2, <1>3 DEF Known, Fields
<1>5. Known("tdisk", k)
  BY <1>3, <1>4 DEF Known, Cloning, Attaching
<1>6. NicsDrawn("tdisk", k)'
  BY <1>2, <1>3, <1>4 DEF tables, given, Drawn, NicsDrawn, Has, TemplatePoints
<1>7. DisksDrawn("tdisk", k)'
  BY <1>2, <1>3, <1>4 DEF tables, given, Drawn, DisksDrawn, Has, TemplatePoints
<1>8. Drawn("tdisk", k)'
  BY <1>2, <1>3, <1>4, <1>6, <1>7 DEF tables, Drawn, TemplatePoints, SnapshotPoints
<1>9. SnapshotsOfVms'
  BY <1>2 DEF tables, AllInv, SnapshotsOfVms
<1> QED BY <1>2, <1>5, <1>8, <1>9, MoveDraws DEF tables, given

\* The job is written when no disk is left: the template is whole then.
LEMMA TemplateJobKeeps ==
  ASSUME AllInv, NEW r \in Req, TemplateJob(r)
  PROVE  AllInv'
<1>1. PICK q : q = rq[r]
  OBVIOUS
<1>2. CASE End(r, "tdisk", "500")
  BY <1>2, EndKeepsAll DEF TemplatePoints, Answers
<1>3. CASE Step(r, "tdisk", "treread", q)
  <2>1. Known("tdisk", q) /\ Drawn("tdisk", q) /\ q.left = {}
    BY <1>1, <1>3 DEF AllInv, StorageInv, Step, Onward, TemplateJob
  <2>2. Known("treread", q)
    BY <2>1 DEF Known, Cloning, Attaching
  <2>3. NicsDrawn("treread", q) /\ DisksDrawn("treread", q)
    BY <2>1 DEF Drawn, NicsDrawn, DisksDrawn, TemplatePoints
  <2>4. Drawn("treread", q)
    BY <2>1, <2>3 DEF Drawn, TemplatePoints, SnapshotPoints
  <2> QED BY <1>3, <2>2, <2>4, StepKeepsAll
<1> QED BY <1>1, <1>2, <1>3 DEF TemplateJob

\* The template is read back, or found removed.
LEMMA TemplateRereadKeeps ==
  ASSUME AllInv, NEW r \in Req, TemplateReread(r)
  PROVE  AllInv'
<1>1. \E code \in {"201", "404"} : End(r, "treread", code)
  BY DEF TemplateReread
<1> QED BY <1>1, EndKeepsAll DEF TemplatePoints, Answers

\* A snapshot is asked for, of a VM that may not exist.
LEMMA SnapshotNewKeeps ==
  ASSUME AllInv, NEW r \in Req, SnapshotNew(r)
  PROVE  AllInv'
<1>1. PICK v \in Vm : Step(r, "idle", "snapshot", [Fresh EXCEPT !.op = "snapshot", !.vm = v])
  BY DEF SnapshotNew
<1>2. PICK k : /\ k = [Fresh EXCEPT !.op = "snapshot", !.vm = v]
               /\ Step(r, "idle", "snapshot", k)
  BY <1>1
<1>3. DOMAIN k = Fields /\ k.op = "snapshot" /\ k.answer = None
  BY <1>2 DEF Fresh, Fields
<1>4. Known("snapshot", k) /\ Drawn("snapshot", k)
  BY <1>3 DEF Known, Cloning, Attaching, Drawn, TemplatePoints, SnapshotPoints
<1> QED BY <1>2, <1>4, StepKeepsAll

\* A snapshot is inserted only while its VM is there.
LEMMA SnapshotInsertKeeps ==
  ASSUME AllInv, NEW r \in Req, SnapshotInsert(r)
  PROVE  AllInv'
<1>1. PICK q : q = rq[r]
  OBVIOUS
<1>2. CASE End(r, "snapshot", "500") \/ End(r, "snapshot", "400")
  BY <1>2, EndKeepsAll DEF SnapshotPoints, Answers
<1>3. CASE \E s : /\ q.vm \in vms
                  /\ snapshots' = Insert(snapshots, s, q.vm)
                  /\ spent' = spent \cup {s}
                  /\ Onward(r, "snapshot", "sjob", [q EXCEPT !.disk = s])
                  /\ UNCHANGED <<vms, disks, atts, nics, domains, loose, templates, nested, taken>>
  <2>1. PICK s, k : /\ q.vm \in vms
                    /\ snapshots' = Insert(snapshots, s, q.vm)
                    /\ spent' = spent \cup {s}
                    /\ k = [q EXCEPT !.disk = s]
                    /\ Onward(r, "snapshot", "sjob", k)
                    /\ UNCHANGED <<vms, disks, atts, nics, domains, loose, templates, nested, taken>>
    BY <1>3
  <2>2. Known("snapshot", q) /\ Drawn("snapshot", q)
    BY <1>1, <2>1 DEF AllInv, StorageInv, Onward
  <2>3. DOMAIN k = Fields /\ k.op = q.op /\ k.answer = q.answer
    BY <2>1, <2>2 DEF Known, Fields
  <2>4. Known("sjob", k)
    BY <2>2, <2>3 DEF Known, Cloning, Attaching
  <2>5. Drawn("sjob", k)'
    BY <2>2, <2>3 DEF Drawn, TemplatePoints, SnapshotPoints
  <2>6. SnapshotsOfVms'
    BY <2>1 DEF AllInv, SnapshotsOfVms, Insert
  <2> QED BY <2>1, <2>4, <2>5, <2>6, MoveDraws DEF given
<1> QED BY <1>1, <1>2, <1>3 DEF SnapshotInsert

\* Its job is written after the snapshot.
LEMMA SnapshotJobKeeps ==
  ASSUME AllInv, NEW r \in Req, SnapshotJob(r)
  PROVE  AllInv'
<1>1. PICK q : q = rq[r]
  OBVIOUS
<1>2. CASE End(r, "sjob", "500")
  BY <1>2, EndKeepsAll DEF SnapshotPoints, Answers
<1>3. CASE Step(r, "sjob", "sreread", q)
  <2>1. Known("sjob", q) /\ Drawn("sjob", q)
    BY <1>1, <1>3 DEF AllInv, StorageInv, Step, Onward
  <2>2. Known("sreread", q) /\ Drawn("sreread", q)
    BY <2>1 DEF Known, Cloning, Attaching, Drawn, TemplatePoints, SnapshotPoints
  <2> QED BY <1>3, <2>2, StepKeepsAll
<1> QED BY <1>1, <1>2, <1>3 DEF SnapshotJob

\* The snapshot is read back, or found gone with its VM.
LEMMA SnapshotRereadKeeps ==
  ASSUME AllInv, NEW r \in Req, SnapshotReread(r)
  PROVE  AllInv'
<1>1. \E code \in {"201", "404"} : End(r, "sreread", code)
  BY DEF SnapshotReread
<1> QED BY <1>1, EndKeepsAll DEF SnapshotPoints, Answers

-----------------------------------------------------------------------------
\* Theorems.

\* A template, a child of one or a snapshot removed: no request and no VM changes.
LEMMA RemovalsKeep ==
  ASSUME AllInv, RemoveTemplate \/ RemoveChild \/ RemoveSnapshot
  PROVE  AllInv'
<1>1. UNCHANGED <<vars, given>>
  BY DEF RemoveTemplate, RemoveChild, RemoveSnapshot, given
<1>2. StorageInv'
  BY <1>1 DEF AllInv, vars, tables, StorageInv, TablesOK, AttachedOnce, OrphansExplained,
              Attached, Known, Different
<1>3. SnapshotsOfVms'
  BY <1>1 DEF RemoveTemplate, RemoveChild, RemoveSnapshot, Delete, Restrict, vars, tables, AllInv,
              SnapshotsOfVms
<1>4. \A r \in Req : Drawn(pc[r], rq[r])'
  BY <1>1 DEF vars, tables, AllInv, Drawn, NicsDrawn, DisksDrawn, NicsOf, Has
<1> QED BY <1>2, <1>3, <1>4 DEF AllInv

\* The invariant holds in every state of every behaviour.
THEOREM AllInvariance == SpecAll => []AllInv
<1>1. InitAll => AllInv
  <2>1. ASSUME InitAll PROVE AllInv
    <3>1. StorageInv
      BY <2>1, StorageStarts DEF InitAll
    <3>2. SnapshotsOfVms
      BY <2>1 DEF InitAll, SnapshotsOfVms, Nothing
    <3>3. ASSUME NEW r \in Req PROVE Drawn(pc[r], rq[r])
      <4>1. pc[r] = "idle"
        BY <2>1 DEF InitAll, Init
      <4> QED BY <4>1 DEF Drawn, TemplatePoints, SnapshotPoints
    <3> QED BY <3>1, <3>2, <3>3 DEF AllInv
  <2> QED BY <2>1
<1>2. AllInv /\ [NextAll]_all => AllInv'
  <2>1. CASE Storage(Next)
    BY <2>1, StorageDraws
  <2>2. CASE \E r \in Req : Start(r) \/ GoOn(r)
    BY <2>2, TemplateReadKeeps, SnapshotNewKeeps, TemplateInsertKeeps, TemplateReadNicsKeeps,
       TemplateNicKeeps, TemplateReadDisksKeeps, TemplateDiskKeeps, TemplateJobKeeps,
       TemplateRereadKeeps, SnapshotInsertKeeps, SnapshotJobKeeps, SnapshotRereadKeeps
       DEF Start, GoOn
  <2>3. CASE RemoveTemplate \/ RemoveChild \/ RemoveSnapshot
    BY <2>3, RemovalsKeep
  <2>4. ASSUME AllInv, UNCHANGED all PROVE AllInv'
    <3>1. StorageInv'
      BY <2>4 DEF all, vars, tables, AllInv, StorageInv, TablesOK, AttachedOnce,
                  OrphansExplained, Attached, Known, Different
    <3>2. SnapshotsOfVms' /\ \A r \in Req : Drawn(pc[r], rq[r])'
      BY <2>4 DEF all, vars, tables, below, given, AllInv, SnapshotsOfVms, Drawn, NicsDrawn,
                  DisksDrawn, NicsOf, Has
    <3> QED BY <3>1, <3>2 DEF AllInv
  <2> QED BY <2>1, <2>2, <2>3, <2>4 DEF NextAll
<1> QED BY <1>1, <1>2, PTL DEF SpecAll

\* A template answered 201 has a child for each NIC and each disk its VM had
\* from the first statement of the request to the last.
THEOREM TemplatesAreWhole == SpecAll => []TemplateIsWhole
<1>1. ASSUME AllInv, NEW r \in Req,
             rq[r].op = "template" /\ rq[r].answer = "201" /\ rq[r].src \in vms
      PROVE  /\ \A n \in rq[r].had : <<rq[r].vm, "nics", n>> \in given
             /\ \A a \in rq[r].read \cap DOMAIN atts :
                  <<rq[r].vm, "diskattachments", DiskName[atts[a].disk]>> \in given
  <2>1. PICK p, q : p = pc[r] /\ q = rq[r]
    OBVIOUS
  <2>2. Known(p, q) /\ Drawn(p, q)
    BY <1>1, <2>1 DEF AllInv, StorageInv
  <2>3. p = "done"
    BY <1>1, <2>1, <2>2, NoneAssumption DEF Known, Answers
  <2>4. NicsDrawn("done", q) /\ DisksDrawn("done", q)
    BY <1>1, <2>1, <2>2, <2>3 DEF Drawn
  <2> QED BY <1>1, <2>1, <2>4 DEF NicsDrawn, DisksDrawn, Has
<1>2. AllInv => TemplateIsWhole
  BY <1>1 DEF TemplateIsWhole
<1> QED BY <1>2, AllInvariance, PTL

\* No snapshot outlives its VM.
THEOREM SnapshotsHaveTheirVm == SpecAll => []SnapshotsOfVms
<1>1. AllInv => SnapshotsOfVms
  BY DEF AllInv
<1> QED BY <1>1, AllInvariance, PTL

\* What VmStorage_proofs shows of ghosts and of orphans holds beside templates
\* and snapshots too.
THEOREM StorageStaysSound == SpecAll => [](NoGhosts /\ OrphansExplained /\ AttachedOnce)
<1>1. AllInv => NoGhosts /\ OrphansExplained /\ AttachedOnce
  BY TablesHaveNoGhosts DEF AllInv, StorageInv, TablesOK
<1> QED BY <1>1, AllInvariance, PTL

=============================================================================
