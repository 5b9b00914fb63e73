-------------------------- MODULE VmStorage_proofs --------------------------
(***************************************************************************)
(* Proofs, for every number of VMs, disks, attachments, NICs, storage      *)
(* domains and requests, that no reference dangles, that no disk is        *)
(* attached twice, that a request which succeeds leaves no disk behind,    *)
(* and that a clone copies every disk it read.                             *)
(***************************************************************************)
EXTENDS VmStorage, TLAPS

-----------------------------------------------------------------------------
\* The inductive invariant.

\* What the constraints of the database keep true of its tables.
TablesOK ==
  /\ vms \subseteq Vm \cap spent
  /\ DOMAIN disks \subseteq Disk
  /\ disks \in [DOMAIN disks -> domains \cup {None}]
  /\ DOMAIN atts \subseteq Att \cap spent
  /\ atts \in [DOMAIN atts -> [vm : vms, disk : DOMAIN disks]]
  /\ nics \subseteq vms \X Nic
  /\ domains \subseteq Domain
  /\ loose \subseteq Disk
  /\ AttachedOnce

Fields == {"op", "vm", "src", "disk", "att", "domain", "read", "left", "made",
           "had", "copied", "answer"}

Cloning == {"disks", "copydisk", "copyatt", "copynic"}
Attaching == {"pick", "disk", "check", "attach", "reread"}

\* The copies made so far are of different disks: each was new when made.
Different(q) ==
  /\ \A d \in DOMAIN q.made : q.made[d] \in spent
  /\ \A d, e \in DOMAIN q.made : d # e => q.made[d] # q.made[e]

\* What holds of the locals of a request at its statement p.
Known(p, q) ==
  /\ DOMAIN q = Fields
  /\ q.answer \in Answers \cup {None}
  /\ p # "done" => q.answer = None
  /\ p \in Cloning => q.op = "clone"
  /\ p \in Attaching => q.op \in {"new", "existing"}
  /\ p = "disks" => q.made = Nothing
  /\ p \in {"copydisk", "copyatt"} => q.left \cup DOMAIN q.made = DOMAIN q.read
  /\ p \in {"copydisk", "copyatt", "copynic"} => Different(q)
  /\ p = "copynic" => q.left \subseteq Nic
  /\ p = "copynic" \/ (p = "done" /\ q.op = "clone" /\ q.answer = "200") =>
       DOMAIN q.made = DOMAIN q.read /\ Different(q)

\* What every module that adds requests of its own keeps (VmTemplates does).
StorageInv ==
  /\ TablesOK
  /\ OrphansExplained
  /\ DOMAIN pc = Req /\ DOMAIN rq = Req
  /\ \A r \in Req : Known(pc[r], rq[r])

IInv == StorageInv /\ \A r \in Req : pc[r] \in Points


-----------------------------------------------------------------------------
\* Steps.

\* Ids are only ever added to those used, so nothing a request knows is lost.
LEMMA KnownStays ==
  ASSUME spent \subseteq spent', NEW p, NEW q, Known(p, q)
  PROVE  Known(p, q)'
BY DEF Known, Different

\* A step of one request that keeps the tables in order, explains each disk
\* it leaves alone, and knows where it goes what is to be known there.
LEMMA StepKeeps ==
  ASSUME StorageInv, NEW r \in Req, NEW from, NEW to, NEW k, Onward(r, from, to, k),
         TablesOK', OrphansExplained', spent \subseteq spent', Known(to, k)'
  PROVE  StorageInv'
<1>1. /\ DOMAIN pc' = Req /\ DOMAIN rq' = Req
      /\ pc'[r] = to /\ rq'[r] = k
      /\ \A s \in Req : s # r => pc'[s] = pc[s] /\ rq'[s] = rq[s]
  BY DEF Onward, StorageInv
<1>2. ASSUME NEW s \in Req PROVE Known(pc[s], rq[s])'
  <2>1. CASE s = r
    BY <2>1, <1>1 DEF Known, Different
  <2>2. CASE s # r
    <3>1. PICK p, q : p = pc[s] /\ q = rq[s]
      OBVIOUS
    <3>2. Known(p, q)'
      BY <3>1, KnownStays DEF StorageInv
    <3> QED BY <3>1, <3>2, <2>2, <1>1
  <2> QED BY <2>1, <2>2
<1> QED BY <1>1, <1>2 DEF StorageInv

\* No disk loses its explanation when disks and attachments stay, unless the
\* request that explains it goes on; one that fails still explains it.
LEMMA OrphansStay ==
  ASSUME StorageInv, NEW r \in Req, NEW from, NEW to, NEW k, Onward(r, from, to, k),
         DOMAIN disks' = DOMAIN disks, atts' = atts, loose' = loose,
         \/ from \notin {"attach", "copyatt", "lost", "done"}
         \/ /\ from \notin {"lost", "done"} /\ k.disk = rq[r].disk
            /\ to = "done" /\ k.answer \notin {"200", "201"}
  PROVE  OrphansExplained'
<1>1. /\ pc'[r] = to /\ rq'[r] = k /\ pc[r] = from
      /\ \A s \in Req : s # r => pc'[s] = pc[s] /\ rq'[s] = rq[s]
  BY DEF Onward, StorageInv
<1>2. SUFFICES ASSUME NEW d \in (DOMAIN disks \ loose)', ~Attached(d)'
               PROVE  \E s \in Req :
                        /\ rq'[s].disk = d
                        /\ \/ pc'[s] \in {"attach", "copyatt", "lost"}
                           \/ pc'[s] = "done" /\ rq'[s].answer \notin {"200", "201"}
  BY DEF OrphansExplained, Attached
<1>3. PICK s \in Req :
        /\ rq[s].disk = d
        /\ \/ pc[s] \in {"attach", "copyatt", "lost"}
           \/ pc[s] = "done" /\ rq[s].answer \notin {"200", "201"}
  BY <1>2 DEF StorageInv, OrphansExplained, Attached
<1> QED BY <1>1, <1>3

\* A statement that reads, or writes nothing of the tables of this module.
LEMMA ReadKeeps ==
  ASSUME StorageInv, NEW r \in Req, NEW from, NEW to, NEW k, Onward(r, from, to, k),
         UNCHANGED <<vms, disks, atts, nics, domains, loose>>, spent \subseteq spent',
         from \notin {"attach", "copyatt", "lost", "done"}, Known(to, k)
  PROVE  StorageInv'
<1>1. TablesOK'
  BY DEF StorageInv, TablesOK, AttachedOnce
<1>2. OrphansExplained'
  BY OrphansStay
<1>3. Known(to, k)'
  BY KnownStays
<1> QED BY <1>1, <1>2, <1>3, StepKeeps

\* A request ends with an answer: an error anywhere, a success only where it
\* has no disk left to attach, and a clone's success only after its copies.
LEMMA EndKeeps ==
  ASSUME StorageInv, NEW r \in Req, NEW from, NEW code \in Answers, Outcome(r, from, code),
         UNCHANGED <<tables, loose>>, from \notin {"lost", "done"},
         code \in {"200", "201"} => from \notin {"attach", "copyatt"},
         code = "200" => from = "copynic"
  PROVE  StorageInv'
<1>1. PICK q : q = rq[r]
  OBVIOUS
<1>2. PICK k : k = [q EXCEPT !.answer = code]
  OBVIOUS
<1>3. Onward(r, from, "done", k)
  BY <1>1, <1>2 DEF Outcome
<1>4. Known(from, q)
  BY <1>1, <1>3 DEF StorageInv, Onward
<1>5. /\ DOMAIN k = Fields /\ k.answer = code
      /\ k.op = q.op /\ k.disk = q.disk /\ k.made = q.made /\ k.read = q.read
  BY <1>2, <1>4 DEF Known, Fields
<1>6. Known("done", k)
  BY <1>4, <1>5 DEF Known, Different, Cloning, Attaching
<1>7. TablesOK' /\ Known("done", k)'
  BY <1>6 DEF tables, StorageInv, TablesOK, AttachedOnce, Known, Different
<1>8. OrphansExplained'
  BY <1>1, <1>3, <1>5, OrphansStay DEF tables
<1> QED BY <1>3, <1>7, <1>8, StepKeeps DEF tables


-----------------------------------------------------------------------------
\* Statements that write.

\* A new disk in a storage domain there is, or in none.
LEMMA NewDiskTables ==
  ASSUME StorageInv, NEW d, NEW s \in domains \cup {None}, NewDisk(d, s)
  PROVE  TablesOK' /\ spent \subseteq spent' /\ d \in spent' \ spent
<1>1. /\ DOMAIN disks' = DOMAIN disks \cup {d}
      /\ disks' \in [DOMAIN disks' -> domains' \cup {None}]
  BY DEF NewDisk, Insert, StorageInv, TablesOK
<1>2. atts' \in [DOMAIN atts' -> [vm : vms', disk : DOMAIN disks']]
  BY <1>1 DEF NewDisk, StorageInv, TablesOK
<1> QED BY <1>1, <1>2 DEF NewDisk, StorageInv, TablesOK, AttachedOnce

\* A new attachment of a disk and to a VM that exist, the first of this pair.
LEMMA NewAttTables ==
  ASSUME StorageInv, NEW a, NEW v, NEW d, NewAtt(a, v, d)
  PROVE  TablesOK' /\ spent \subseteq spent' /\ Attached(d)'
           /\ \A x : Attached(x) => Attached(x)'
<1>1. PICK row : row = [vm |-> v, disk |-> d]
  OBVIOUS
<1>2. row \in [vm : vms, disk : DOMAIN disks] /\ row.disk = d
  BY <1>1 DEF NewAtt, Missing
<1>3. /\ DOMAIN atts' = DOMAIN atts \cup {a} /\ a \notin DOMAIN atts
      /\ atts'[a] = row
      /\ \A b \in DOMAIN atts : atts'[b] = atts[b] /\ atts[b] # row
  BY <1>1 DEF NewAtt, Insert, Duplicate, StorageInv, TablesOK
<1>4. atts' = [b \in DOMAIN atts' |-> atts'[b]]
  BY DEF NewAtt, Insert
<1>5. atts' \in [DOMAIN atts' -> [vm : vms', disk : DOMAIN disks']]
  BY <1>2, <1>3, <1>4 DEF NewAtt, StorageInv, TablesOK
<1>6. AttachedOnce'
  BY <1>3 DEF StorageInv, TablesOK, AttachedOnce
<1>7. Attached(d)' /\ \A x : Attached(x) => Attached(x)'
  BY <1>2, <1>3 DEF Attached
<1> QED BY <1>3, <1>5, <1>6, <1>7 DEF NewAtt, StorageInv, TablesOK

\* A request that inserts a disk is at once to attach it.
LEMMA DiskKeeps ==
  ASSUME StorageInv, NEW r \in Req, NEW from \in {"disk", "copydisk"},
         NEW to \in {"attach", "copyatt"}, NEW k, NEW d, NEW s \in domains \cup {None},
         NewDisk(d, s), Onward(r, from, to, k), k.disk = d, Known(to, k)'
  PROVE  StorageInv'
<1>1. /\ pc'[r] = to /\ rq'[r] = k /\ pc[r] = from
      /\ \A x \in Req : x # r => pc'[x] = pc[x] /\ rq'[x] = rq[x]
  BY DEF Onward, StorageInv
<1>2. /\ DOMAIN disks' = DOMAIN disks \cup {d}
      /\ atts' = atts /\ loose' = loose
  BY DEF NewDisk, Insert
<1>3. OrphansExplained'
  <2>1. SUFFICES ASSUME NEW x \in (DOMAIN disks \ loose)', ~Attached(x)'
                 PROVE  \E y \in Req :
                          /\ rq'[y].disk = x
                          /\ \/ pc'[y] \in {"attach", "copyatt", "lost"}
                             \/ pc'[y] = "done" /\ rq'[y].answer \notin {"200", "201"}
    BY DEF OrphansExplained, Attached
  <2>2. CASE x = d
    BY <2>2, <1>1
  <2>3. CASE x # d
    <3>1. PICK y \in Req :
            /\ rq[y].disk = x
            /\ \/ pc[y] \in {"attach", "copyatt", "lost"}
               \/ pc[y] = "done" /\ rq[y].answer \notin {"200", "201"}
      BY <2>1, <2>3, <1>2 DEF StorageInv, OrphansExplained, Attached
    <3> QED BY <3>1, <1>1
  <2> QED BY <2>2, <2>3
<1>4. TablesOK' /\ spent \subseteq spent'
  BY NewDiskTables
<1> QED BY <1>3, <1>4, StepKeeps

\* A request that attached its disk need not explain it any more.
LEMMA AttKeeps ==
  ASSUME StorageInv, NEW r \in Req, NEW from, NEW to, NEW k, NEW a,
         NewAtt(a, rq[r].vm, rq[r].disk), Onward(r, from, to, k), Known(to, k)'
  PROVE  StorageInv'
<1>1. PICK v, d : v = rq[r].vm /\ d = rq[r].disk
  OBVIOUS
<1>2. NewAtt(a, v, d)
  BY <1>1
<1>3. TablesOK' /\ spent \subseteq spent' /\ Attached(d)'
        /\ \A x : Attached(x) => Attached(x)'
  BY <1>2, NewAttTables
<1>4. disks' = disks /\ loose' = loose
  BY DEF NewAtt
<1>5. \A s \in Req : s # r => pc'[s] = pc[s] /\ rq'[s] = rq[s]
  BY DEF Onward, StorageInv
<1>6. OrphansExplained'
  <2>1. SUFFICES ASSUME NEW x \in (DOMAIN disks \ loose)', ~Attached(x)'
                 PROVE  \E y \in Req :
                          /\ rq'[y].disk = x
                          /\ \/ pc'[y] \in {"attach", "copyatt", "lost"}
                             \/ pc'[y] = "done" /\ rq'[y].answer \notin {"200", "201"}
    BY DEF OrphansExplained, Attached
  <2>2. x # d /\ ~Attached(x)
    BY <2>1, <1>3
  <2>3. PICK y \in Req :
          /\ rq[y].disk = x
          /\ \/ pc[y] \in {"attach", "copyatt", "lost"}
             \/ pc[y] = "done" /\ rq[y].answer \notin {"200", "201"}
    BY <2>1, <2>2, <1>4 DEF StorageInv, OrphansExplained
  <2> QED BY <2>2, <2>3, <1>1, <1>5
<1> QED BY <1>3, <1>6, StepKeeps

\* A request that times out keeps the disk it has, as its explanation.
LEMMA TimeOutKeeps ==
  ASSUME StorageInv, NEW r \in Req, TimeOut(r)
  PROVE  StorageInv'
BY EndKeeps DEF TimeOut, InFlight, Answers

-----------------------------------------------------------------------------
\* POST /vms/{id}/diskattachments.

\* A request begins, or is refused at once.
LEMMA BeginKeeps ==
  ASSUME StorageInv, NEW r \in Req, NEW to, NEW k, Begin(r, to, k), Known(to, k)
  PROVE  StorageInv'
BY ReadKeeps DEF Begin, tables

\* A request for a new disk begins.
LEMMA AttachNewKeeps ==
  ASSUME StorageInv, NEW r \in Req, AttachNew(r)
  PROVE  StorageInv'
<1>1. PICK v \in Vm : Begin(r, "pick", [Fresh EXCEPT !.op = "new", !.vm = v])
  BY DEF AttachNew
<1>2. PICK k : k = [Fresh EXCEPT !.op = "new", !.vm = v] /\ Begin(r, "pick", k)
  BY <1>1
<1>3. Known("pick", k)
  BY <1>2 DEF Known, Fresh, Fields, Cloning, Attaching
<1> QED BY <1>2, <1>3, BeginKeeps

\* A request for a disk there is begins, or finds none.
LEMMA AttachExistingKeeps ==
  ASSUME StorageInv, NEW r \in Req, AttachExisting(r)
  PROVE  StorageInv'
<1>1. PICK v \in Vm, d \in Disk \cap spent :
        \/ Begin(r, "check", [Fresh EXCEPT !.op = "existing", !.vm = v, !.disk = d])
        \/ Begin(r, "done", [Fresh EXCEPT !.op = "existing", !.answer = "404"])
  BY DEF AttachExisting
<1>2. CASE Begin(r, "check", [Fresh EXCEPT !.op = "existing", !.vm = v, !.disk = d])
  <2>1. PICK k : /\ k = [Fresh EXCEPT !.op = "existing", !.vm = v, !.disk = d]
                 /\ Begin(r, "check", k)
    BY <1>2
  <2>2. Known("check", k)
    BY <2>1 DEF Known, Fresh, Fields, Cloning, Attaching
  <2> QED BY <2>1, <2>2, BeginKeeps
<1>3. CASE Begin(r, "done", [Fresh EXCEPT !.op = "existing", !.answer = "404"])
  <2>1. PICK k : /\ k = [Fresh EXCEPT !.op = "existing", !.answer = "404"]
                 /\ Begin(r, "done", k)
    BY <1>3
  <2>2. Known("done", k)
    BY <2>1 DEF Known, Fresh, Fields, Cloning, Attaching, Answers
  <2> QED BY <2>1, <2>2, BeginKeeps
<1> QED BY <1>1, <1>2, <1>3

\* The storage domain for a new disk is chosen.
LEMMA PickDomainKeeps ==
  ASSUME StorageInv, NEW r \in Req, PickDomain(r)
  PROVE  StorageInv'
<1>1. PICK q : q = rq[r]
  OBVIOUS
<1>2. CASE Outcome(r, "pick", "500")
  BY <1>2, EndKeeps DEF PickDomain, Answers
<1>3. CASE \E s : Onward(r, "pick", "disk", [q EXCEPT !.domain = s])
  <2>1. PICK k, s : k = [q EXCEPT !.domain = s] /\ Onward(r, "pick", "disk", k)
    BY <1>3
  <2>2. Known("pick", q)
    BY <1>1, <2>1 DEF StorageInv, Onward
  <2>3. Known("disk", k)
    BY <2>1, <2>2 DEF Known, Fields, Cloning, Attaching
  <2> QED BY <2>1, <2>3, ReadKeeps DEF PickDomain, tables
<1> QED BY <1>1, <1>2, <1>3 DEF PickDomain

\* The new disk is inserted, to be attached next.
LEMMA InsertDiskKeeps ==
  ASSUME StorageInv, NEW r \in Req, InsertDisk(r)
  PROVE  StorageInv'
<1>1. PICK q : q = rq[r]
  OBVIOUS
<1>2. CASE Outcome(r, "disk", "400") /\ UNCHANGED <<tables, loose>>
  BY <1>2, EndKeeps DEF Answers
<1>3. CASE \E d \in Disk : /\ q.domain \in domains \cup {None}
                           /\ NewDisk(d, q.domain)
                           /\ Onward(r, "disk", "attach", [q EXCEPT !.disk = d])
  <2>1. PICK d \in Disk :
          /\ q.domain \in domains \cup {None}
          /\ NewDisk(d, q.domain)
          /\ Onward(r, "disk", "attach", [q EXCEPT !.disk = d])
    BY <1>3
  <2>2. PICK k : k = [q EXCEPT !.disk = d] /\ Onward(r, "disk", "attach", k)
    BY <2>1
  <2>3. Known("disk", q)
    BY <1>1, <2>2 DEF StorageInv, Onward
  <2>4. Known("attach", k) /\ k.disk = d
    BY <2>2, <2>3 DEF Known, Fields, Cloning, Attaching
  <2>5. Known("attach", k)'
    BY <2>1, <2>4, NewDiskTables, KnownStays
  <2>6. PICK s : s = q.domain
    OBVIOUS
  <2>7. s \in domains \cup {None} /\ NewDisk(d, s)
    BY <2>1, <2>6
  <2> QED BY <2>2, <2>4, <2>5, <2>7, DiskKeeps
<1> QED BY <1>1, <1>2, <1>3 DEF InsertDisk

\* A disk on the VM already is refused, early.
LEMMA CheckAttachedKeeps ==
  ASSUME StorageInv, NEW r \in Req, CheckAttached(r)
  PROVE  StorageInv'
<1>1. PICK q : q = rq[r]
  OBVIOUS
<1>2. CASE Outcome(r, "check", "409")
  BY <1>2, EndKeeps DEF CheckAttached, Answers
<1>3. CASE Onward(r, "check", "attach", q)
  <2>1. Known("check", q)
    BY <1>1, <1>3 DEF StorageInv, Onward
  <2>2. Known("attach", q)
    BY <2>1 DEF Known, Cloning, Attaching
  <2> QED BY <1>3, <2>2, ReadKeeps DEF CheckAttached, tables
<1> QED BY <1>1, <1>2, <1>3 DEF CheckAttached

\* An attachment that is refused leaves its disk to a request with an error.
LEMMA AttRefusedKeeps ==
  ASSUME StorageInv, NEW r \in Req, NEW from \in {"attach", "copyatt"}, AttRefused(r, from)
  PROVE  StorageInv'
BY EndKeeps DEF AttRefused, Answers

\* The disk is attached, or stays with a request that failed.
LEMMA InsertAttKeeps ==
  ASSUME StorageInv, NEW r \in Req, InsertAtt(r)
  PROVE  StorageInv'
<1>1. PICK q : q = rq[r]
  OBVIOUS
<1>2. CASE AttRefused(r, "attach")
  BY <1>2, AttRefusedKeeps
<1>3. CASE Outcome(r, "attach", "500") /\ UNCHANGED <<tables, loose>>
  BY <1>3, EndKeeps DEF Answers
<1>4. CASE \E a \in Att : /\ NewAtt(a, rq[r].vm, rq[r].disk)
                          /\ Onward(r, "attach", "reread", [q EXCEPT !.att = a])
  <2>1. PICK a \in Att : /\ NewAtt(a, rq[r].vm, rq[r].disk)
                         /\ Onward(r, "attach", "reread", [q EXCEPT !.att = a])
    BY <1>4
  <2>2. PICK k : k = [q EXCEPT !.att = a] /\ Onward(r, "attach", "reread", k)
    BY <2>1
  <2>3. Known("attach", q)
    BY <1>1, <2>2 DEF StorageInv, Onward
  <2>4. Known("reread", k)
    BY <2>2, <2>3 DEF Known, Fields, Cloning, Attaching
  <2>5. spent \subseteq spent'
    BY <2>1 DEF NewAtt
  <2>6. Known("reread", k)'
    BY <2>4, <2>5, KnownStays
  <2> QED BY <2>1, <2>2, <2>6, AttKeeps
<1> QED BY <1>1, <1>2, <1>3, <1>4 DEF InsertAtt

\* The attachment is read back after the disk is on its VM.
LEMMA RereadAttKeeps ==
  ASSUME StorageInv, NEW r \in Req, RereadAtt(r)
  PROVE  StorageInv'
<1>1. \E code \in {"201", "404"} : Outcome(r, "reread", code)
  BY DEF RereadAtt
<1> QED BY <1>1, EndKeeps DEF RereadAtt, Answers


-----------------------------------------------------------------------------
\* POST /vms/{id}/clone.

\* A clone inserts its VM; it has no disk yet.
LEMMA CloneVmKeeps ==
  ASSUME StorageInv, NEW r \in Req, CloneVm(r)
  PROVE  StorageInv'
<1>1. PICK src \in Vm \cap spent, v \in Vm \ spent :
        /\ vms' = vms \cup {v}
        /\ spent' = spent \cup {v}
        /\ Onward(r, "idle", "disks", [Fresh EXCEPT !.op = "clone", !.vm = v, !.src = src,
                                                    !.had = NicsOf(src)])
        /\ UNCHANGED <<disks, atts, nics, domains, loose>>
  BY DEF CloneVm
<1>2. PICK k, h :
        /\ h = NicsOf(src)
        /\ k = [Fresh EXCEPT !.op = "clone", !.vm = v, !.src = src, !.had = h]
        /\ Onward(r, "idle", "disks", k)
  BY <1>1
<1>3. Known("disks", k)
  BY <1>2 DEF Known, Fresh, Fields, Cloning, Attaching
<1>4. Known("disks", k)'
  BY <1>1, <1>3, KnownStays
<1>5. TablesOK'
  BY <1>1 DEF StorageInv, TablesOK, AttachedOnce
<1>6. OrphansExplained'
  BY <1>1, <1>2, OrphansStay
<1> QED BY <1>1, <1>2, <1>4, <1>5, <1>6, StepKeeps

\* The disks to copy are read, and none is copied yet.
LEMMA ReadDisksKeeps ==
  ASSUME StorageInv, NEW r \in Req, ReadDisks(r)
  PROVE  StorageInv'
<1>1. PICK q : q = rq[r]
  OBVIOUS
<1>2. PICK ds : ds = DisksOf(q.src)
  OBVIOUS
<1>3. PICK k, m : /\ m = [d \in ds |-> disks[d]]
                  /\ k = [q EXCEPT !.read = m, !.left = ds]
                  /\ Onward(r, "disks", "copydisk", k)
  BY <1>1, <1>2 DEF ReadDisks
<1>4. Known("disks", q)
  BY <1>1, <1>3 DEF StorageInv, Onward
<1>5. k.left = ds /\ k.read = m /\ DOMAIN m = ds /\ k.made = Nothing /\ DOMAIN k.made = {}
  BY <1>3, <1>4 DEF Known, Fields, Nothing
<1>6. DOMAIN k = Fields /\ k.answer = q.answer /\ k.op = q.op
  BY <1>3, <1>4 DEF Known, Fields
<1>7. Known("copydisk", k)
  BY <1>4, <1>5, <1>6 DEF Known, Different, Cloning, Attaching
<1> QED BY <1>3, <1>7, ReadKeeps DEF ReadDisks, tables

\* Each copy is a disk that never was before.
LEMMA CopyDiskKeeps ==
  ASSUME StorageInv, NEW r \in Req, CopyDisk(r)
  PROVE  StorageInv'
<1>1. PICK q : q = rq[r]
  OBVIOUS
<1>2. CASE Outcome(r, "copydisk", "400") /\ UNCHANGED <<tables, loose>>
  BY <1>2, EndKeeps DEF Answers
<1>3. CASE \E d \in q.left : \E new \in Disk :
             /\ q.read[d] \in domains \cup {None}
             /\ NewDisk(new, q.read[d])
             /\ Onward(r, "copydisk", "copyatt",
                       [q EXCEPT !.left = @ \ {d}, !.disk = new, !.made = Insert(@, d, new)])
  <2>1. PICK d \in q.left, new \in Disk :
          /\ q.read[d] \in domains \cup {None}
          /\ NewDisk(new, q.read[d])
          /\ Onward(r, "copydisk", "copyatt",
                    [q EXCEPT !.left = @ \ {d}, !.disk = new, !.made = Insert(@, d, new)])
    BY <1>3
  <2>2. PICK s : s = q.read[d]
    OBVIOUS
  <2>3. s \in domains \cup {None} /\ NewDisk(new, s)
    BY <2>1, <2>2
  <2>4. Known("copydisk", q)
    BY <1>1, <2>1 DEF StorageInv, Onward
  <2>5. PICK m, l : m = Insert(q.made, d, new) /\ l = q.left \ {d}
    OBVIOUS
  <2>6. PICK k : /\ k = [q EXCEPT !.left = l, !.disk = new, !.made = m]
                 /\ Onward(r, "copydisk", "copyatt", k)
    BY <2>1, <2>5
  <2>7. /\ DOMAIN k = Fields /\ k.left = l /\ k.disk = new /\ k.made = m
        /\ k.read = q.read /\ k.op = q.op /\ k.answer = q.answer
    BY <2>4, <2>6 DEF Known, Fields
  <2>8. /\ DOMAIN m = DOMAIN q.made \cup {d} /\ m[d] = new
        /\ \A x \in DOMAIN q.made : x # d => m[x] = q.made[x]
    BY <2>5 DEF Insert
  <2>9. l \cup DOMAIN m = DOMAIN q.read
    BY <2>1, <2>4, <2>5, <2>8 DEF Known
  <2>10. TablesOK' /\ spent \subseteq spent' /\ new \in spent' \ spent
    BY <2>3, NewDiskTables
  <2>11. Different(k)'
    <3>1. Different(q)
      BY <2>4 DEF Known
    <3> QED BY <3>1, <2>7, <2>8, <2>10 DEF Different
  <2>12. Known("copyatt", k)'
    BY <2>4, <2>7, <2>9, <2>11 DEF Known, Cloning, Attaching
  <2> QED BY <2>3, <2>6, <2>7, <2>12, DiskKeeps
<1> QED BY <1>1, <1>2, <1>3 DEF CopyDisk

\* The copy is attached to the new VM, or stays with a clone that failed.
LEMMA CopyAttKeeps ==
  ASSUME StorageInv, NEW r \in Req, CopyAtt(r)
  PROVE  StorageInv'
<1>1. PICK q : q = rq[r]
  OBVIOUS
<1>2. CASE AttRefused(r, "copyatt")
  BY <1>2, AttRefusedKeeps
<1>3. CASE \E a \in Att : /\ NewAtt(a, rq[r].vm, rq[r].disk)
                          /\ Onward(r, "copyatt", "copydisk", q)
  <2>1. PICK a \in Att : /\ NewAtt(a, rq[r].vm, rq[r].disk)
                         /\ Onward(r, "copyatt", "copydisk", q)
    BY <1>3
  <2>2. Known("copyatt", q)
    BY <1>1, <2>1 DEF StorageInv, Onward
  <2>3. Known("copydisk", q)
    BY <2>2 DEF Known, Cloning, Attaching
  <2>4. spent \subseteq spent'
    BY <2>1 DEF NewAtt
  <2>5. Known("copydisk", q)'
    BY <2>3, <2>4, KnownStays
  <2> QED BY <2>1, <2>5, AttKeeps
<1> QED BY <1>1, <1>2, <1>3 DEF CopyAtt

\* The NICs are read when no disk is left: every disk read has its copy.
LEMMA ReadNicsKeeps ==
  ASSUME StorageInv, NEW r \in Req, ReadNics(r)
  PROVE  StorageInv'
<1>1. PICK q : q = rq[r]
  OBVIOUS
<1>2. PICK k, ns : /\ k = [q EXCEPT !.left = ns] /\ q.left = {} /\ ns \subseteq Nic
                   /\ Onward(r, "copydisk", "copynic", k)
  BY <1>1 DEF ReadNics, NicsOf
<1>3. Known("copydisk", q)
  BY <1>1, <1>2 DEF StorageInv, Onward
<1>4. /\ DOMAIN k = Fields /\ k.made = q.made
      /\ k.read = q.read /\ k.op = q.op /\ k.answer = q.answer /\ k.left = ns
  BY <1>2, <1>3 DEF Known, Fields
<1>5. Known("copynic", k)
  BY <1>2, <1>3, <1>4 DEF Known, Different, Cloning, Attaching
<1> QED BY <1>2, <1>5, ReadKeeps DEF ReadNics, tables

\* A NIC is copied to a VM that exists, or the clone fails.
LEMMA CopyNicKeeps ==
  ASSUME StorageInv, NEW r \in Req, CopyNic(r)
  PROVE  StorageInv'
<1>1. PICK q : q = rq[r]
  OBVIOUS
<1>2. CASE \E code \in {"400", "409"} :
             Outcome(r, "copynic", code) /\ UNCHANGED <<tables, loose>>
  BY <1>2, EndKeeps DEF Answers
<1>3. CASE \E n \in q.left :
             /\ q.vm \in vms /\ nics' = nics \cup {<<q.vm, n>>}
             /\ Onward(r, "copynic", "copynic",
                       [q EXCEPT !.left = @ \ {n}, !.copied = @ \cup {n}])
             /\ UNCHANGED <<vms, disks, atts, domains, spent, loose>>
  <2>1. PICK n \in q.left :
          /\ q.vm \in vms /\ nics' = nics \cup {<<q.vm, n>>}
          /\ Onward(r, "copynic", "copynic",
                    [q EXCEPT !.left = @ \ {n}, !.copied = @ \cup {n}])
          /\ UNCHANGED <<vms, disks, atts, domains, spent, loose>>
    BY <1>3
  <2>2. PICK k, l, c : /\ k = [q EXCEPT !.left = l, !.copied = c]
                       /\ l = q.left \ {n} /\ Onward(r, "copynic", "copynic", k)
    BY <2>1
  <2>3. Known("copynic", q)
    BY <1>1, <2>2 DEF StorageInv, Onward
  <2>4. /\ DOMAIN k = Fields /\ k.made = q.made /\ k.left = l
        /\ k.read = q.read /\ k.op = q.op /\ k.answer = q.answer
    BY <2>2, <2>3 DEF Known, Fields
  <2>5. n \in Nic
    BY <2>3 DEF Known
  <2>6. TablesOK'
    BY <2>1, <2>5 DEF StorageInv, TablesOK, AttachedOnce
  <2>7. OrphansExplained'
    BY <2>1, <2>2, OrphansStay
  <2>8. Known("copynic", k)'
    BY <2>1, <2>2, <2>3, <2>4 DEF Known, Different, Cloning, Attaching
  <2> QED BY <2>1, <2>2, <2>6, <2>7, <2>8, StepKeeps
<1> QED BY <1>1, <1>2, <1>3 DEF CopyNic

\* The clone is answered after the last NIC.
LEMMA CloneDoneKeeps ==
  ASSUME StorageInv, NEW r \in Req, CloneDone(r)
  PROVE  StorageInv'
BY EndKeeps DEF CloneDone, Answers


-----------------------------------------------------------------------------
\* Requests of one statement.

\* Attachments that go leave the others as they are.
LEMMA FewerAtts ==
  ASSUME NEW gone, atts' = Delete(atts, gone)
  PROVE  /\ DOMAIN atts' = DOMAIN atts \ gone
         /\ \A a \in DOMAIN atts' : atts'[a] = atts[a]
         /\ atts' = [a \in DOMAIN atts' |-> atts'[a]]
BY DEF Delete, Restrict

\* A disk that was explained still is when requests stay, and every disk on
\* its own VM stays there or is left on its own.
LEMMA OrphansKept ==
  ASSUME StorageInv, UNCHANGED requests, DOMAIN disks' \subseteq DOMAIN disks,
         loose \subseteq loose', \A d \in DOMAIN disks' \ loose' : Attached(d) => Attached(d)'
  PROVE  OrphansExplained'
<1>1. SUFFICES ASSUME NEW d \in (DOMAIN disks \ loose)', ~Attached(d)'
               PROVE  \E r \in Req :
                        /\ rq'[r].disk = d
                        /\ \/ pc'[r] \in {"attach", "copyatt", "lost"}
                           \/ pc'[r] = "done" /\ rq'[r].answer \notin {"200", "201"}
  BY DEF OrphansExplained, Attached
<1>2. d \in DOMAIN disks \ loose /\ ~Attached(d)
  BY <1>1
<1> QED BY <1>2 DEF StorageInv, OrphansExplained, requests

\* The requests know what they knew when no id goes back.
LEMMA RequestsStay ==
  ASSUME StorageInv, UNCHANGED requests, spent \subseteq spent', TablesOK', OrphansExplained'
  PROVE  StorageInv'
<1>1. ASSUME NEW r \in Req PROVE Known(pc[r], rq[r])'
  <2>1. PICK p, q : p = pc[r] /\ q = rq[r]
    OBVIOUS
  <2>2. Known(p, q)'
    BY <2>1, KnownStays DEF StorageInv
  <2> QED BY <2>1, <2>2 DEF requests
<1> QED BY <1>1 DEF StorageInv, requests

\* A VM goes with its attachments and NICs; its disks are left on their own.
LEMMA RemoveVmKeeps ==
  ASSUME StorageInv, RemoveVm
  PROVE  StorageInv'
<1>1. PICK v \in vms :
        /\ vms' = vms \ {v}
        /\ atts' = Delete(atts, {a \in DOMAIN atts : atts[a].vm = v})
        /\ nics' = {x \in nics : x[1] # v}
        /\ loose' = loose \cup DisksOf(v)
        /\ UNCHANGED <<disks, domains, spent, requests>>
  BY DEF RemoveVm
<1>2. /\ DOMAIN atts' = {a \in DOMAIN atts : atts[a].vm # v}
      /\ \A a \in DOMAIN atts' : atts'[a] = atts[a]
      /\ atts' = [a \in DOMAIN atts' |-> atts'[a]]
  <2>1. PICK gone : /\ gone = {a \in DOMAIN atts : atts[a].vm = v}
                    /\ atts' = Delete(atts, gone)
    BY <1>1
  <2>2. /\ DOMAIN atts' = DOMAIN atts \ gone
        /\ \A a \in DOMAIN atts' : atts'[a] = atts[a]
        /\ atts' = [a \in DOMAIN atts' |-> atts'[a]]
    BY <2>1, FewerAtts
  <2> QED BY <2>1, <2>2
<1>3. \A a \in DOMAIN atts' : atts'[a] \in [vm : vms', disk : DOMAIN disks']
  BY <1>1, <1>2 DEF StorageInv, TablesOK
<1>4. DisksOf(v) \subseteq DOMAIN disks
  BY DEF DisksOf, StorageInv, TablesOK
<1>5. nics' \subseteq vms' \X Nic
  BY <1>1 DEF StorageInv, TablesOK
<1>6. TablesOK'
  <2>1. atts' \in [DOMAIN atts' -> [vm : vms', disk : DOMAIN disks']]
    BY <1>2, <1>3
  <2>2. AttachedOnce'
    BY <1>2 DEF StorageInv, TablesOK, AttachedOnce
  <2> QED BY <1>1, <1>2, <1>4, <1>5, <2>1, <2>2 DEF StorageInv, TablesOK
<1>7. \A d : Attached(d) => Attached(d)' \/ d \in loose'
  BY <1>1, <1>2 DEF Attached, DisksOf
<1>8. OrphansExplained'
  BY <1>1, <1>7, OrphansKept
<1> QED BY <1>1, <1>6, <1>8, RequestsStay

\* A disk added on its own.
LEMMA AddDiskKeeps ==
  ASSUME StorageInv, AddDisk
  PROVE  StorageInv'
<1>1. PICK d \in Disk \ spent, s \in domains \cup {None} :
        /\ disks' = Insert(disks, d, s)
        /\ spent' = spent \cup {d}
        /\ loose' = loose \cup {d}
        /\ UNCHANGED <<vms, atts, nics, domains, requests>>
  BY DEF AddDisk
<1>2. /\ DOMAIN disks' = DOMAIN disks \cup {d}
      /\ disks' \in [DOMAIN disks' -> domains' \cup {None}]
  BY <1>1 DEF Insert, StorageInv, TablesOK
<1>3. atts' \in [DOMAIN atts' -> [vm : vms', disk : DOMAIN disks']]
  BY <1>1, <1>2 DEF StorageInv, TablesOK
<1>4. TablesOK'
  BY <1>1, <1>2, <1>3 DEF StorageInv, TablesOK, AttachedOnce
<1>5. OrphansExplained'
  BY <1>1, <1>2 DEF StorageInv, OrphansExplained, Attached, requests
<1> QED BY <1>1, <1>4, <1>5, RequestsStay

\* A disk goes with its attachments.
LEMMA RemoveDiskKeeps ==
  ASSUME StorageInv, RemoveDisk
  PROVE  StorageInv'
<1>1. PICK d \in DOMAIN disks :
        /\ disks' = Delete(disks, {d})
        /\ atts' = Delete(atts, {a \in DOMAIN atts : atts[a].disk = d})
        /\ UNCHANGED <<vms, nics, domains, spent, loose, requests>>
  BY DEF RemoveDisk
<1>2. /\ DOMAIN atts' = {a \in DOMAIN atts : atts[a].disk # d}
      /\ \A a \in DOMAIN atts' : atts'[a] = atts[a]
      /\ atts' = [a \in DOMAIN atts' |-> atts'[a]]
  <2>1. PICK gone : /\ gone = {a \in DOMAIN atts : atts[a].disk = d}
                    /\ atts' = Delete(atts, gone)
    BY <1>1
  <2>2. /\ DOMAIN atts' = DOMAIN atts \ gone
        /\ \A a \in DOMAIN atts' : atts'[a] = atts[a]
        /\ atts' = [a \in DOMAIN atts' |-> atts'[a]]
    BY <2>1, FewerAtts
  <2> QED BY <2>1, <2>2
<1>3. /\ DOMAIN disks' = DOMAIN disks \ {d}
      /\ disks' \in [DOMAIN disks' -> domains' \cup {None}]
  BY <1>1 DEF Delete, Restrict, StorageInv, TablesOK
<1>4. \A a \in DOMAIN atts' : atts'[a] \in [vm : vms', disk : DOMAIN disks']
  BY <1>1, <1>2, <1>3 DEF StorageInv, TablesOK
<1>5. TablesOK'
  <2>1. atts' \in [DOMAIN atts' -> [vm : vms', disk : DOMAIN disks']]
    BY <1>2, <1>4
  <2>2. AttachedOnce'
    BY <1>2 DEF StorageInv, TablesOK, AttachedOnce
  <2> QED BY <1>1, <1>2, <1>3, <2>1, <2>2 DEF StorageInv, TablesOK
<1>6. \A x \in DOMAIN disks' : Attached(x) => Attached(x)'
  BY <1>2, <1>3 DEF Attached
<1>7. OrphansExplained'
  BY <1>1, <1>3, <1>6, OrphansKept
<1> QED BY <1>1, <1>5, <1>7, RequestsStay

\* A detached disk is left on its own.
LEMMA DetachKeeps ==
  ASSUME StorageInv, Detach
  PROVE  StorageInv'
<1>1. PICK a \in DOMAIN atts :
        /\ atts' = Delete(atts, {a})
        /\ loose' = loose \cup {atts[a].disk}
        /\ UNCHANGED <<vms, disks, nics, domains, spent, requests>>
  BY DEF Detach
<1>2. /\ DOMAIN atts' = DOMAIN atts \ {a}
      /\ \A b \in DOMAIN atts' : atts'[b] = atts[b]
      /\ atts' = [b \in DOMAIN atts' |-> atts'[b]]
  BY <1>1, FewerAtts
<1>3. atts[a].disk \in Disk
  BY DEF StorageInv, TablesOK
<1>4. \A b \in DOMAIN atts' : atts'[b] \in [vm : vms', disk : DOMAIN disks']
  BY <1>1, <1>2 DEF StorageInv, TablesOK
<1>5. TablesOK'
  <2>1. atts' \in [DOMAIN atts' -> [vm : vms', disk : DOMAIN disks']]
    BY <1>2, <1>4
  <2>2. AttachedOnce'
    BY <1>2 DEF StorageInv, TablesOK, AttachedOnce
  <2> QED BY <1>1, <1>2, <1>3, <2>1, <2>2 DEF StorageInv, TablesOK
<1>6. \A x : Attached(x) => Attached(x)' \/ x \in loose'
  BY <1>1, <1>2 DEF Attached
<1>7. OrphansExplained'
  BY <1>1, <1>6, OrphansKept
<1> QED BY <1>1, <1>5, <1>7, RequestsStay

\* A NIC is added to a VM that exists.
LEMMA AddNicKeeps ==
  ASSUME StorageInv, AddNic
  PROVE  StorageInv'
<1>1. TablesOK'
  BY DEF AddNic, StorageInv, TablesOK, AttachedOnce
<1>2. OrphansExplained'
  BY OrphansKept DEF AddNic, Attached
<1> QED BY <1>1, <1>2, RequestsStay DEF AddNic

\* Only what the clones of a VM hope to find of its NICs changes.
LEMMA ForgetKeeps ==
  ASSUME StorageInv, NEW x, Forget(x), nics' \subseteq vms \X Nic,
         UNCHANGED <<vms, disks, atts, domains, spent, loose, pc>>
  PROVE  StorageInv'
<1>1. DOMAIN rq' = Req
  BY DEF Forget
<1>2. ASSUME NEW r \in Req
      PROVE  Known(pc[r], rq[r])' /\ rq'[r].disk = rq[r].disk /\ rq'[r].answer = rq[r].answer
  <2>1. PICK p, q, k, h : /\ p = pc[r] /\ q = rq[r] /\ k = rq'[r]
                          /\ k = q \/ k = [q EXCEPT !.had = h]
    BY DEF Forget
  <2>2. Known(p, q)
    BY <2>1 DEF StorageInv
  <2>3. /\ DOMAIN k = Fields /\ k.op = q.op /\ k.disk = q.disk /\ k.read = q.read
        /\ k.left = q.left /\ k.made = q.made /\ k.answer = q.answer
    BY <2>1, <2>2 DEF Known, Fields
  <2>4. Known(p, k)
    BY <2>2, <2>3 DEF Known, Different
  <2>5. Known(p, k)'
    BY <2>4, KnownStays
  <2> QED BY <2>1, <2>3, <2>5
<1>3. TablesOK'
  BY DEF StorageInv, TablesOK, AttachedOnce
<1>4. OrphansExplained'
  BY <1>2 DEF StorageInv, OrphansExplained, Attached
<1> QED BY <1>1, <1>2, <1>3, <1>4 DEF StorageInv

\* A storage domain goes; its disks stay, in none.
LEMMA RemoveDomainKeeps ==
  ASSUME StorageInv, RemoveDomain
  PROVE  StorageInv'
<1>1. PICK s \in domains :
        /\ domains' = domains \ {s}
        /\ disks' = [d \in DOMAIN disks |-> IF disks[d] = s THEN None ELSE disks[d]]
        /\ UNCHANGED <<vms, atts, nics, spent, loose, requests>>
  BY DEF RemoveDomain
<1>2. DOMAIN disks' = DOMAIN disks /\ disks' \in [DOMAIN disks' -> domains' \cup {None}]
  BY <1>1 DEF StorageInv, TablesOK
<1>3. TablesOK'
  BY <1>1, <1>2 DEF StorageInv, TablesOK, AttachedOnce
<1>4. OrphansExplained'
  BY <1>1, <1>2, OrphansKept DEF Attached
<1> QED BY <1>1, <1>3, <1>4, RequestsStay

\* A request lost keeps the disk it explained.
LEMMA RestartKeeps ==
  ASSUME StorageInv, Restart
  PROVE  StorageInv'
<1>1. /\ pc' = [r \in Req |-> IF InFlight(r) THEN "lost" ELSE pc[r]]
      /\ UNCHANGED <<tables, rq, loose>>
  BY DEF Restart
<1>2. TablesOK'
  BY <1>1 DEF tables, StorageInv, TablesOK, AttachedOnce
<1>3. OrphansExplained'
  BY <1>1 DEF tables, StorageInv, OrphansExplained, Attached, InFlight
<1>4. ASSUME NEW r \in Req PROVE Known(pc[r], rq[r])'
  <2>1. PICK p, q : p = pc[r] /\ q = rq[r] /\ Known(p, q)
    BY DEF StorageInv
  <2>2. CASE p \in {"done", "idle", "lost"}
    BY <1>1, <2>1, <2>2 DEF InFlight, tables, Known, Different
  <2>3. CASE p \notin {"done", "idle", "lost"}
    <3>1. pc'[r] = "lost" /\ rq'[r] = q
      BY <1>1, <2>1, <2>3 DEF InFlight
    <3>2. Known("lost", q)'
      BY <2>1, <2>3, <1>1 DEF Known, Different, Cloning, Attaching
    <3> QED BY <3>1, <3>2
  <2> QED BY <2>2, <2>3
<1> QED BY <1>1, <1>2, <1>3, <1>4 DEF StorageInv

-----------------------------------------------------------------------------
\* Theorems.

\* Every step of this module keeps the invariant, whoever takes it.
LEMMA StorageKept ==
  ASSUME StorageInv, Next
  PROVE  StorageInv'
<1>1. CASE \E r \in Req : AttachNew(r) \/ AttachExisting(r) \/ CloneVm(r) \/ TimeOut(r)
  BY <1>1, AttachNewKeeps, AttachExistingKeeps, CloneVmKeeps, TimeOutKeeps
<1>2. CASE \E r \in Req : Continue(r)
  BY <1>2, PickDomainKeeps, InsertDiskKeeps, CheckAttachedKeeps, InsertAttKeeps,
     RereadAttKeeps, ReadDisksKeeps, CopyDiskKeeps, CopyAttKeeps, ReadNicsKeeps,
     CopyNicKeeps, CloneDoneKeeps DEF Continue
<1>3. CASE RemoveVm \/ AddDisk \/ RemoveDisk \/ Detach \/ AddNic \/ RemoveDomain \/ Restart
  BY <1>3, RemoveVmKeeps, AddDiskKeeps, RemoveDiskKeeps, DetachKeeps, AddNicKeeps,
     RemoveDomainKeeps, RestartKeeps
<1>4. CASE RemoveNic
  <2>1. PICK x \in nics : nics' = nics \ {x} /\ Forget(x)
    BY <1>4 DEF RemoveNic
  <2>2. nics' \subseteq vms \X Nic
    BY <2>1 DEF StorageInv, TablesOK
  <2> QED BY <1>4, <2>1, <2>2, ForgetKeeps DEF RemoveNic
<1>5. CASE RenameNic
  <2>1. PICK x \in nics, n \in Nic :
          nics' = (nics \ {x}) \cup {<<x[1], n>>} /\ Forget(x)
    BY <1>5 DEF RenameNic
  <2>2. nics' \subseteq vms \X Nic
    BY <2>1 DEF StorageInv, TablesOK
  <2> QED BY <1>5, <2>1, <2>2, ForgetKeeps DEF RenameNic
<1> QED BY <1>1, <1>2, <1>3, <1>4, <1>5 DEF Next, Others

\* The seed explains each of its disks.
LEMMA StorageStarts ==
  ASSUME Init
  PROVE  StorageInv
<1>1. TablesOK
  BY SeedAssumption DEF Init, SeedOK, TablesOK, AttachedOnce
<1>2. OrphansExplained
  BY DEF Init, OrphansExplained, Attached
<1>3. ASSUME NEW r \in Req PROVE Known(pc[r], rq[r])
  <2>1. PICK p, q : p = pc[r] /\ q = rq[r] /\ p = "idle" /\ q = Fresh
    BY DEF Init
  <2>2. Known(p, q)
    BY <2>1 DEF Known, Fresh, Fields, Cloning, Attaching
  <2> QED BY <2>1, <2>2
<1> QED BY <1>1, <1>2, <1>3 DEF Init, StorageInv

\* No request is anywhere but before a statement of its handler, or answered,
\* or lost.
LEMMA PointsKept ==
  ASSUME DOMAIN pc = Req, \A r \in Req : pc[r] \in Points, Next
  PROVE  \A r \in Req : pc'[r] \in Points
<1>1. ASSUME NEW r \in Req, NEW to \in Points, pc' = [pc EXCEPT ![r] = to]
      PROVE  \A x \in Req : pc'[x] \in Points
  BY <1>1
<1>2. ASSUME NEW r \in Req, AttachNew(r) \/ AttachExisting(r) \/ CloneVm(r) \/ TimeOut(r)
      PROVE  \E to \in Points : pc' = [pc EXCEPT ![r] = to]
  BY <1>2 DEF AttachNew, AttachExisting, CloneVm, TimeOut, Outcome, Begin, Onward, Points
<1>3. ASSUME NEW r \in Req, Continue(r)
      PROVE  \E to \in Points : pc' = [pc EXCEPT ![r] = to]
  <2>1. CASE PickDomain(r) \/ InsertDisk(r) \/ CheckAttached(r) \/ InsertAtt(r) \/ RereadAtt(r)
    BY <2>1 DEF PickDomain, InsertDisk, CheckAttached, InsertAtt, RereadAtt, AttRefused,
                Outcome, Onward, Points
  <2>2. CASE ReadDisks(r) \/ CopyDisk(r) \/ CopyAtt(r) \/ ReadNics(r) \/ CopyNic(r)
               \/ CloneDone(r)
    BY <2>2 DEF ReadDisks, CopyDisk, CopyAtt, ReadNics, CopyNic, CloneDone, AttRefused,
                Outcome, Onward, Points
  <2> QED BY <1>3, <2>1, <2>2 DEF Continue
<1>4. CASE Others
  BY <1>4 DEF Others, RemoveVm, AddDisk, RemoveDisk, Detach, AddNic, RemoveNic, RenameNic,
              RemoveDomain, Restart, requests, InFlight, Points
<1> QED BY <1>1, <1>2, <1>3, <1>4 DEF Next

\* The invariant holds in every state of every behaviour.
THEOREM Invariance == Spec => []IInv
<1>1. Init => IInv
  BY StorageStarts DEF IInv, Init, Points
<1>2. IInv /\ [Next]_vars => IInv'
  <2>1. ASSUME IInv, Next PROVE IInv'
    BY <2>1, StorageKept, PointsKept DEF IInv, StorageInv
  <2>2. ASSUME IInv, UNCHANGED vars PROVE IInv'
    BY <2>2 DEF vars, tables, IInv, StorageInv, TablesOK, AttachedOnce, OrphansExplained,
                Attached, Known, Different
  <2> QED BY <2>1, <2>2
<1> QED BY <1>1, <1>2, PTL DEF Spec

\* Every variable has its type.
THEOREM TypesHold == Spec => []TypeOK
<1>1. IInv => TypeOK
  BY DEF IInv, StorageInv, TablesOK, Known, TypeOK
<1> QED BY <1>1, Invariance, PTL

\* Whatever POSTs and clones meet between their check and their INSERT, no
\* VM has a disk twice.
THEOREM AttachedAtMostOnce == Spec => []AttachedOnce
<1>1. IInv => AttachedOnce
  BY DEF IInv, StorageInv, TablesOK
<1> QED BY <1>1, Invariance, PTL

\* Attachments and NICs are of VMs and disks that exist.
LEMMA TablesHaveNoGhosts == StorageInv => NoGhosts
BY DEF StorageInv, TablesOK, NoGhosts, Missing

\* However late a handler or a clone writes, no attachment and no NIC is of a
\* VM or a disk that is gone.
THEOREM GhostsNeverAppear == Spec => []NoGhosts
<1>1. IInv => NoGhosts
  BY TablesHaveNoGhosts DEF IInv
<1> QED BY <1>1, Invariance, PTL

\* A disk that is on no VM was left so by an operator, or belongs to a request
\* that is about to attach it, was lost, or was answered with an error.
THEOREM OrphansHaveAReason == Spec => []OrphansExplained
<1>1. IInv => OrphansExplained
  BY DEF IInv, StorageInv
<1> QED BY <1>1, Invariance, PTL

\* A clone answered 200 has one disk of its own for each disk it read.
THEOREM ClonesCopyTheirDisks == Spec => []CloneCopiesDisks
<1>1. ASSUME IInv, NEW r \in Req, Cloned(r)
      PROVE  /\ DOMAIN rq[r].made = DOMAIN rq[r].read
             /\ \A d, e \in DOMAIN rq[r].made : d # e => rq[r].made[d] # rq[r].made[e]
  <2>1. Known(pc[r], rq[r])
    BY <1>1 DEF IInv, StorageInv
  <2> QED BY <1>1, <2>1, NoneAssumption DEF Cloned, Known, Different, Answers
<1>2. IInv => CloneCopiesDisks
  BY <1>1 DEF CloneCopiesDisks
<1> QED BY <1>2, Invariance, PTL

=============================================================================
