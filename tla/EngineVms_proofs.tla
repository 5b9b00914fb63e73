-------------------------- MODULE EngineVms_proofs --------------------------
(***************************************************************************)
(* Proofs, for every set of ids, names and requests, of what EngineVms     *)
(* states.                                                                 *)
(***************************************************************************)
EXTENDS EngineVms, TLAPS

-----------------------------------------------------------------------------
\* Types.

\* The initial state is well typed: the seed is.
LEMMA InitTypeOK == Init => TypeOK
BY SeedAssumption DEF Init, TypeOK, SeedOK, Points, Locals, Fresh, Closing

\* The locals a handler keeps have their types when what it read has.
LEMMA LocalsType ==
  ASSUME NEW op \in Ops \cup {None}, NEW v \in Vm \cup {None}, NEW n \in Name \cup {None},
         NEW a \in DOMAIN Power \cup DOMAIN HostPower \cup {None},
         NEW c \in Cluster \cup {None}, NEW h \in Host \cup {None},
         NEW code \in Answers \cup {None}
  PROVE  Held(op, v, n, a, c, h) \in Locals /\ Closing(op, v, code) \in Locals
BY DEF Held, Closing, Locals

\* What a request keeps when it ends has the type of its locals.
LEMMA TailType ==
  ASSUME TypeOK, NEW r \in Req, NEW a \in Answers \cup {None}
  PROVE  Tail(r, a) \in Locals
<1>1. rq[r].op \in Ops \cup {None} /\ rq[r].vm \in Vm \cup {None}
  BY DEF TypeOK, Locals
<1>2. QED
  BY <1>1 DEF Tail, Closing, Locals

\* What a step of a handler does to pc and rq keeps their types.
LEMMA ProceedType ==
  ASSUME TypeOK, NEW r \in Req, NEW from, NEW to \in Points, NEW l \in Locals,
         Proceed(r, from, to, l)
  PROVE  pc' \in [Req -> Points] /\ rq' \in [Req -> Locals]
BY DEF Proceed, TypeOK

\* A handler that goes on to a statement with locals of their type.
LEMMA OnwardType ==
  ASSUME TypeOK, NEW r \in Req, NEW from, NEW to \in Points, NEW l \in Locals,
         Onward(r, from, to, l)
  PROVE  TypeOK'
BY ProceedType DEF Onward, TypeOK, tables

\* A handler that answers.
LEMMA OutcomeType ==
  ASSUME TypeOK, NEW r \in Req, NEW from, NEW c \in Answers,
         Outcome(r, from, c)
  PROVE  TypeOK'
BY ProceedType, TailType DEF Outcome, Answer, TypeOK, tables, Points

\* Reading the row of a VM: on to the next statement, or 404.
LEMMA ReadType ==
  ASSUME TypeOK, NEW r \in Req, NEW op \in Ops, NEW v \in Vm, NEW next \in Points,
         NEW l, v \in DOMAIN vms => l \in Locals, ReadVm(r, op, v, next, l)
  PROVE  TypeOK'
<1>1. Closing(op, v, "404") \in Locals
  BY LocalsType DEF Answers
<1>2. QED
  BY <1>1, OnwardType DEF ReadVm, Points

\* Steps that begin a request.
LEMMA BeginType ==
  ASSUME TypeOK, NEW r \in Req, Begin(r)
  PROVE  TypeOK'
<1> USE DEF Ops, Points
<1>1. CASE CreateResolve(r)
  <2>1. ASSUME NEW n \in Name, NEW c \in clusters
        PROVE  Held("create", None, n, None, c, None) \in Locals
    BY LocalsType DEF TypeOK
  <2>2. Closing("create", None, "400") \in Locals
    BY LocalsType DEF Answers
  <2>3. QED
    BY <1>1, <2>1, <2>2, OnwardType DEF CreateResolve
<1>2. CASE UpdateRead(r)
  <2>1. ASSUME NEW v \in Vm, NEW n \in Name
        PROVE  Held("update", v, n, None, None, None) \in Locals
    BY LocalsType
  <2>2. QED
    BY <1>2, <2>1, ReadType DEF UpdateRead
<1>3. CASE RemoveRead(r)
  BY <1>3, LocalsType, ReadType DEF RemoveRead
<1>4. CASE NoopRead(r)
  BY <1>4, LocalsType, ReadType DEF NoopRead, Answers
<1>5. CASE CloneRead(r)
  <2>1. ASSUME NEW v \in DOMAIN vms, NEW n \in Name
        PROVE  Held("clone", v, n, None, vms[v].cluster, None) \in Locals
    <3>1. v \in Vm /\ vms[v].cluster \in Cluster
      BY DEF TypeOK, VmRow
    <3>2. QED
      BY <3>1, LocalsType
  <2>2. QED
    BY <1>5, <2>1, ReadType DEF CloneRead
<1>6. CASE ActionRead(r)
  <2>1. ASSUME NEW v \in DOMAIN vms, NEW a \in DOMAIN Power
        PROVE  Held("action", v, None, a, vms[v].cluster, vms[v].host) \in Locals
    <3>1. v \in Vm /\ vms[v].cluster \in Cluster /\ vms[v].host \in Host \cup {None}
      BY DEF TypeOK, VmRow
    <3>2. QED
      BY <3>1, LocalsType
  <2>2. QED
    BY <1>6, <2>1, ReadType DEF ActionRead
<1>7. CASE HostActionRead(r)
  <2>1. ASSUME NEW h \in Host, NEW a \in DOMAIN HostPower
        PROVE  Held("host", None, None, a, None, h) \in Locals
    BY LocalsType
  <2>2. Closing("host", None, "404") \in Locals
    BY LocalsType DEF Answers
  <2>3. QED
    BY <1>7, <2>1, <2>2, OnwardType DEF HostActionRead
<1>8. QED
  BY <1>1, <1>2, <1>3, <1>4, <1>5, <1>6, <1>7 DEF Begin

\* Steps that take a request further.  LocalsKnown says that the statements
\* find the locals they use.
LEMMA ContinueType ==
  ASSUME TypeOK, NEW r \in Req, LocalsKnown(r), Continue(r)
  PROVE  TypeOK'
<1> USE DEF Points, Answers
<1>1. CASE InsertRefused(r)
  BY <1>1, OutcomeType DEF InsertRefused
<1>2. CASE InsertVm(r)
  <2>1. /\ pc[r] = "insert" /\ rq[r].op \in Ops
        /\ rq[r].name \in Name /\ rq[r].cluster \in Cluster
    BY <1>2 DEF InsertVm, LocalsKnown, Ops
  <2>2. ASSUME NEW v \in Vm PROVE Closing(rq[r].op, v, None) \in Locals
    BY <2>1, LocalsType
  <2>3. PICK v \in Vm \ spent :
          /\ vms' = Insert(vms, v, [cluster |-> rq[r].cluster, name |-> rq[r].name,
                                    status |-> DefaultStatus, host |-> None])
          /\ spent' = spent \cup {v}
          /\ Proceed(r, "insert", IF rq[r].op = "clone" THEN "copy" ELSE "reread",
                     Closing(rq[r].op, v, None))
    BY <1>2 DEF InsertVm
  <2>4. pc' \in [Req -> Points] /\ rq' \in [Req -> Locals]
    BY <2>2, <2>3, ProceedType
  <2>5. DOMAIN vms' \subseteq Vm /\ vms' \in [DOMAIN vms' -> VmRow]
    BY <2>1, <2>3 DEF TypeOK, Insert, VmRow, Statuses
  <2>6. QED
    BY <1>2, <2>3, <2>4, <2>5 DEF InsertVm, TypeOK
<1>3. CASE CreateReread(r)
  BY <1>3, OnwardType, TailType DEF CreateReread
<1>4. CASE UpdateWrite(r)
  <2>1. CASE Onward(r, "write", "reread", Tail(r, None)) \/ Outcome(r, "write", "409")
    BY <2>1, OnwardType, OutcomeType, TailType
  <2>2. CASE /\ vms' = [vms EXCEPT ![rq[r].vm].name = rq[r].name]
             /\ Proceed(r, "write", "reread", Tail(r, None))
             /\ UNCHANGED <<hosts, clusters, spent, options, jobs, steps>>
    <3>1. rq[r].name \in Name
      BY <1>4 DEF UpdateWrite, LocalsKnown
    <3>2. pc' \in [Req -> Points] /\ rq' \in [Req -> Locals]
      BY <2>2, TailType, ProceedType
    <3>3. DOMAIN vms' \subseteq Vm /\ vms' \in [DOMAIN vms' -> VmRow]
      BY <2>2, <3>1 DEF TypeOK, VmRow
    <3>4. QED
      BY <2>2, <3>2, <3>3 DEF TypeOK
  <2>3. QED
    BY <1>4, <2>1, <2>2 DEF UpdateWrite
<1>5. CASE UpdateReread(r)
  BY <1>5, OutcomeType DEF UpdateReread
<1>6. CASE RemoveDelete(r)
  <2>1. pc' \in [Req -> Points] /\ rq' \in [Req -> Locals]
    BY <1>6, TailType, ProceedType DEF RemoveDelete
  <2>2. QED
    BY <1>6, <2>1 DEF RemoveDelete, TypeOK, Delete, Restrict
<1>7. CASE CloneCheck(r)
  BY <1>7, OnwardType, OutcomeType DEF CloneCheck, TypeOK
<1>8. CASE CloneCopy(r)
  BY <1>8, OnwardType, OutcomeType, TailType DEF CloneCopy
<1>9. CASE ActionPrepare(r)
  <2>1. ASSUME NEW h \in Host \cup {None} PROVE [rq[r] EXCEPT !.host = h] \in Locals
    BY DEF TypeOK, Locals
  <2>2. rq[r].host \in Host \cup {None} /\ UpHosts(rq[r].cluster) \subseteq Host
    BY DEF TypeOK, Locals, UpHosts
  <2>3. CASE ~options
    BY <1>9, <2>3, OutcomeType DEF ActionPrepare
  <2>4. CASE options
    <3>1. PICK h \in Host \cup {None} :
            Onward(r, "prepare", "write", [rq[r] EXCEPT !.host = h])
      BY <1>9, <2>2, <2>4, Zenon DEF ActionPrepare
    <3>2. QED
      BY <3>1, <2>1, OnwardType
  <2>5. QED
    BY <2>3, <2>4
<1>10. CASE ActionWrite(r)
  <2> DEFINE h == IF rq[r].act \in Release THEN None ELSE rq[r].host
  <2>1. CASE \/ Onward(r, "write", "job", Tail(r, "200"))
             \/ Outcome(r, "write", "400")
    BY <2>1, OnwardType, OutcomeType, TailType
  <2>2. CASE /\ pc[r] = "write" /\ rq[r].op = "action"
             /\ vms' = [vms EXCEPT ![rq[r].vm] =
                          [cluster |-> @.cluster, name |-> @.name,
                           status |-> Power[rq[r].act], host |-> h]]
             /\ Proceed(r, "write", "job", Tail(r, "200"))
             /\ UNCHANGED <<hosts, clusters, spent, options, jobs, steps>>
    <3>1. h \in Host \cup {None} /\ Power[rq[r].act] \in Statuses
      <4>1. rq[r].act \in DOMAIN Power /\ rq[r].host \in Host \cup {None}
        BY <2>2 DEF TypeOK, Locals, LocalsKnown
      <4>2. QED
        BY <4>1 DEF Statuses
    <3>2. pc' \in [Req -> Points] /\ rq' \in [Req -> Locals]
      BY <2>2, TailType, ProceedType
    <3>3. DOMAIN vms' \subseteq Vm /\ vms' \in [DOMAIN vms' -> VmRow]
      BY <2>2, <3>1 DEF TypeOK, VmRow
    <3>4. QED
      BY <2>2, <3>2, <3>3 DEF TypeOK
  <2>3. QED
    BY <1>10, <2>1, <2>2 DEF ActionWrite
<1>11. CASE HostActionWrite(r)
  <2>1. CASE ~options
    BY <1>11, <2>1, OutcomeType DEF HostActionWrite
  <2>2. CASE options
    <3>1. HostPower[rq[r].act] \in HostStatuses
      BY <1>11, <2>2 DEF HostActionWrite, Proceed, LocalsKnown, HostStatuses
    <3>2. pc' \in [Req -> Points] /\ rq' \in [Req -> Locals]
      BY <1>11, <2>2, TailType, ProceedType DEF HostActionWrite
    <3>3. DOMAIN hosts' \subseteq Host /\ hosts' \in [DOMAIN hosts' -> HostRow]
      BY <1>11, <2>2, <3>1 DEF HostActionWrite, TypeOK, HostRow
    <3>4. QED
      BY <1>11, <2>2, <3>2, <3>3 DEF HostActionWrite, TypeOK
  <2>3. QED
    BY <2>1, <2>2
<1>12. CASE JobInsert(r)
  <2>1. CASE ~options
    BY <1>12, <2>1, OutcomeType DEF JobInsert
  <2>2. CASE options
    <3>1. pc' \in [Req -> Points] /\ rq' \in [Req -> Locals]
      BY <1>12, <2>2, ProceedType DEF JobInsert, TypeOK
    <3>2. QED
      BY <1>12, <2>2, <3>1 DEF JobInsert, TypeOK, tables
  <2>3. QED
    BY <2>1, <2>2
<1>13. CASE StepInsert(r)
  <2>1. rq[r].answer \in Answers \cup {None}
    BY DEF TypeOK, Locals
  <2>2. PICK a \in Answers \cup {None} : Proceed(r, "step", "done", Tail(r, a))
    BY <1>13, <2>1 DEF StepInsert, Answer
  <2>3. pc' \in [Req -> Points] /\ rq' \in [Req -> Locals]
    BY <2>2, TailType, ProceedType
  <2>4. QED
    BY <1>13, <2>3 DEF StepInsert, TypeOK, tables
<1>14. QED
  BY <1>1, <1>2, <1>3, <1>4, <1>5, <1>6, <1>7, <1>8, <1>9, <1>10, <1>11, <1>12, <1>13
     DEF Continue

\* A time-out is an answer.
LEMMA TimeOutType ==
  ASSUME TypeOK, NEW r \in Req, TimeOut(r)
  PROVE  TypeOK'
BY OutcomeType DEF TimeOut, Answers

\* What hosts, clusters, options and restarts do.
LEMMA OthersType ==
  ASSUME TypeOK, Others
  PROVE  TypeOK'
<1>1. CASE AddHost
  BY <1>1 DEF AddHost, TypeOK, Insert, HostRow, HostStatuses, requests
<1>2. CASE RemoveHost
  BY <1>2 DEF RemoveHost, TypeOK, Delete, Restrict, SetNull, VmRow, requests
<1>3. CASE AddCluster
  BY <1>3 DEF AddCluster, TypeOK, requests
<1>4. CASE RemoveClusters
  BY <1>4 DEF RemoveClusters, TypeOK, Delete, Restrict, SetNull, VmRow, requests
<1>5. CASE RemoveOption
  BY <1>5 DEF RemoveOption, TypeOK, tables
<1>6. CASE Restart
  <2>1. \A r \in Req : Tail(r, None) \in Locals
    BY TailType
  <2>2. rq' \in [Req -> Locals] /\ pc' \in [Req -> Points]
    BY <1>6, <2>1 DEF Restart, TypeOK, Points
  <2>3. QED
    BY <1>6, <2>2 DEF Restart, TypeOK, tables
<1>7. QED
  BY <1>1, <1>2, <1>3, <1>4, <1>5, <1>6 DEF Others

-----------------------------------------------------------------------------
\* The rest of the inductive invariant: what relates the tables, and what
\* relates the requests to them.

\* The seed satisfies it.
LEMMA InitInv == Init => IInv
<1>1. Init => TablesInv
  BY SeedAssumption DEF Init, SeedOK, TablesInv, LiveIsSpent, HostsHaveClusters,
                        PlacedInCluster, UniqueNames, SeededOn
<1>2. ASSUME Init, NEW r \in Req PROVE RequestInv(r)
  BY <1>2 DEF Init, RequestInv, StaleReadAgrees, TargetKnown, LocalsKnown, JobFollows,
              Fresh, Closing
<1>3. QED
  BY <1>1, <1>2, InitTypeOK DEF IInv

\* A request begins with a read.
LEMMA BeginReads ==
  ASSUME NEW r \in Req, Begin(r)
  PROVE  UNCHANGED <<tables, options, jobs, steps>>
BY DEF Begin, CreateResolve, ReadVm, UpdateRead, RemoveRead, NoopRead, CloneRead,
       ActionRead, HostActionRead, Onward

\* Five statements of the handlers write a table of the inventory.
LEMMA ContinueReads ==
  ASSUME NEW r \in Req, Continue(r), ~InsertVm(r), ~UpdateWrite(r), ~RemoveDelete(r),
         ~ActionWrite(r), ~HostActionWrite(r)
  PROVE  UNCHANGED tables
BY DEF Continue, InsertRefused, CreateReread, UpdateReread, CloneCheck, CloneCopy,
       ActionPrepare, JobInsert, StepInsert, Onward, Outcome

\* A time-out writes nothing.
LEMMA TimeOutReads ==
  ASSUME NEW r \in Req, TimeOut(r)
  PROVE  UNCHANGED <<tables, options, jobs, steps>>
BY DEF TimeOut, Outcome

\* ON DELETE SET NULL changes nothing but the host, and that only to NULL.
LEMMA SetNullFacts ==
  ASSUME NEW S, NEW table \in [S -> VmRow], NEW gone
  PROVE  /\ DOMAIN SetNull(table, gone) = S
         /\ \A v \in S : /\ SetNull(table, gone)[v].cluster = table[v].cluster
                        /\ SetNull(table, gone)[v].name = table[v].name
                        /\ SetNull(table, gone)[v].status = table[v].status
                        /\ SetNull(table, gone)[v].host
                             = IF table[v].host \in gone THEN None ELSE table[v].host
BY DEF SetNull, VmRow

\* A cluster takes its hosts and VMs along, and whoever is left on a host that
\* went, a VM seeded outside its cluster, loses the placement.
LEMMA RemoveClustersTables ==
  ASSUME TypeOK, LiveIsSpent, HostsHaveClusters, PlacedInCluster, UniqueNames, RemoveClusters
  PROVE  TablesInv'
<1>1. PICK cs \in SUBSET clusters :
        /\ clusters' = clusters \ cs
        /\ hosts' = Delete(hosts, {h \in DOMAIN hosts : hosts[h].cluster \in cs})
        /\ vms' = SetNull(Delete(vms, {v \in DOMAIN vms : vms[v].cluster \in cs}),
                          {h \in DOMAIN hosts : hosts[h].cluster \in cs})
        /\ spent' = spent
  BY DEF RemoveClusters
<1> DEFINE deadHosts == {h \in DOMAIN hosts : hosts[h].cluster \in cs}
           deadVms   == {v \in DOMAIN vms : vms[v].cluster \in cs}
           left      == Delete(vms, deadVms)
<1>a. /\ \A h \in DOMAIN hosts : h \in deadHosts <=> hosts[h].cluster \in cs
      /\ \A v \in DOMAIN vms : v \in deadVms <=> vms[v].cluster \in cs
  OBVIOUS
<1>b. hosts' = Delete(hosts, deadHosts) /\ vms' = SetNull(left, deadHosts)
  BY <1>1
<1> HIDE DEF deadHosts, deadVms
<1>2. \A h \in DOMAIN hosts' : /\ h \in DOMAIN hosts /\ hosts[h].cluster \notin cs
                             /\ hosts'[h] = hosts[h]
  BY <1>a, <1>b DEF Delete, Restrict
<1>3. \A h \in DOMAIN hosts : hosts[h].cluster \notin cs =>
        h \in DOMAIN hosts' /\ hosts'[h] = hosts[h]
  BY <1>a, <1>b DEF Delete, Restrict
<1>4. \A v \in DOMAIN left : v \in DOMAIN vms /\ vms[v].cluster \notin cs /\ left[v] = vms[v]
  BY <1>a DEF Delete, Restrict
<1>5. left \in [DOMAIN left -> VmRow]
  <2>1. left = [v \in DOMAIN left |-> left[v]]
    BY DEF Delete, Restrict
  <2>2. \A v \in DOMAIN left : left[v] \in VmRow
    BY <1>4 DEF TypeOK
  <2> HIDE DEF left
  <2>3. QED
    BY <2>1, <2>2
<1>6. \A v \in DOMAIN vms' : /\ v \in DOMAIN vms /\ vms[v].cluster \notin cs
                           /\ vms'[v].cluster = vms[v].cluster
                           /\ vms'[v].name = vms[v].name
                           /\ vms'[v].host \in {None, vms[v].host}
  <2> HIDE DEF left
  <2>1. QED
    BY <1>4, <1>5, <1>b, SetNullFacts
<1>c. \A v \in DOMAIN vms' : vms'[v].host # None => vms[v].host \notin deadHosts
  <2> HIDE DEF left
  <2>1. QED
    BY <1>4, <1>5, <1>b, SetNullFacts
<1> HIDE DEF left
<1>7. LiveIsSpent' /\ HostsHaveClusters'
  BY <1>1, <1>2, <1>6 DEF LiveIsSpent, HostsHaveClusters
<1>8. PlacedInCluster'
  <2>1. ASSUME NEW v \in DOMAIN vms', vms'[v].host # None
        PROVE  /\ vms'[v].host \in DOMAIN hosts'
               /\ \/ hosts'[vms'[v].host].cluster = vms'[v].cluster
                  \/ SeededOn(v, vms'[v].host)
    <3>1. vms'[v].host = vms[v].host /\ vms[v].host \in DOMAIN hosts
          /\ hosts[vms[v].host].cluster \notin cs
      BY <2>1, <1>6, <1>a, <1>c DEF PlacedInCluster
    <3>2. vms[v].host \in DOMAIN hosts' /\ hosts'[vms[v].host] = hosts[vms[v].host]
      BY <1>3, <3>1
    <3>3. QED
      BY <2>1, <1>6, <3>1, <3>2 DEF PlacedInCluster
  <2>2. QED
    BY <1>1, <1>6, <2>1 DEF PlacedInCluster, SeededOn
<1>9. UniqueNames'
  BY <1>6 DEF UniqueNames
<1>10. QED
  BY <1>7, <1>8, <1>9 DEF TablesInv

\* An action on a host changes its status, which no VM refers to.
LEMMA HostActionTables ==
  ASSUME TypeOK, TablesInv, NEW r \in Req, HostActionWrite(r), ~UNCHANGED tables
  PROVE  TablesInv'
<1>1. /\ DOMAIN hosts' = DOMAIN hosts
      /\ \A h \in DOMAIN hosts : hosts'[h].cluster = hosts[h].cluster
      /\ UNCHANGED <<vms, clusters, spent>>
  BY DEF HostActionWrite, Outcome, tables, TypeOK, HostRow
<1>2. QED
  BY <1>1 DEF TablesInv, LiveIsSpent, HostsHaveClusters, PlacedInCluster, UniqueNames

\* The tables after each statement that writes one.
LEMMA TablesStep ==
  ASSUME IInv, Next
  PROVE  TablesInv'
<1> USE DEF IInv, TypeOK, VmRow, HostRow, TablesInv, LiveIsSpent, HostsHaveClusters,
            PlacedInCluster, UniqueNames
<1>1. CASE UNCHANGED tables
  BY <1>1 DEF tables
<1>2. ASSUME NEW r \in Req, InsertVm(r) PROVE TablesInv'
  BY <1>2, NoneAssumption DEF InsertVm, Insert, NameTaken
<1>3. ASSUME NEW r \in Req, UpdateWrite(r), ~UNCHANGED tables PROVE TablesInv'
  BY <1>3 DEF UpdateWrite, NameTaken, Onward, Outcome, tables
<1>4. ASSUME NEW r \in Req, RemoveDelete(r) PROVE TablesInv'
  BY <1>4 DEF RemoveDelete, Delete, Restrict
<1>5. ASSUME NEW r \in Req, ActionWrite(r), ~UNCHANGED tables PROVE TablesInv'
  <2> DEFINE v == rq[r].vm
             h == IF rq[r].act \in Release THEN None ELSE rq[r].host
  <2>1. /\ pc[r] = "write" /\ rq[r].op = "action"
        /\ v \in DOMAIN vms
        /\ h = None \/ h \in DOMAIN hosts
        /\ vms' = [vms EXCEPT ![v] = [cluster |-> @.cluster, name |-> @.name,
                                     status |-> Power[rq[r].act], host |-> h]]
        /\ UNCHANGED <<hosts, clusters, spent>>
    BY <1>5 DEF ActionWrite, Onward, Outcome, tables
  <2>2. h # None => hosts[h].cluster = vms[v].cluster \/ SeededOn(v, h)
    BY <2>1 DEF RequestInv, StaleReadAgrees
  <2>3. /\ DOMAIN vms' = DOMAIN vms
        /\ \A w \in DOMAIN vms : /\ vms'[w].cluster = vms[w].cluster
                                /\ vms'[w].name = vms[w].name
        /\ vms'[v].host = h
        /\ \A w \in DOMAIN vms \ {v} : vms'[w].host = vms[w].host
    BY <2>1
  <2> HIDE DEF h, v
  <2>4. QED
    BY <2>1, <2>2, <2>3
<1>6. ASSUME NEW r \in Req, HostActionWrite(r), ~UNCHANGED tables PROVE TablesInv'
  BY <1>6, HostActionTables
<1>7. CASE AddHost
  BY <1>7 DEF AddHost, Insert
<1>8. CASE RemoveHost
  BY <1>8 DEF RemoveHost, Delete, Restrict, SetNull
<1>9. CASE AddCluster
  BY <1>9 DEF AddCluster
<1>10. CASE RemoveClusters
  BY <1>10, RemoveClustersTables
<1>11. ASSUME NEW r \in Req, Begin(r) PROVE TablesInv'
  BY <1>1, <1>11, BeginReads
<1>12. ASSUME NEW r \in Req, Continue(r) PROVE TablesInv'
  BY <1>1, <1>2, <1>3, <1>4, <1>5, <1>6, <1>12, ContinueReads
<1>13. ASSUME NEW r \in Req, TimeOut(r) PROVE TablesInv'
  BY <1>1, <1>13, TimeOutReads
<1>14. CASE RemoveOption \/ Restart \/ Quiet
  BY <1>1, <1>14 DEF RemoveOption, Restart, Quiet, vars
<1>15. QED
  BY <1>7, <1>8, <1>9, <1>10, <1>11, <1>12, <1>13, <1>14 DEF Next, Others

\* A request that moves on touches only its own pc and locals.
LEMMA OthersKeep ==
  ASSUME TypeOK, NEW r \in Req, NEW from, NEW to, NEW l, Proceed(r, from, to, l)
  PROVE  /\ pc[r] = from /\ pc'[r] = to /\ rq'[r] = l
         /\ \A q \in Req \ {r} : pc'[q] = pc[q] /\ rq'[q] = rq[q]
BY DEF Proceed, TypeOK

\* What is true of a request stays true while others move on: rows keep
\* their cluster and used ids stay used, so what it has read stays good.
LEMMA RequestsIdle ==
  ASSUME IInv, TypeOK', NEW q \in Req, pc'[q] = pc[q], rq'[q] = rq[q],
         q \in jobs' <=> q \in jobs, q \in steps' <=> q \in steps,
         spent \subseteq spent',
         \A v \in spent \cap DOMAIN vms' : v \in DOMAIN vms /\ vms'[v].cluster = vms[v].cluster,
         \A h \in spent \cap DOMAIN hosts' : h \in DOMAIN hosts /\ hosts'[h].cluster = hosts[h].cluster
  PROVE  RequestInv(q)'
<1>1. RequestInv(q)
  BY DEF IInv
<1>2. StaleReadAgrees(q)'
  BY <1>1 DEF RequestInv, StaleReadAgrees
<1>3. TargetKnown(q)'
  BY <1>1 DEF RequestInv, TargetKnown
<1>4. LocalsKnown(q)' /\ JobFollows(q)'
  BY <1>1 DEF RequestInv, LocalsKnown, JobFollows
<1>5. QED
  BY <1>2, <1>3, <1>4 DEF RequestInv

\* Nothing comes back: an id once used and then gone stays gone, and a row
\* keeps its cluster as long as it lives.
LEMMA RowsKept ==
  ASSUME IInv, Next
  PROVE  /\ spent \subseteq spent'
         /\ \A v \in spent \cap DOMAIN vms' :
              v \in DOMAIN vms /\ vms'[v].cluster = vms[v].cluster
         /\ \A h \in spent \cap DOMAIN hosts' :
              h \in DOMAIN hosts /\ hosts'[h].cluster = hosts[h].cluster
<1> DEFINE Kept == /\ spent \subseteq spent'
                   /\ \A v \in spent \cap DOMAIN vms' :
                        v \in DOMAIN vms /\ vms'[v].cluster = vms[v].cluster
                   /\ \A h \in spent \cap DOMAIN hosts' :
                        h \in DOMAIN hosts /\ hosts'[h].cluster = hosts[h].cluster
<1> USE DEF IInv, TypeOK, VmRow, HostRow
<1>1. CASE UNCHANGED tables
  BY <1>1 DEF tables
<1>2. ASSUME NEW r \in Req, InsertVm(r) PROVE Kept
  BY <1>2 DEF InsertVm, Insert
<1>3. ASSUME NEW r \in Req, UpdateWrite(r), ~UNCHANGED tables PROVE Kept
  BY <1>3 DEF UpdateWrite, Onward, Outcome, tables
<1>4. ASSUME NEW r \in Req, RemoveDelete(r) PROVE Kept
  BY <1>4 DEF RemoveDelete, Delete, Restrict
<1>5. ASSUME NEW r \in Req, ActionWrite(r), ~UNCHANGED tables PROVE Kept
  BY <1>5 DEF ActionWrite, Onward, Outcome, tables
<1>6. ASSUME NEW r \in Req, HostActionWrite(r), ~UNCHANGED tables PROVE Kept
  BY <1>6 DEF HostActionWrite, Outcome, tables
<1>7. CASE AddHost
  BY <1>7 DEF AddHost, Insert
<1>8. CASE RemoveHost
  BY <1>8 DEF RemoveHost, Delete, Restrict, SetNull
<1>9. CASE AddCluster
  BY <1>9 DEF AddCluster
<1>10. CASE RemoveClusters
  BY <1>10 DEF RemoveClusters, Delete, Restrict, SetNull
<1>11. ASSUME NEW r \in Req, Begin(r) PROVE Kept
  BY <1>1, <1>11, BeginReads
<1>12. ASSUME NEW r \in Req, Continue(r) PROVE Kept
  BY <1>1, <1>2, <1>3, <1>4, <1>5, <1>6, <1>12, ContinueReads
<1>13. ASSUME NEW r \in Req, TimeOut(r) PROVE Kept
  BY <1>1, <1>13, TimeOutReads
<1>14. CASE RemoveOption \/ Restart \/ Quiet
  BY <1>1, <1>14 DEF RemoveOption, Restart, Quiet, vars
<1>15. QED
  BY <1>7, <1>8, <1>9, <1>10, <1>11, <1>12, <1>13, <1>14 DEF Next, Others

\* A step of request r says nothing about another one.
LEMMA RequestsApart ==
  ASSUME TypeOK, NEW r \in Req, Begin(r) \/ Continue(r) \/ TimeOut(r), NEW q \in Req \ {r}
  PROVE  /\ pc'[q] = pc[q] /\ rq'[q] = rq[q]
         /\ q \in jobs' <=> q \in jobs
         /\ q \in steps' <=> q \in steps
<1>1. \E from, to, l : Proceed(r, from, to, l)
  BY DEF Begin, CreateResolve, ReadVm, UpdateRead, RemoveRead, NoopRead, CloneRead,
         ActionRead, HostActionRead, Continue, InsertRefused, InsertVm, CreateReread,
         UpdateWrite, UpdateReread, RemoveDelete, CloneCheck, CloneCopy, ActionPrepare,
         ActionWrite, HostActionWrite, JobInsert, StepInsert, TimeOut, Onward, Outcome,
         Answer
<1>2. jobs' \in {jobs, jobs \cup {r}} /\ steps' \in {steps, steps \cup {r}}
  <2>1. CASE Begin(r)
    BY <2>1, BeginReads
  <2>2. CASE Continue(r)
    BY <2>2 DEF Continue, InsertRefused, InsertVm, CreateReread,
         UpdateWrite, UpdateReread, RemoveDelete, CloneCheck, CloneCopy, ActionPrepare,
         ActionWrite, HostActionWrite, JobInsert, StepInsert, Onward, Outcome
  <2>3. CASE TimeOut(r)
    BY <2>3, TimeOutReads
  <2>4. QED
    BY <2>1, <2>2, <2>3
<1>3. QED
  BY <1>1, <1>2, OthersKeep

\* A request that ends without success, or as an update, owes no job.
LEMMA Ends ==
  ASSUME IInv, NEW r \in Req, pc[r] \notin {"step", "done", "lost"},
         NEW l, Proceed(r, pc[r], "done", l), UNCHANGED <<jobs, steps>>,
         l.answer \notin {"200", "201"} \/ l.op = "update"
  PROVE  RequestInv(r)'
<1>1. r \notin jobs /\ r \notin steps
  BY DEF IInv, RequestInv, JobFollows
<1>2. pc'[r] = "done" /\ rq'[r] = l
  BY OthersKeep DEF IInv
<1>3. QED
  BY <1>1, <1>2 DEF RequestInv, StaleReadAgrees, TargetKnown, LocalsKnown, JobFollows

\* A request refused before it wrote.
LEMMA Refused ==
  ASSUME IInv, NEW r \in Req, NEW from, from \notin {"step", "done", "lost"},
         NEW c, c \notin {"200", "201"} \/ rq[r].op = "update", Outcome(r, from, c)
  PROVE  RequestInv(r)'
<1>1. pc[r] = from /\ Proceed(r, pc[r], "done", Tail(r, c)) /\ UNCHANGED <<jobs, steps>>
  BY DEF Outcome, Answer, Proceed
<1>2. Tail(r, c).answer = c /\ Tail(r, c).op = rq[r].op
  BY DEF Tail, Closing
<1>3. QED
  BY <1>1, <1>2, Ends

\* A request whose object is not there.
LEMMA NotFound ==
  ASSUME IInv, NEW r \in Req, NEW op, NEW v, NEW code, code \notin {"200", "201"},
         Onward(r, "idle", "done", Closing(op, v, code))
  PROVE  RequestInv(r)'
<1>1. pc[r] = "idle" /\ Proceed(r, pc[r], "done", Closing(op, v, code))
      /\ UNCHANGED <<jobs, steps>>
  BY DEF Onward, Proceed
<1>2. QED
  BY <1>1, Ends DEF Closing

\* What the first statement of a request leaves it with.
LEMMA BeginRequest ==
  ASSUME IInv, NEW r \in Req, Begin(r)
  PROVE  RequestInv(r)'
<1>1. TypeOK /\ UNCHANGED <<tables, jobs, steps>>
  BY BeginReads DEF IInv
<1>2. ASSUME NEW to, NEW l, Onward(r, "idle", to, l)
      PROVE  /\ pc'[r] = to /\ rq'[r] = l /\ r \notin jobs' /\ r \notin steps'
  <2>1. Proceed(r, "idle", to, l)
    BY <1>2 DEF Onward
  <2>2. r \notin jobs /\ r \notin steps
    BY <2>1 DEF IInv, RequestInv, JobFollows, Proceed
  <2>3. QED
    BY <1>1, <2>1, <2>2, OthersKeep
<1> USE DEF RequestInv, StaleReadAgrees, TargetKnown, LocalsKnown, JobFollows
<1>3. CASE CreateResolve(r)
  <2>1. CASE clusters = {}
    BY <1>3, <2>1, NotFound DEF CreateResolve
  <2>2. CASE clusters # {}
    <3>1. PICK n \in Name, c \in clusters :
            Onward(r, "idle", "insert", Held("create", None, n, None, c, None))
      BY <1>3, <2>2 DEF CreateResolve
    <3>2. pc'[r] = "insert" /\ rq'[r] = Held("create", None, n, None, c, None)
          /\ r \notin jobs' /\ r \notin steps'
      BY <3>1, <1>2
    <3>3. QED
      BY <1>1, <3>2 DEF Held, TypeOK
  <2>3. QED
    BY <2>1, <2>2
<1>4. CASE UpdateRead(r)
  <2>1. PICK v \in Vm \cap spent, n \in Name :
          ReadVm(r, "update", v, "write", Held("update", v, n, None, None, None))
    BY <1>4 DEF UpdateRead
  <2>2. CASE v \notin DOMAIN vms
    BY <2>1, <2>2, NotFound DEF ReadVm
  <2>3. CASE v \in DOMAIN vms
    BY <2>1, <2>3, <1>2 DEF ReadVm, Held
  <2>4. QED
    BY <2>2, <2>3
<1>5. CASE RemoveRead(r)
  <2>1. PICK v \in Vm \cap spent :
          ReadVm(r, "remove", v, "delete", Closing("remove", v, None))
    BY <1>5 DEF RemoveRead
  <2>2. CASE v \notin DOMAIN vms
    BY <2>1, <2>2, NotFound DEF ReadVm
  <2>3. CASE v \in DOMAIN vms
    BY <2>1, <2>3, <1>1, <1>2 DEF ReadVm, Closing, tables
  <2>4. QED
    BY <2>2, <2>3
<1>6. CASE NoopRead(r)
  <2>1. PICK v \in Vm \cap spent :
          ReadVm(r, "noop", v, "job", Closing("noop", v, "200"))
    BY <1>6 DEF NoopRead
  <2>2. CASE v \notin DOMAIN vms
    BY <2>1, <2>2, NotFound DEF ReadVm
  <2>3. CASE v \in DOMAIN vms
    BY <2>1, <2>3, <1>2 DEF ReadVm, Closing
  <2>4. QED
    BY <2>2, <2>3
<1>7. CASE CloneRead(r)
  <2>1. PICK v \in Vm \cap spent, n \in Name :
          ReadVm(r, "clone", v, "check", Held("clone", v, n, None, vms[v].cluster, None))
    BY <1>7 DEF CloneRead
  <2>2. CASE v \notin DOMAIN vms
    BY <2>1, <2>2, NotFound DEF ReadVm
  <2>3. CASE v \in DOMAIN vms
    BY <2>1, <2>3, <1>1, <1>2 DEF ReadVm, Held, TypeOK, VmRow
  <2>4. QED
    BY <2>2, <2>3
<1>8. CASE ActionRead(r)
  <2>1. PICK v \in Vm \cap spent, a \in DOMAIN Power :
          ReadVm(r, "action", v, "prepare",
                 Held("action", v, None, a, vms[v].cluster, vms[v].host))
    BY <1>8 DEF ActionRead
  <2>2. CASE v \notin DOMAIN vms
    BY <2>1, <2>2, NotFound DEF ReadVm
  <2>3. CASE v \in DOMAIN vms
    <3>1. vms[v].host # None => /\ vms[v].host \in DOMAIN hosts /\ vms[v].host \in spent
                                /\ \/ hosts[vms[v].host].cluster = vms[v].cluster
                                   \/ SeededOn(v, vms[v].host)
      BY <2>3 DEF IInv, TablesInv, PlacedInCluster, LiveIsSpent
    <3>2. QED
      BY <2>1, <2>3, <3>1, <1>1, <1>2 DEF ReadVm, Held, tables
  <2>4. QED
    BY <2>2, <2>3
<1>9. CASE HostActionRead(r)
  <2>1. PICK h \in Host \cap spent, a \in DOMAIN HostPower :
          IF h \in DOMAIN hosts
          THEN Onward(r, "idle", "hostwrite", Held("host", None, None, a, None, h))
          ELSE Onward(r, "idle", "done", Closing("host", None, "404"))
    BY <1>9 DEF HostActionRead
  <2>2. CASE h \notin DOMAIN hosts
    BY <2>1, <2>2, NotFound
  <2>3. CASE h \in DOMAIN hosts
    BY <2>1, <2>3, <1>2 DEF Held
  <2>4. QED
    BY <2>2, <2>3
<1>10. QED
  BY <1>3, <1>4, <1>5, <1>6, <1>7, <1>8, <1>9 DEF Begin

\* What each later statement leaves its request with.
LEMMA ContinueRequest ==
  ASSUME IInv, TypeOK', NEW r \in Req, Continue(r)
  PROVE  RequestInv(r)'
<1>1. TypeOK /\ RequestInv(r)
  BY DEF IInv
<1>2. ASSUME NEW from, NEW to, NEW l, Proceed(r, from, to, l)
      PROVE  pc[r] = from /\ pc'[r] = to /\ rq'[r] = l
  BY <1>1, <1>2, OthersKeep
<1>t. ASSUME NEW a PROVE /\ Tail(r, a).op = rq[r].op /\ Tail(r, a).vm = rq[r].vm
                        /\ Tail(r, a).answer = a
  BY DEF Tail, Closing
<1> USE <1>1 DEF RequestInv, StaleReadAgrees, TargetKnown, LocalsKnown, JobFollows
<1>3. CASE InsertRefused(r)
  BY <1>3, Refused DEF InsertRefused
<1>4. CASE InsertVm(r)
  <2>1. PICK v \in Vm \ spent, to \in {"copy", "reread"} :
          /\ spent' = spent \cup {v}
          /\ Proceed(r, "insert", to, Closing(rq[r].op, v, None))
    BY <1>4 DEF InsertVm
  <2>2. pc[r] = "insert" /\ pc'[r] = to /\ rq'[r] = Closing(rq[r].op, v, None)
    BY <2>1, <1>2
  <2>3. QED
    BY <1>4, <2>1, <2>2 DEF InsertVm, Closing
<1>5. CASE CreateReread(r)
  <2>1. PICK a \in {"201", "404"} : Onward(r, "reread", "job", Tail(r, a))
    BY <1>5 DEF CreateReread
  <2>2. pc[r] = "reread" /\ pc'[r] = "job" /\ rq'[r] = Tail(r, a)
        /\ UNCHANGED <<tables, jobs, steps>>
    BY <2>1, <1>2 DEF Onward
  <2>3. QED
    BY <2>2, <1>t DEF tables
<1>6. CASE UpdateWrite(r)
  <2>1. CASE Outcome(r, "write", "409")
    BY <2>1, Refused
  <2>2. CASE Proceed(r, "write", "reread", Tail(r, None)) /\ UNCHANGED <<jobs, steps>>
    <3>1. pc[r] = "write" /\ pc'[r] = "reread" /\ rq'[r] = Tail(r, None)
      BY <2>2, <1>2
    <3>2. rq[r].op = "update"
      BY <1>6 DEF UpdateWrite
    <3>3. QED
      BY <2>2, <3>1, <3>2, <1>t
  <2>3. QED
    BY <1>6, <2>1, <2>2 DEF UpdateWrite, Onward
<1>7. CASE UpdateReread(r)
  BY <1>7, Refused DEF UpdateReread
<1>8. CASE RemoveDelete(r)
  <2>1. pc[r] = "delete" /\ pc'[r] = "job" /\ rq'[r] = Tail(r, "200")
    BY <1>8, <1>2 DEF RemoveDelete
  <2>2. rq[r].vm \notin DOMAIN vms' /\ spent' = spent
    BY <1>8 DEF RemoveDelete, Delete, Restrict
  <2>3. QED
    BY <1>8, <2>1, <2>2, <1>t DEF RemoveDelete
<1>9. CASE CloneCheck(r)
  <2>1. CASE Outcome(r, "check", "409")
    BY <2>1, Refused
  <2>2. CASE Onward(r, "check", "insert", rq[r])
    <3>1. pc[r] = "check" /\ pc'[r] = "insert" /\ rq'[r] = rq[r]
          /\ UNCHANGED <<jobs, steps>>
      BY <2>2, <1>2 DEF Onward
    <3>2. QED
      BY <3>1
  <2>3. QED
    BY <1>9, <2>1, <2>2 DEF CloneCheck
<1>10. CASE CloneCopy(r)
  <2>1. CASE Outcome(r, "copy", "400") \/ Outcome(r, "copy", "409")
    BY <2>1, Refused
  <2>2. CASE Onward(r, "copy", "job", Tail(r, "200"))
    <3>1. pc[r] = "copy" /\ pc'[r] = "job" /\ rq'[r] = Tail(r, "200")
          /\ UNCHANGED <<tables, jobs, steps>>
      BY <2>2, <1>2 DEF Onward
    <3>2. QED
      BY <3>1, <1>t DEF tables
  <2>3. QED
    BY <1>10, <2>1, <2>2 DEF CloneCopy
<1>11. CASE ActionPrepare(r)
  <2>1. CASE ~options
    BY <1>11, <2>1, Refused DEF ActionPrepare
  <2>2. CASE options
    <3>1. PICK h : /\ h = rq[r].host \/ h = None \/ h \in UpHosts(rq[r].cluster)
                   /\ Onward(r, "prepare", "write", [rq[r] EXCEPT !.host = h])
      BY <1>11, <2>2, Zenon DEF ActionPrepare
    <3>2. pc[r] = "prepare" /\ pc'[r] = "write" /\ rq'[r] = [rq[r] EXCEPT !.host = h]
          /\ UNCHANGED <<tables, jobs, steps>>
      BY <3>1, <1>2 DEF Onward
    <3>3. /\ rq'[r].op = rq[r].op /\ rq'[r].vm = rq[r].vm /\ rq'[r].act = rq[r].act
          /\ rq'[r].cluster = rq[r].cluster /\ rq'[r].host = h
      BY <3>2 DEF TypeOK, Locals
    <3>4. h # None => /\ h \in spent
                      /\ \/ h \in DOMAIN hosts => hosts[h].cluster = rq[r].cluster
                         \/ SeededOn(rq[r].vm, h)
      BY <3>1, <3>2 DEF UpHosts, IInv, TablesInv, LiveIsSpent
    <3>5. StaleReadAgrees(r)'
      BY <3>2, <3>3, <3>4 DEF tables
    <3>6. QED
      BY <3>2, <3>3, <3>5
  <2>3. QED
    BY <2>1, <2>2
<1>12. CASE ActionWrite(r)
  <2>1. CASE Outcome(r, "write", "400")
    BY <2>1, Refused
  <2>2. CASE Proceed(r, "write", "job", Tail(r, "200")) /\ UNCHANGED <<spent, jobs, steps>>
    <3>1. pc[r] = "write" /\ pc'[r] = "job" /\ rq'[r] = Tail(r, "200")
      BY <2>2, <1>2
    <3>2. rq[r].op = "action"
      BY <1>12 DEF ActionWrite
    <3>3. QED
      BY <2>2, <3>1, <3>2, <1>t
  <2>3. QED
    BY <1>12, <2>1, <2>2 DEF ActionWrite, Onward, tables
<1>13. CASE HostActionWrite(r)
  <2>1. CASE ~options
    BY <1>13, <2>1, Refused DEF HostActionWrite
  <2>2. CASE options
    <3>1. pc[r] = "hostwrite" /\ pc'[r] = "job" /\ rq'[r] = Tail(r, "200")
          /\ UNCHANGED <<jobs, steps>>
      BY <1>13, <2>2, <1>2 DEF HostActionWrite
    <3>2. QED
      BY <3>1, <1>t
  <2>3. QED
    BY <2>1, <2>2
<1>14. CASE JobInsert(r)
  <2>1. CASE ~options
    BY <1>14, <2>1, Refused DEF JobInsert
  <2>2. CASE options
    <3>1. pc[r] = "job" /\ pc'[r] = "step" /\ rq'[r] = rq[r]
          /\ UNCHANGED <<tables, steps>> /\ jobs' = jobs \cup {r}
      BY <1>14, <2>2, <1>2 DEF JobInsert
    <3>2. QED
      BY <3>1 DEF tables
  <2>3. QED
    BY <2>1, <2>2
<1>15. CASE StepInsert(r)
  <2>1. PICK a : /\ pc[r] = "step" /\ pc'[r] = "done" /\ rq'[r] = Tail(r, a)
                 /\ UNCHANGED <<tables, jobs>> /\ steps' = steps \cup {r}
    BY <1>15, <1>2 DEF StepInsert, Answer
  <2>2. QED
    BY <2>1, <1>t DEF tables
<1>16. QED
  BY <1>3, <1>4, <1>5, <1>6, <1>7, <1>8, <1>9, <1>10, <1>11, <1>12, <1>13, <1>14, <1>15
     DEF Continue

\* A time-out forgets them as well; a job it leaves without a step is one whose
\* client got 500.
LEMMA TimeOutRequest ==
  ASSUME IInv, NEW r \in Req, TimeOut(r)
  PROVE  RequestInv(r)'
<1>1. TypeOK /\ RequestInv(r) /\ InFlight(r)
  BY DEF IInv, TimeOut
<1>2. pc'[r] = "done" /\ rq'[r] = Tail(r, "500") /\ UNCHANGED <<tables, jobs, steps>>
  BY <1>1, OthersKeep DEF TimeOut, Outcome, Answer
<1>3. Tail(r, "500").op = rq[r].op /\ Tail(r, "500").vm = rq[r].vm
      /\ Tail(r, "500").answer = "500"
  BY DEF Tail, Closing
<1>4. QED
  BY <1>1, <1>2, <1>3 DEF RequestInv, StaleReadAgrees, TargetKnown, LocalsKnown,
                          JobFollows, InFlight, tables

\* A restart forgets the locals, keeps what is known of targets and jobs.
LEMMA RestartRequests ==
  ASSUME IInv, Restart, NEW q \in Req
  PROVE  RequestInv(q)'
<1>1. /\ pc'[q] = IF InFlight(q) THEN "lost" ELSE pc[q]
      /\ rq'[q] = IF InFlight(q) THEN Tail(q, None) ELSE rq[q]
      /\ UNCHANGED <<tables, jobs, steps>>
  BY DEF Restart
<1>2. RequestInv(q) /\ TypeOK
  BY DEF IInv
<1>3. Tail(q, None).op = rq[q].op /\ Tail(q, None).vm = rq[q].vm
      /\ Tail(q, None).answer = None
  BY DEF Tail, Closing
<1> USE DEF RequestInv, StaleReadAgrees, TargetKnown, LocalsKnown, JobFollows
<1>4. CASE InFlight(q)
  BY <1>1, <1>2, <1>3, <1>4 DEF InFlight, tables
<1>5. CASE ~InFlight(q)
  <2>1. pc'[q] = pc[q] /\ rq'[q] = rq[q]
    BY <1>1, <1>5
  <2>2. QED
    BY <1>1, <1>2, <2>1 DEF tables
<1>6. QED
  BY <1>4, <1>5

\* Every step keeps the invariant.
LEMMA Inductive == IInv /\ [Next]_vars => IInv'
<1> SUFFICES ASSUME IInv, [Next]_vars PROVE IInv'
  OBVIOUS
<1>1. CASE UNCHANGED vars
  BY <1>1 DEF vars, tables, IInv, TypeOK, TablesInv, LiveIsSpent, HostsHaveClusters,
              PlacedInCluster, UniqueNames, RequestInv, StaleReadAgrees, TargetKnown,
              LocalsKnown, JobFollows
<1>2. CASE Next
  <2>1. TypeOK'
    <3>1. TypeOK /\ \A r \in Req : LocalsKnown(r)
      BY DEF IInv, RequestInv
    <3>2. CASE Quiet
      BY <3>1, <3>2 DEF Quiet, vars, tables, TypeOK
    <3>3. QED
      BY <1>2, <3>1, <3>2, BeginType, ContinueType, TimeOutType, OthersType DEF Next
  <2>2. TablesInv'
    BY <1>2, TablesStep
  <2>3. ASSUME NEW q \in Req PROVE RequestInv(q)'
    <3>1. ASSUME pc'[q] = pc[q], rq'[q] = rq[q], q \in jobs' <=> q \in jobs,
                 q \in steps' <=> q \in steps
          PROVE  RequestInv(q)'
      BY <1>2, <2>1, <3>1, RowsKept, RequestsIdle
    <3>2. ASSUME NEW r \in Req, Begin(r) \/ Continue(r) \/ TimeOut(r)
          PROVE  RequestInv(q)'
      <4>1. CASE q = r
        BY <2>1, <3>2, <4>1, BeginRequest, ContinueRequest, TimeOutRequest
      <4>2. CASE q # r
        BY <3>1, <3>2, <4>2, RequestsApart DEF IInv
      <4>3. QED
        BY <4>1, <4>2
    <3>3. CASE AddHost \/ RemoveHost \/ AddCluster \/ RemoveClusters \/ RemoveOption \/ Quiet
      BY <3>1, <3>3 DEF AddHost, RemoveHost, AddCluster, RemoveClusters, RemoveOption,
                        Quiet, requests, vars
    <3>4. CASE Restart
      BY <3>4, RestartRequests
    <3>5. QED
      BY <1>2, <3>2, <3>3, <3>4 DEF Next, Others
  <2>4. QED
    BY <2>1, <2>2, <2>3 DEF IInv
<1>3. QED
  BY <1>1, <1>2

-----------------------------------------------------------------------------
\* What every run of the handlers keeps to.

\* The invariant holds of every reachable state.
THEOREM Invariance == Spec => []IInv
<1>1. QED
  BY InitInv, Inductive, PTL DEF Spec

\* Every table, request and answer keeps its type.
THEOREM TypeCorrect == Spec => []TypeOK
<1>1. IInv => TypeOK
  BY DEF IInv
<1>2. QED
  BY <1>1, Invariance, PTL

\* A VM is on no host, on an existing host of its own cluster or on the host it
\* was seeded on.
THEOREM Placement == Spec => []PlacedInCluster
<1>1. IInv => PlacedInCluster
  BY DEF IInv, TablesInv
<1>2. QED
  BY <1>1, Invariance, PTL

\* Names are unique in a cluster.
THEOREM NamesUnique == Spec => []UniqueNames
<1>1. IInv => UniqueNames
  BY DEF IInv, TablesInv
<1>2. QED
  BY <1>1, Invariance, PTL

\* The job log says nothing that is not so.
THEOREM TruthfulJobs == Spec => []JobsTellTheTruth
<1>1. IInv => JobsTellTheTruth
  BY DEF IInv, TypeOK, RequestInv, TargetKnown, JobsTellTheTruth
<1>2. QED
  BY <1>1, Invariance, PTL

\* A success that owes a job has one with its step; a job without a step is
\* in the making, was cut short or belongs to a 500.
THEOREM CompleteJobs == Spec => []JobsComplete
<1>1. IInv => JobsComplete
  BY DEF IInv, TypeOK, RequestInv, JobFollows, JobsComplete
<1>2. QED
  BY <1>1, Invariance, PTL

\* A deleted VM stays deleted, whoever still holds its row.
THEOREM DeletedStaysDeleted == Spec => NoResurrection
<1>1. IInv /\ [Next]_vars => [\A v \in spent \ DOMAIN vms : v \notin DOMAIN vms']_vars
  BY RowsKept
<1>2. QED
  BY <1>1, Invariance, PTL DEF Spec, NoResurrection

-----------------------------------------------------------------------------
\* The handlers implement the inventory.

\* The seed is an initial state of the abstract inventory.
LEMMA InitImplements == Init => Inventory!Init
BY SeedAssumption DEF Init, SeedOK, Inventory!Init, HostOf

\* Statements on a VM.
LEMMA VmStatementsImplement ==
  ASSUME IInv, NEW r \in Req,
         InsertVm(r) \/ UpdateWrite(r) \/ RemoveDelete(r) \/ ActionWrite(r)
  PROVE  Inventory!Next \/ UNCHANGED tables
<1>0. TypeOK /\ TablesInv /\ RequestInv(r)
  BY DEF IInv
<1>1. CASE InsertVm(r)
  <2>1. pc[r] = "insert" /\ rq[r].cluster \in Cluster /\ rq[r].name \in Name
    BY <1>0, <1>1 DEF InsertVm, RequestInv, LocalsKnown
  <2>2. PICK v \in Vm : Inventory!CreateVm(v, rq[r].cluster, rq[r].name)
    BY <1>0, <1>1, <2>1 DEF InsertVm, Inventory!CreateVm, Inventory!NameFree, NameTaken,
                            Insert, Inventory!Insert, HostOf
  <2>3. QED
    BY <2>1, <2>2 DEF Inventory!Next
<1>2. CASE UpdateWrite(r)
  <2>1. SUFFICES ASSUME ~UNCHANGED tables PROVE Inventory!Next
    OBVIOUS
  <2>2. rq[r].name \in Name /\ rq[r].vm \in Vm
    BY <1>0, <1>2 DEF UpdateWrite, RequestInv, LocalsKnown
  <2>3. Inventory!RenameVm(rq[r].vm, rq[r].name)
    BY <1>2, <2>1 DEF UpdateWrite, Onward, Outcome, tables, Inventory!RenameVm,
                      Inventory!NameFree, NameTaken, HostOf
  <2>4. QED
    BY <2>2, <2>3 DEF Inventory!Next
<1>3. CASE RemoveDelete(r)
  <2>1. rq[r].vm \in Vm
    BY <1>0, <1>3 DEF RemoveDelete, Proceed, RequestInv, LocalsKnown
  <2>2. CASE rq[r].vm \in DOMAIN vms
    <3>1. Inventory!RemoveVm(rq[r].vm)
      BY <1>3, <2>2 DEF RemoveDelete, Inventory!RemoveVm, Delete, Restrict,
                        Inventory!Delete, Inventory!Restrict, HostOf
    <3>2. QED
      BY <2>1, <3>1 DEF Inventory!Next
  <2>3. CASE rq[r].vm \notin DOMAIN vms
    BY <1>0, <1>3, <2>3 DEF RemoveDelete, TypeOK, Delete, Restrict, tables
  <2>4. QED
    BY <2>2, <2>3
<1>4. CASE ActionWrite(r)
  <2> DEFINE v == rq[r].vm
             h == IF rq[r].act \in Release THEN None ELSE rq[r].host
  <2>1. SUFFICES ASSUME ~UNCHANGED tables PROVE Inventory!Next
    OBVIOUS
  <2>2. /\ pc[r] = "write" /\ rq[r].op = "action"
        /\ v \in DOMAIN vms
        /\ h = None \/ h \in DOMAIN hosts
        /\ vms' = [vms EXCEPT ![v] = [cluster |-> @.cluster, name |-> @.name,
                                     status |-> Power[rq[r].act], host |-> h]]
        /\ UNCHANGED <<hosts, clusters, spent>>
    BY <1>4, <2>1 DEF ActionWrite, Onward, Outcome, tables
  <2>3. rq[r].act \in DOMAIN Power /\ v \in Vm /\ h \in Host \cup {None}
    BY <1>0, <2>2 DEF RequestInv, LocalsKnown, StaleReadAgrees, TypeOK, Locals
  <2>4. h \in Inventory!Placements(v)
    <3>1. h # None => /\ HostOf[h] = vms[v].cluster \/ SeededOn(v, h)
                      /\ h \in DOMAIN HostOf
      BY <1>0, <2>2 DEF RequestInv, StaleReadAgrees, HostOf
    <3>2. QED
      BY <3>1 DEF Inventory!Placements, SeededOn
  <2>5. Inventory!SetPower(v, rq[r].act, h)
    BY <2>2, <2>4 DEF Inventory!SetPower, HostOf
  <2> HIDE DEF v, h
  <2>6. QED
    BY <2>3, <2>5 DEF Inventory!Next
<1>5. QED
  BY <1>1, <1>2, <1>3, <1>4

\* Statements on hosts and clusters.
LEMMA OthersImplement ==
  ASSUME IInv, Others
  PROVE  Inventory!Next \/ UNCHANGED tables
<1>0. TypeOK
  BY DEF IInv
<1>1. CASE AddHost
  <2>1. PICK h \in Host \ spent, c \in clusters :
          /\ hosts' = Insert(hosts, h, [cluster |-> c, status |-> "up"])
          /\ spent' = spent \cup {h}
          /\ UNCHANGED <<vms, clusters>>
    BY <1>1 DEF AddHost
  <2>2. HostOf' = Inventory!Insert(HostOf, h, c)
    BY <2>1 DEF HostOf, Insert, Inventory!Insert
  <2>3. Inventory!AddHost(h, c)
    BY <2>1, <2>2 DEF Inventory!AddHost
  <2>4. QED
    BY <1>0, <2>3 DEF Inventory!Next, TypeOK
<1>2. CASE RemoveHost
  <2>1. PICK h \in DOMAIN hosts : /\ hosts' = Delete(hosts, {h})
                                 /\ vms' = SetNull(vms, {h})
                                 /\ UNCHANGED <<clusters, spent>>
    BY <1>2 DEF RemoveHost
  <2>2. HostOf' = Inventory!Delete(HostOf, {h})
    BY <2>1 DEF HostOf, Delete, Restrict, Inventory!Delete, Inventory!Restrict
  <2>3. Inventory!RemoveHost(h)
    BY <2>1, <2>2 DEF Inventory!RemoveHost, Inventory!Displaced, SetNull, HostOf
  <2>4. QED
    BY <1>0, <2>3 DEF Inventory!Next, TypeOK
<1>3. CASE AddCluster
  <2>1. PICK c \in Cluster : Inventory!AddCluster(c)
    BY <1>3 DEF AddCluster, Inventory!AddCluster, HostOf
  <2>2. QED
    BY <2>1 DEF Inventory!Next
<1>4. CASE RemoveClusters
  <2>1. PICK cs \in (SUBSET clusters) \ {{}} :
          /\ clusters' = clusters \ cs
          /\ hosts' = Delete(hosts, {h \in DOMAIN hosts : hosts[h].cluster \in cs})
          /\ vms' = SetNull(Delete(vms, {v \in DOMAIN vms : vms[v].cluster \in cs}),
                            {h \in DOMAIN hosts : hosts[h].cluster \in cs})
          /\ spent' = spent
    BY <1>4 DEF RemoveClusters
  <2> DEFINE deadHosts == {h \in DOMAIN hosts : hosts[h].cluster \in cs}
             deadVms   == {v \in DOMAIN vms : vms[v].cluster \in cs}
  <2>2. Inventory!HostsIn(cs) = deadHosts /\ Inventory!VmsIn(cs) = deadVms
    BY DEF HostOf, Inventory!HostsIn, Inventory!VmsIn
  <2>3. hosts' = Delete(hosts, deadHosts) /\ vms' = SetNull(Delete(vms, deadVms), deadHosts)
    BY <2>1
  <2> HIDE DEF deadHosts, deadVms
  <2>4. /\ HostOf' = Inventory!Delete(HostOf, deadHosts)
        /\ vms' = Inventory!Displaced(Inventory!Delete(vms, deadVms), deadHosts)
    BY <2>3 DEF HostOf, SetNull, Inventory!Displaced, Delete, Restrict, Inventory!Delete,
                Inventory!Restrict
  <2>5. Inventory!RemoveClusters(cs)
    BY <2>1, <2>2, <2>4 DEF Inventory!RemoveClusters
  <2>6. QED
    BY <1>0, <2>5 DEF Inventory!Next, TypeOK
<1>5. CASE RemoveOption \/ Restart
  BY <1>5 DEF RemoveOption, Restart
<1>6. QED
  BY <1>1, <1>2, <1>3, <1>4, <1>5 DEF Others

\* Every step of the handlers is one of the abstract inventory, or none.
LEMMA StepImplements == IInv /\ [Next]_vars => [Inventory!Next]_(Inventory!vars)
<1> SUFFICES ASSUME IInv, [Next]_vars PROVE [Inventory!Next]_(Inventory!vars)
  OBVIOUS
<1>1. CASE UNCHANGED tables
  BY <1>1 DEF tables, Inventory!vars, HostOf
<1>2. ASSUME NEW r \in Req, HostActionWrite(r) PROVE UNCHANGED Inventory!vars
  <2>1. TypeOK
    BY DEF IInv
  <2>2. CASE UNCHANGED tables
    BY <2>2 DEF tables, Inventory!vars, HostOf
  <2>3. CASE ~UNCHANGED tables
    <3>1. /\ DOMAIN hosts' = DOMAIN hosts
          /\ \A h \in DOMAIN hosts : hosts'[h].cluster = hosts[h].cluster
          /\ UNCHANGED <<vms, clusters, spent>>
      BY <1>2, <2>1, <2>3 DEF HostActionWrite, Outcome, tables, TypeOK, HostRow
    <3>2. QED
      BY <3>1 DEF Inventory!vars, HostOf
  <2>4. QED
    BY <2>2, <2>3
<1>3. ASSUME NEW r \in Req, Continue(r) PROVE [Inventory!Next]_(Inventory!vars)
  BY <1>1, <1>2, <1>3, ContinueReads, VmStatementsImplement
<1>4. CASE Others
  BY <1>1, <1>4, OthersImplement
<1>5. ASSUME NEW r \in Req, Begin(r) \/ TimeOut(r) PROVE UNCHANGED tables
  BY <1>5, BeginReads, TimeOutReads
<1>6. CASE Quiet \/ UNCHANGED vars
  BY <1>1, <1>6 DEF Quiet, vars
<1>7. QED
  BY <1>1, <1>3, <1>4, <1>5, <1>6 DEF Next

\* Every behaviour of the handlers is, seen through HostOf, one of the
\* inventory: the statements of concurrent requests amount to atomic creates,
\* renames, power changes and removals.
THEOREM Refinement == Spec => ImplementsInventory
<1>1. QED
  BY InitImplements, StepImplements, Invariance, PTL
     DEF Spec, ImplementsInventory, Inventory!Spec

=============================================================================
