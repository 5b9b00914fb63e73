--------------------------- MODULE SeedLifecycle ---------------------------
(***************************************************************************)
(* How the lab database is filled: by the start of the simulator, by runs  *)
(* of seed_cli beside it (make seed, the Helm job) and by the console's    *)
(* load and unload buttons.  The first two autocommit every statement and  *)
(* may die between two of them; the console does all of it in one          *)
(* transaction, which TRUNCATE's table locks make a single step.  Rows are *)
(* grouped: a row here stands for all that one run of similar statements   *)
(* inserts, a table for the tables truncated in a row.                     *)
(***************************************************************************)
EXTENDS Naturals, Sequences, FiniteSets

CONSTANTS
  Cli,      \* the runs of seed_cli, each made once
  Server,   \* the simulator process: start, serve, die, start again
  None,     \* no row in ov_demo_meta
  MaxKills, \* bound: how often a process dies
  Overlap   \* whether seed_cli may run while the simulator starts: nothing in
            \* the code prevents it, an operator may

ASSUME ServerAssumption == Server \notin Cli
ASSUME MaxKillsAssumption == MaxKills \in Nat
ASSUME OverlapAssumption == Overlap \in BOOLEAN

VARIABLES
  rows,     \* the seed rows in the database
  label,    \* ov_demo_meta: the value at key 'profile'
  phase,    \* seeder -> what it is doing
  todo,     \* seeder -> the statements it has still to run
  goal,     \* seeder -> the profile it is loading, or "keep"
  alone,    \* the running seeders during whose run nobody else wrote
  kills     \* processes that died so far

vars == <<rows, label, phase, todo, goal, alone, kills>>

Seeders == Cli \cup {Server}

-----------------------------------------------------------------------------
\* The statements.

Sized    == {"small", "large"}
Profiles == Sized \cup {"minimal"}

\* Ids are stable: a row two profiles share is one row, inserted once.
TableOf ==
  [users |-> "users", default |-> "estate", prod |-> "estate", stage |-> "estate",
   blank |-> "templates", labVm |-> "vms", vms50 |-> "vms", vms1000 |-> "vms",
   log |-> "log", surface |-> "objects", options |-> "objects", nested |-> "objects"]

Rows == DOMAIN TableOf

\* TRUNCATE ... CASCADE: the table and those that reference it.
Cascade ==
  [log       |-> {"log"},
   vms       |-> {"vms", "log"},
   templates |-> {"templates", "vms", "log"},
   estate    |-> {"estate", "templates", "vms", "log"},
   users     |-> {"users", "log"},
   objects   |-> {"objects"},
   meta      |-> {"meta"}]

Truncate(t) == [do |-> "truncate", table |-> t]
\* INSERT of rows whose foreign keys name the rows in needs.
Put(new, needs)    == [do |-> "insert", rows |-> new, needs |-> needs, strict |-> TRUE]
\* The same with ON CONFLICT.
Upsert(new, needs) == [do |-> "insert", rows |-> new, needs |-> needs, strict |-> FALSE]
Label(p)           == [do |-> "label", profile |-> p]

\* Operators named X_Y are X with the bug Y; the model uses none of them.
Clear_NoEstate ==
  <<Truncate("log"), Truncate("vms"), Truncate("templates"),
    Truncate("users"), Truncate("objects"), Truncate("meta")>>

Clear ==
  <<Truncate("log"), Truncate("vms"), Truncate("templates"), Truncate("estate"),
    Truncate("users"), Truncate("objects"), Truncate("meta")>>

EngineOptions == Upsert({"options"}, {})

\* Permissions of users, objects below what there is, and tags set on it.  The
\* tags themselves are rows of log, which other seeders' TRUNCATEs take with
\* more than the tags, so that need is left out: a run whose tags another
\* seeder cleared just then fails in the code and goes on here.
NestedSamples == Upsert({"nested"}, {"users"})

\* The minimal lab tolerates sample objects that are there, the demos do not.
\* Its one group, snapshot, quota and affinity group, which it inserts between
\* the events and the samples, count as rows of users, labVm and default here.
MinimalFill ==
  <<Put({"users"}, {}), Put({"default"}, {}), Put({"blank"}, {"default"}),
    Put({"labVm"}, {"default", "blank"}), Put({"log"}, {"users", "labVm"}),
    Upsert({"surface"}, {}), EngineOptions, NestedSamples>>

\* A demo over these data centers with these VMs, which one executemany inserts.
DemoFill(centers, demoVms) ==
  <<Put({"users"}, {})>> \o centers
    \o <<Put({"blank"}, {"prod"}),
         Put(demoVms, (UNION {centers[i].rows : i \in DOMAIN centers}) \cup {"blank"}),
         Put({"log"}, {"users"}), Put({"surface"}, {}), EngineOptions, NestedSamples>>

Fill ==
  [minimal |-> MinimalFill,
   small   |-> DemoFill(<<Put({"prod"}, {})>>, {"vms50"}),
   large   |-> DemoFill(<<Put({"prod"}, {}), Put({"stage"}, {})>>, {"vms50", "vms1000"})]

Script(p) == Clear \o Fill[p] \o <<Label(p)>>

\* All the rows of a profile, as one that ran undisturbed leaves them.
Whole(p) == UNION {Fill[p][i].rows : i \in DOMAIN Fill[p]}

-----------------------------------------------------------------------------
Init ==
  /\ rows = {}
  /\ label = None
  /\ phase = [s \in Seeders |-> IF s = Server THEN "down" ELSE "idle"]
  /\ todo = [s \in Seeders |-> <<>>]
  /\ goal = [s \in Seeders |-> None]
  /\ alone = {}
  /\ kills = 0

Begin(s, p, script) ==
  /\ phase' = [phase EXCEPT ![s] = "running"]
  /\ todo' = [todo EXCEPT ![s] = script]
  /\ goal' = [goal EXCEPT ![s] = p]
  /\ alone' = alone \cup {s}
  /\ UNCHANGED <<rows, label, kills>>

Running(s) == phase[s] = "running"

Start_Keeps ==
  /\ phase[Server] = "down"
  /\ IF label \in Profiles
     THEN Begin(Server, "keep", <<>>)
     ELSE Begin(Server, "minimal", Script("minimal"))

\* lifespan: a sized demo is kept and only the engine options are written
\* back; with any other label, or none, the minimal lab is loaded.
Start ==
  /\ phase[Server] = "down"
  /\ Overlap \/ \A s \in Cli : ~Running(s)
  /\ IF label \in Sized
     THEN Begin(Server, "keep", <<Upsert({"options"}, {})>>)
     ELSE Begin(Server, "minimal", Script("minimal"))

RunCli(s) ==
  /\ phase[s] = "idle"
  /\ Overlap \/ ~Running(Server)
  /\ \E p \in Profiles : Begin(s, p, Script(p))

Refused(st) ==
  \/ st.do = "insert" /\ ~(st.needs \subseteq rows)
  \/ st.do = "insert" /\ st.strict /\ st.rows \cap rows # {}
  \/ st.do = "label" /\ label # None

\* The next statement of a seeder commits.
Statement(s) ==
  /\ Running(s) /\ todo[s] # <<>>
  /\ LET st == Head(todo[s]) IN
     /\ ~Refused(st)
     /\ rows' = CASE st.do = "truncate" ->
                       {r \in rows : TableOf[r] \notin Cascade[st.table]}
                  [] st.do = "insert" -> rows \cup st.rows
                  [] st.do = "label" -> rows
     /\ label' = CASE st.do = "label" -> st.profile
                   [] st.do = "truncate" /\ st.table = "meta" -> None
                   [] OTHER -> label
  /\ todo' = [todo EXCEPT ![s] = Tail(@)]
  /\ alone' = alone \cap {s}
  /\ UNCHANGED <<phase, goal, kills>>

\* A process stops; todo, goal and alone keep nothing of its run.
Leave(s, to) ==
  /\ phase' = [phase EXCEPT ![s] = to]
  /\ todo' = [todo EXCEPT ![s] = <<>>]
  /\ goal' = [goal EXCEPT ![s] = None]
  /\ alone' = alone \ {s}
  /\ UNCHANGED <<rows, label>>

\* UniqueViolationError or ForeignKeyViolationError ends the run where it is.
Fail(s) ==
  /\ Running(s) /\ todo[s] # <<>>
  /\ Refused(Head(todo[s]))
  /\ Leave(s, IF s = Server THEN "down" ELSE "failed")
  /\ UNCHANGED kills

Finish(s) ==
  /\ Running(s) /\ todo[s] = <<>>
  /\ Leave(s, IF s = Server THEN "up" ELSE "ended")
  /\ UNCHANGED kills

Kill(s) ==
  /\ kills < MaxKills
  /\ phase[s] \in {"running", "up"}
  /\ Leave(s, IF s = Server THEN "down" ELSE "killed")
  /\ kills' = kills + 1

UiLoad_Alias ==
  /\ phase[Server] = "up"
  /\ rows' = Whole("large") /\ label' = "demo"
  /\ alone' = {}
  /\ UNCHANGED <<phase, todo, goal, kills>>

\* POST /ui/api/demo/load and unload: all or nothing.
UiLoad ==
  /\ phase[Server] = "up"
  /\ \E p \in Profiles : rows' = Whole(p) /\ label' = p
  /\ alone' = {}
  /\ UNCHANGED <<phase, todo, goal, kills>>

Next ==
  \/ Start \/ UiLoad
  \/ \E s \in Cli : RunCli(s)
  \/ \E s \in Seeders : Statement(s) \/ Fail(s) \/ Finish(s) \/ Kill(s)

Spec == Init /\ [][Next]_vars

-----------------------------------------------------------------------------
\* Properties.

\* Every variable has its type.
TypeOK ==
  /\ rows \subseteq Rows
  /\ label \in Profiles \cup {None}
  /\ phase \in [Seeders -> {"down", "idle", "running", "up", "ended", "failed", "killed"}]
  /\ goal \in [Seeders -> Profiles \cup {"keep", None}]
  /\ alone \subseteq {s \in Seeders : Running(s)}
  /\ kills \in 0..MaxKills

\* Whatever killed, failed and interleaved runs left behind, a run that
\* nobody disturbs ends with exactly its profile and its label, and a start
\* that keeps a demo ends with the engine options its handlers need.
SoloSeedIsWhole ==
  [][\A s \in alone : Finish(s) =>
       IF goal[s] = "keep" THEN "options" \in rows
       ELSE rows = Whole(goal[s]) /\ label = goal[s]]_vars

\* What the profile table of docs/seed-profiles.md counts: users, data centers,
\* clusters, hosts and templates.
Counted(set) == {r \in set : TableOf[r] \in {"users", "estate", "templates"}}

\* While the simulator serves and nobody is seeding, the lab holds what the
\* documentation says of the profile its label names.  seed_ovirt of a start
\* and a seed_cli run beside it, each statement of which commits by itself,
\* end with less or with more than that.
LabelTellsContents ==
  /\ phase[Server] = "up"
  /\ \A s \in Cli : ~Running(s)
  /\ label # None
  => Counted(rows) = Counted(Whole(label))

\* "lifespan keeps any of small / large / big / demo across restarts": a start
\* that finds a sized label and meets no other seeder serves that demo.  It
\* trusts the label, which a run that died while clearing has left behind.
KeptDemoIsWhole ==
  [][Finish(Server) /\ goal[Server] = "keep" /\ Server \in alone
       => Counted(rows) = Counted(Whole(label))]_vars
=============================================================================
