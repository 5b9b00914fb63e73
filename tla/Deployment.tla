----------------------------- MODULE Deployment -----------------------------
(***************************************************************************)
(* The seeders of SeedLifecycle on a database that migrators bring up to   *)
(* date first.  The simulator starts only after a migrate_cli has ended    *)
(* well (an init container, or Compose's service_completed_successfully);  *)
(* nothing orders two migrators, of two pods or of a second "docker        *)
(* compose up", and a seed_cli waits for none of them.  A version is one   *)
(* transaction: its DDL and its row of schema_migrations.                  *)
(***************************************************************************)
EXTENDS SeedLifecycle

CONSTANTS
  Migrators, \* the processes that run migrate_cli
  Latest     \* LATEST_SCHEMA_VERSION

ASSUME LatestAssumption == Latest \in Nat \ {0}

VARIABLES
  recorded, \* schema_migrations: version -> its checksum, "none" if no row
  built,    \* the versions whose DDL is in the database
  migrator, \* migrator -> what it is doing
  seen      \* migrator -> the applied versions it knows of

migrationVars == <<recorded, built, migrator, seen>>
allVars == <<vars, migrationVars>>

Versions  == 1..Latest
Checksums == {"none", "packaged", "other"}

Nothing   == [v \in Versions |-> "none"]

\* A new database, or one an earlier build migrated whose first file has been
\* edited since.
InitAll ==
  /\ Init
  /\ \E first \in {"none", "other"} :
       /\ recorded = [v \in Versions |-> IF v = 1 THEN first ELSE "none"]
       /\ built = {v \in Versions : recorded[v] # "none"}
  /\ migrator = [m \in Migrators |-> "down"]
  /\ seen = [m \in Migrators |-> Nothing]

-----------------------------------------------------------------------------
\* migrate_cli.

\* A migrator stops and forgets what it read.
StopMigrator(m, as) ==
  /\ migrator' = [migrator EXCEPT ![m] = as]
  /\ seen' = [seen EXCEPT ![m] = Nothing]

\* It goes on from what it knows to be applied, or has nothing left to do.
Know(m, applied) ==
  IF \A v \in Versions : applied[v] = "packaged"
  THEN StopMigrator(m, "ended")
  ELSE /\ migrator' = [migrator EXCEPT ![m] = "running"]
       /\ seen' = [seen EXCEPT ![m] = applied]

\* CREATE TABLE IF NOT EXISTS schema_migrations, then the SELECT.
ReadApplied(m) ==
  /\ migrator[m] = "down"
  /\ Know(m, recorded)
  /\ UNCHANGED <<vars, recorded, built>>

Pending(m) == {v \in Versions : seen[m][v] = "none"}
Drifted(m) == {v \in Versions : seen[m][v] = "other"}

IsNext_AnyOrder(m, v) == v \in Pending(m) /\ Drifted(m) = {}

\* The loop goes through the packaged versions in order of their file names.
IsNext(m, v) == v \in Pending(m) /\ \A w \in Pending(m) \cup Drifted(m) : v <= w

\* One version, in one transaction.
Apply(m) ==
  /\ migrator[m] = "running"
  /\ \E v \in Versions :
       /\ IsNext(m, v) /\ recorded[v] = "none"
       /\ recorded' = [recorded EXCEPT ![v] = "packaged"]
       /\ built' = built \cup {v}
       /\ Know(m, [seen[m] EXCEPT ![v] = "packaged"])
  /\ UNCHANGED vars

Collide_Waits(m) ==
  /\ migrator[m] = "running"
  /\ \E v \in Versions : IsNext(m, v) /\ recorded[v] # "none"
  /\ UNCHANGED <<vars, migrationVars>>

\* Another migrator was first: the key of schema_migrations refuses the row,
\* the transaction takes its DDL back and the process ends with an error.
Collide(m) ==
  /\ migrator[m] = "running"
  /\ \E v \in Versions : IsNext(m, v) /\ recorded[v] # "none"
  /\ StopMigrator(m, "down")
  /\ UNCHANGED <<vars, recorded, built>>

\* MigrationError: a version applied with another checksum.
Mismatch(m) ==
  /\ migrator[m] = "running"
  /\ \E v \in Drifted(m) : \A w \in Pending(m) : v < w
  /\ StopMigrator(m, "down")
  /\ UNCHANGED <<vars, recorded, built>>

KillMigrator(m) ==
  /\ kills < MaxKills
  /\ migrator[m] = "running"
  /\ StopMigrator(m, "down")
  /\ kills' = kills + 1
  /\ UNCHANGED <<rows, label, phase, todo, goal, alone, recorded, built>>

Migrate(m) ==
  \/ ReadApplied(m) \/ Apply(m) \/ Collide(m) \/ Mismatch(m) \/ KillMigrator(m)

-----------------------------------------------------------------------------
\* The seeders, on the tables there are: the first version creates all of
\* those the seeds fill.
HasTables == 1 \in built

Migrated == \E m \in Migrators : migrator[m] = "ended"

\* Any error while the label is read counts as no label.
StartUnread ==
  /\ phase[Server] = "down"
  /\ Overlap \/ \A s \in Cli : ~Running(s)
  /\ Begin(Server, "minimal", Script("minimal"))

StartMigrated_Ungated == (Start \/ StartUnread) /\ UNCHANGED migrationVars

StartMigrated == Migrated /\ (Start \/ StartUnread) /\ UNCHANGED migrationVars

StatementOnTables(s) == Running(s) /\ HasTables /\ Statement(s)

\* UndefinedTableError ends the run.
FailNoTables(s) ==
  /\ Running(s) /\ ~HasTables
  /\ todo[s] # <<>>
  /\ Leave(s, IF s = Server THEN "down" ELSE "failed")
  /\ UNCHANGED kills

Seed(s) == StatementOnTables(s) \/ (HasTables /\ Fail(s)) \/ FailNoTables(s) \/ Finish(s)

NextAll ==
  \/ \E m \in Migrators : Migrate(m)
  \/ StartMigrated
  \/ /\ \/ UiLoad
        \/ \E s \in Cli : RunCli(s)
        \/ \E s \in Seeders : Seed(s) \/ Kill(s)
     /\ UNCHANGED migrationVars

SpecAll == InitAll /\ [][NextAll]_allVars

\* What the Helm chart adds: a pod's containers are restarted whenever they
\* end (restartPolicy Always, the default, is all a Deployment allows), so a
\* migrator that fails, an init container, is started again, and so is the
\* simulator, whose uvicorn runs without --reload and exits when the lifespan
\* fails.  docker-compose.yml promises neither: its migrate has restart "no",
\* and its uvicorn --reload stays up over a lifespan that failed.
ChartFairness ==
  /\ \A m \in Migrators : WF_allVars(Migrate(m))
  /\ WF_allVars(StartMigrated)
  /\ \A s \in Seeders : WF_allVars(Seed(s) /\ UNCHANGED migrationVars)

ChartSpec == SpecAll /\ ChartFairness

-----------------------------------------------------------------------------
\* Properties.

\* The query of is_ready, which /health/ready answers by: the highest version
\* alone.
IsReady == recorded[Latest] # "none"

\* The answer of /health/ready.
Ready == phase[Server] = "up" /\ IsReady

\* Two migrators that read the applied versions before either applied one,
\* and die anywhere, leave no version recorded without its DDL, none built
\* and not recorded, and no gap below the highest one, which is all that
\* /health/ready looks at.
ReadyIsMigrated ==
  /\ built = {v \in Versions : recorded[v] # "none"}
  /\ IsReady => built = Versions

\* The simulator serves only the schema it was packaged with, however many
\* migrators raced, and never one whose applied files were edited since.
ServesPackagedSchema ==
  phase[Server] = "up" => built = Versions /\ \A v \in Versions : recorded[v] = "packaged"

\* Deployed by the chart, and unless an applied file was edited, every migrator
\* ends well and the simulator ends up serving, and ready, for good, whoever
\* raced, failed and died on the way and whatever debris that left.
ReadyAgain ==
  recorded[1] # "other" =>
    <>[](Ready /\ \A m \in Migrators : migrator[m] = "ended")
=============================================================================
