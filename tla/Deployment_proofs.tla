-------------------------- MODULE Deployment_proofs --------------------------
(***************************************************************************)
(* The schema is whole whenever the simulator serves, for any migrators,   *)
(* any number of versions, any seeders and any kills.  The argument does   *)
(* not need what a migrator will do next, only that what it knows is still *)
(* recorded when it acts on it.                                            *)
(***************************************************************************)
EXTENDS Deployment, SeedLifecycle_proofs

-----------------------------------------------------------------------------
\* The inductive invariant.

\* The types of the variables that the migrations and the start look at.
MigrationTypes ==
  /\ recorded \in [Versions -> Checksums]
  /\ built \subseteq Versions
  /\ migrator \in [Migrators -> {"down", "running", "ended"}]
  /\ seen \in [Migrators -> [Versions -> Checksums]]
  /\ phase \in [Seeders -> {"down", "idle", "running", "up", "ended", "failed", "killed"}]

\* A version is recorded exactly when its DDL is there.
BuiltIsRecorded == built = {v \in Versions : recorded[v] # "none"}

\* No version is recorded above one that is not.
NoGap ==
  \A v, w \in Versions : recorded[v] # "none" /\ w < v => recorded[w] # "none"

\* What a migrator read is never taken back, though it may be incomplete.
SeenIsRecorded ==
  \A m \in Migrators, v \in Versions :
    seen[m][v] # "none" => recorded[v] = seen[m][v]

\* A migrator ends well only on the packaged schema.
EndedIsDone ==
  \A m \in Migrators : migrator[m] = "ended" =>
    \A v \in Versions : recorded[v] = "packaged"

\* The simulator runs only behind a migrator that ended well.
StartedIsMigrated == phase[Server] \in {"running", "up"} => Migrated

IInv ==
  /\ MigrationTypes
  /\ BuiltIsRecorded
  /\ NoGap
  /\ SeenIsRecorded
  /\ EndedIsDone
  /\ StartedIsMigrated

-----------------------------------------------------------------------------
\* The versions are numbers in order, the last among them.
LEMMA VersionFacts ==
  /\ Versions \subseteq Nat
  /\ Latest \in Versions
  /\ \A v \in Versions : v <= Latest
BY LatestAssumption DEF Versions

\* A new or an older database satisfies it: at most the first version is there.
LEMMA InitInvariant == InitAll => IInv
<1> SUFFICES ASSUME InitAll PROVE IInv
  OBVIOUS
<1> PICK first \in {"none", "other"} :
      recorded = [v \in Versions |-> IF v = 1 THEN first ELSE "none"]
  BY DEF InitAll
<1>1. MigrationTypes
  <2>1. recorded \in [Versions -> Checksums]
    BY DEF Checksums
  <2>2. built \subseteq Versions
    BY DEF InitAll
  <2>3. migrator \in [Migrators -> {"down", "running", "ended"}]
    BY DEF InitAll
  <2>4. seen \in [Migrators -> [Versions -> Checksums]]
    BY DEF InitAll, Nothing, Checksums
  <2>5. phase \in [Seeders -> {"down", "idle", "running", "up", "ended", "failed", "killed"}]
    BY DEF InitAll, Init
  <2> QED BY <2>1, <2>2, <2>3, <2>4, <2>5 DEF MigrationTypes
<1>2. BuiltIsRecorded
  BY DEF InitAll, BuiltIsRecorded
<1>3. NoGap
  BY VersionFacts DEF NoGap, Versions
<1>4. SeenIsRecorded
  BY DEF InitAll, SeenIsRecorded, Nothing
<1>5. EndedIsDone
  BY DEF InitAll, EndedIsDone
<1>6. StartedIsMigrated
  BY DEF InitAll, Init, StartedIsMigrated, Seeders
<1> QED BY <1>1, <1>2, <1>3, <1>4, <1>5, <1>6 DEF IInv

-----------------------------------------------------------------------------
\* The steps of a migrator.

\* A migrator that stops without having ended forgets; the rest stands.
LEMMA StopPreserves ==
  ASSUME IInv, NEW m \in Migrators, migrator[m] # "ended",
         StopMigrator(m, "down"), UNCHANGED <<recorded, built, phase>>
  PROVE  IInv'
<1>1. /\ migrator' = [migrator EXCEPT ![m] = "down"]
      /\ seen' = [seen EXCEPT ![m] = Nothing]
  BY DEF StopMigrator
<1>2. Nothing \in [Versions -> Checksums] /\ \A v \in Versions : Nothing[v] = "none"
  BY DEF Nothing, Checksums
<1>3. MigrationTypes'
  BY <1>1, <1>2 DEF IInv, MigrationTypes, Versions
<1>4. BuiltIsRecorded' /\ NoGap'
  BY DEF IInv, BuiltIsRecorded, NoGap, Versions
<1>5. SeenIsRecorded'
  BY <1>1, <1>2 DEF IInv, MigrationTypes, SeenIsRecorded, Versions
<1>6. EndedIsDone'
  BY <1>1 DEF IInv, MigrationTypes, EndedIsDone, Versions
<1>7. StartedIsMigrated'
  BY <1>1 DEF IInv, MigrationTypes, StartedIsMigrated, Migrated
<1> QED BY <1>3, <1>4, <1>5, <1>6, <1>7 DEF IInv

\* Knowing what is recorded keeps the rest, whether it ends the migrator or not.
LEMMA KnowPreserves ==
  ASSUME MigrationTypes, StartedIsMigrated, SeenIsRecorded, EndedIsDone,
         NEW m \in Migrators, migrator[m] # "ended",
         NEW applied \in [Versions -> Checksums], Know(m, applied),
         recorded' \in [Versions -> Checksums],
         \A v \in Versions : recorded[v] # "none" => recorded'[v] = recorded[v],
         \A v \in Versions : applied[v] # "none" => recorded'[v] = applied[v],
         UNCHANGED phase
  PROVE  /\ migrator' \in [Migrators -> {"down", "running", "ended"}]
         /\ seen' \in [Migrators -> [Versions -> Checksums]]
         /\ SeenIsRecorded'
         /\ EndedIsDone'
         /\ StartedIsMigrated'
<1>1. Nothing \in [Versions -> Checksums] /\ \A v \in Versions : Nothing[v] = "none"
  BY DEF Nothing, Checksums
<1>2. PICK now \in {"running", "ended"}, known \in {Nothing, applied} :
        /\ migrator' = [migrator EXCEPT ![m] = now]
        /\ seen' = [seen EXCEPT ![m] = known]
        /\ now = "ended" => \A v \in Versions : applied[v] = "packaged"
  BY DEF Know, StopMigrator
<1>3. known \in [Versions -> Checksums]
  BY <1>1
<1>4. migrator' \in [Migrators -> {"down", "running", "ended"}]
  BY <1>2 DEF MigrationTypes
<1>5. seen' \in [Migrators -> [Versions -> Checksums]]
  BY <1>2, <1>3 DEF MigrationTypes
<1>6. SeenIsRecorded'
  <2> SUFFICES ASSUME NEW n \in Migrators, NEW v \in Versions, seen'[n][v] # "none"
               PROVE  recorded'[v] = seen'[n][v]
    BY DEF SeenIsRecorded, Versions
  <2>1. CASE n = m
    BY <2>1, <1>1, <1>2 DEF MigrationTypes
  <2>2. CASE n # m
    BY <2>2, <1>2 DEF MigrationTypes, SeenIsRecorded
  <2> QED BY <2>1, <2>2
<1>7. EndedIsDone'
  <2> SUFFICES ASSUME NEW n \in Migrators, migrator'[n] = "ended", NEW v \in Versions
               PROVE  recorded'[v] = "packaged"
    BY DEF EndedIsDone, Versions
  <2>1. CASE n = m
    BY <2>1, <1>2 DEF MigrationTypes
  <2>2. CASE n # m
    BY <2>2, <1>2 DEF MigrationTypes, EndedIsDone
  <2> QED BY <2>1, <2>2
<1>8. StartedIsMigrated'
  BY <1>2 DEF MigrationTypes, StartedIsMigrated, Migrated
<1> QED BY <1>4, <1>5, <1>6, <1>7, <1>8

\* What a migrator reads is what is recorded.
LEMMA ReadPreserves ==
  ASSUME IInv, NEW m \in Migrators, ReadApplied(m)
  PROVE  IInv'
<1>1. UNCHANGED <<recorded, built, phase>>
  BY DEF ReadApplied, vars
<1>2. /\ migrator' \in [Migrators -> {"down", "running", "ended"}]
      /\ seen' \in [Migrators -> [Versions -> Checksums]]
      /\ SeenIsRecorded' /\ EndedIsDone' /\ StartedIsMigrated'
  <2>1. migrator[m] # "ended" /\ Know(m, recorded)
    BY DEF ReadApplied
  <2>2. recorded \in [Versions -> Checksums] /\ recorded' = recorded
    BY <1>1 DEF IInv, MigrationTypes
  <2> QED BY <1>1, <2>1, <2>2, KnowPreserves DEF IInv
<1>3. MigrationTypes'
  BY <1>1, <1>2 DEF IInv, MigrationTypes, Versions, Seeders
<1>4. BuiltIsRecorded' /\ NoGap'
  BY <1>1 DEF IInv, BuiltIsRecorded, NoGap, Versions
<1> QED BY <1>2, <1>3, <1>4 DEF IInv

\* The next version of a migrator is above recorded ones only, however old
\* its reading: what it misses of it can only have grown.
LEMMA NextIsAboveRecorded ==
  ASSUME IInv, NEW m \in Migrators, NEW v \in Versions, IsNext(m, v)
  PROVE  \A w \in Versions : w < v => recorded[w] # "none"
<1> SUFFICES ASSUME NEW w \in Versions, w < v PROVE recorded[w] # "none"
  OBVIOUS
<1>1. w \notin Pending(m)
  BY VersionFacts DEF IsNext
<1>2. seen[m][w] # "none"
  BY <1>1 DEF Pending
<1> QED BY <1>2 DEF IInv, SeenIsRecorded

\* A version that is applied extends the recorded ones without a gap.
LEMMA ApplyPreserves ==
  ASSUME IInv, NEW m \in Migrators, Apply(m)
  PROVE  IInv'
<1>1. PICK v \in Versions :
        /\ IsNext(m, v) /\ recorded[v] = "none"
        /\ recorded' = [recorded EXCEPT ![v] = "packaged"]
        /\ built' = built \cup {v}
        /\ Know(m, [seen[m] EXCEPT ![v] = "packaged"])
  BY DEF Apply
<1>2. UNCHANGED phase
  BY DEF Apply, vars
<1>3. /\ recorded' \in [Versions -> Checksums]
      /\ recorded'[v] = "packaged"
      /\ \A w \in Versions : w # v => recorded'[w] = recorded[w]
  BY <1>1 DEF IInv, MigrationTypes, Checksums
<1>4. /\ migrator' \in [Migrators -> {"down", "running", "ended"}]
      /\ seen' \in [Migrators -> [Versions -> Checksums]]
      /\ SeenIsRecorded' /\ EndedIsDone' /\ StartedIsMigrated'
  <2> DEFINE applied == [seen[m] EXCEPT ![v] = "packaged"]
  <2>1. /\ applied \in [Versions -> Checksums]
        /\ applied[v] = "packaged"
        /\ \A w \in Versions : w # v => applied[w] = seen[m][w]
    BY DEF IInv, MigrationTypes, Checksums
  <2>2. migrator[m] # "ended" /\ Know(m, applied)
    BY <1>1 DEF Apply
  <2> HIDE DEF applied
  <2>3. \A w \in Versions : recorded[w] # "none" => recorded'[w] = recorded[w]
    BY <1>1, <1>3
  <2>4. \A w \in Versions : applied[w] # "none" => recorded'[w] = applied[w]
    BY <1>3, <2>1 DEF IInv, SeenIsRecorded
  <2> QED BY <1>2, <1>3, <2>1, <2>2, <2>3, <2>4, KnowPreserves DEF IInv
<1>5. MigrationTypes'
  BY <1>1, <1>2, <1>3, <1>4 DEF IInv, MigrationTypes, Versions, Seeders
<1>6. BuiltIsRecorded'
  BY <1>1, <1>3 DEF IInv, BuiltIsRecorded, Versions
<1>7. NoGap'
  <2> SUFFICES ASSUME NEW u \in Versions, NEW w \in Versions, recorded'[u] # "none", w < u
               PROVE  recorded'[w] # "none"
    BY DEF NoGap, Versions
  <2>1. CASE w = v
    BY <2>1, <1>3
  <2>2. CASE w # v /\ u = v
    BY <2>2, <1>1, <1>3, NextIsAboveRecorded
  <2>3. CASE w # v /\ u # v
    BY <2>3, <1>3 DEF IInv, NoGap
  <2> QED BY <2>1, <2>2, <2>3
<1> QED BY <1>4, <1>5, <1>6, <1>7 DEF IInv

\* Every step of migrate_cli.
LEMMA MigratePreserves ==
  ASSUME IInv, NEW m \in Migrators, Migrate(m)
  PROVE  IInv'
<1>1. CASE ReadApplied(m)
  BY <1>1, ReadPreserves
<1>2. CASE Apply(m)
  BY <1>2, ApplyPreserves
<1>3. CASE Collide(m)
  <2>1. /\ migrator[m] # "ended" /\ StopMigrator(m, "down")
        /\ UNCHANGED <<recorded, built, phase>>
    BY <1>3 DEF Collide, vars
  <2> QED BY <2>1, StopPreserves
<1>4. CASE Mismatch(m)
  <2>1. /\ migrator[m] # "ended" /\ StopMigrator(m, "down")
        /\ UNCHANGED <<recorded, built, phase>>
    BY <1>4 DEF Mismatch, vars
  <2> QED BY <2>1, StopPreserves
<1>5. CASE KillMigrator(m)
  <2>1. /\ migrator[m] # "ended" /\ StopMigrator(m, "down")
        /\ UNCHANGED <<recorded, built, phase>>
    BY <1>5 DEF KillMigrator
  <2> QED BY <2>1, StopPreserves
<1> QED BY <1>1, <1>2, <1>3, <1>4, <1>5 DEF Migrate

-----------------------------------------------------------------------------
\* The steps of the seeders, which leave the migrations alone.

\* All that the invariant asks of them: to start the simulator only once a
\* migrator has ended well.
LEMMA SeedersPreserve ==
  ASSUME IInv, UNCHANGED migrationVars,
         phase' \in [Seeders -> {"down", "idle", "running", "up", "ended", "failed", "killed"}],
         phase'[Server] \in {"running", "up"} =>
           phase[Server] \in {"running", "up"} \/ Migrated
  PROVE  IInv'
<1>1. UNCHANGED <<recorded, built, migrator, seen>>
  BY DEF migrationVars
<1>2. MigrationTypes'
  BY <1>1 DEF IInv, MigrationTypes, Versions, Seeders
<1>3. BuiltIsRecorded' /\ NoGap' /\ SeenIsRecorded' /\ EndedIsDone'
  BY <1>1 DEF IInv, BuiltIsRecorded, NoGap, SeenIsRecorded, EndedIsDone, Versions
<1>4. StartedIsMigrated'
  BY <1>1 DEF IInv, StartedIsMigrated, Migrated
<1> QED BY <1>2, <1>3, <1>4 DEF IInv

\* The simulator starts behind its gate.
LEMMA StartPreserves ==
  ASSUME IInv, StartMigrated
  PROVE  IInv'
<1>1. phase' = [phase EXCEPT ![Server] = "running"]
  BY DEF StartMigrated, Start, StartUnread, Begin
<1>2. Migrated /\ UNCHANGED migrationVars
  BY DEF StartMigrated
<1>3. phase' \in [Seeders -> {"down", "idle", "running", "up", "ended", "failed", "killed"}]
  BY <1>1 DEF IInv, MigrationTypes
<1> QED BY <1>2, <1>3, SeedersPreserve

\* A seed_cli is not the simulator.
LEMMA RunCliPreserves ==
  ASSUME IInv, NEW s \in Cli, RunCli(s), UNCHANGED migrationVars
  PROVE  IInv'
<1>1. phase' = [phase EXCEPT ![s] = "running"]
  BY DEF RunCli, Begin
<1>2. s \in Seeders /\ s # Server
  BY ServerAssumption DEF Seeders
<1>3. phase' \in [Seeders -> {"down", "idle", "running", "up", "ended", "failed", "killed"}]
  BY <1>1 DEF IInv, MigrationTypes
<1>4. phase'[Server] = phase[Server]
  BY <1>1, <1>2 DEF IInv, MigrationTypes
<1> QED BY <1>3, <1>4, SeedersPreserve

\* A seeder that leaves was running or up, so nothing starts by it.
LEMMA LeavePreserves ==
  ASSUME IInv, NEW s \in Seeders, UNCHANGED migrationVars,
         phase[s] \in {"running", "up"},
         NEW to \in {"down", "up", "ended", "failed", "killed"}, Leave(s, to)
  PROVE  IInv'
<1>1. phase' = [phase EXCEPT ![s] = to]
  BY DEF Leave
<1>2. phase' \in [Seeders -> {"down", "idle", "running", "up", "ended", "failed", "killed"}]
  BY <1>1 DEF IInv, MigrationTypes
<1>3. phase'[Server] \in {"running", "up"} => phase[Server] \in {"running", "up"}
  BY <1>1 DEF IInv, MigrationTypes, Seeders
<1> QED BY <1>2, <1>3, SeedersPreserve

\* A statement, a refusal, the missing tables and the end of a run.
LEMMA SeedPreserves ==
  ASSUME IInv, NEW s \in Seeders, Seed(s), UNCHANGED migrationVars
  PROVE  IInv'
<1>1. CASE StatementOnTables(s)
  <2>1. UNCHANGED phase
    BY <1>1 DEF StatementOnTables, Statement
  <2> QED BY <2>1, SeedersPreserve DEF IInv, MigrationTypes
<1>2. CASE Fail(s)
  BY <1>2, LeavePreserves DEF Fail, Running
<1>3. CASE FailNoTables(s)
  BY <1>3, LeavePreserves DEF FailNoTables, Running
<1>4. CASE Finish(s)
  BY <1>4, LeavePreserves DEF Finish, Running
<1> QED BY <1>1, <1>2, <1>3, <1>4 DEF Seed

-----------------------------------------------------------------------------
\* Every step of the deployment preserves the invariant.
LEMMA StepInvariant == IInv /\ [NextAll]_allVars => IInv'
<1> SUFFICES ASSUME IInv, [NextAll]_allVars PROVE IInv'
  OBVIOUS
<1>1. CASE \E m \in Migrators : Migrate(m)
  BY <1>1, MigratePreserves
<1>2. CASE StartMigrated
  BY <1>2, StartPreserves
<1>3. CASE UiLoad /\ UNCHANGED migrationVars
  <2>1. UNCHANGED phase
    BY <1>3 DEF UiLoad
  <2> QED BY <1>3, <2>1, SeedersPreserve DEF IInv, MigrationTypes
<1>4. CASE (\E s \in Cli : RunCli(s)) /\ UNCHANGED migrationVars
  BY <1>4, RunCliPreserves
<1>5. ASSUME NEW s \in Seeders, Seed(s), UNCHANGED migrationVars
      PROVE  IInv'
  BY <1>5, SeedPreserves
<1>6. ASSUME NEW s \in Seeders, Kill(s), UNCHANGED migrationVars
      PROVE  IInv'
  BY <1>6, LeavePreserves DEF Kill
<1>7. CASE UNCHANGED allVars
  <2>1. UNCHANGED migrationVars /\ UNCHANGED phase
    BY <1>7 DEF allVars, vars
  <2> QED BY <2>1, SeedersPreserve DEF IInv, MigrationTypes
<1> QED BY <1>1, <1>2, <1>3, <1>4, <1>5, <1>6, <1>7 DEF NextAll

\* The invariant holds of every deployment.
THEOREM Invariance == SpecAll => []IInv
<1> QED BY InitInvariant, StepInvariant, PTL DEF SpecAll

\* However many migrators raced, failed and died, the versions recorded are
\* the versions built, and /health/ready, which looks only at the highest,
\* never takes a partly migrated database for a whole one.
THEOREM SchemaReady == SpecAll => []ReadyIsMigrated
<1>1. IInv => ReadyIsMigrated
  <2> SUFFICES ASSUME IInv PROVE ReadyIsMigrated
    OBVIOUS
  <2>1. built = {v \in Versions : recorded[v] # "none"}
    BY DEF IInv, BuiltIsRecorded
  <2>2. ASSUME IsReady PROVE built = Versions
    <3>1. \A v \in Versions : v # Latest => v < Latest
      BY VersionFacts
    <3>2. \A v \in Versions : recorded[v] # "none"
      BY <2>2, <3>1, VersionFacts DEF IInv, NoGap, IsReady
    <3> QED BY <2>1, <3>2
  <2> QED BY <2>1, <2>2 DEF ReadyIsMigrated
<1> QED BY <1>1, Invariance, PTL

\* The simulator serves only the packaged schema, all of it: the gate before
\* its start is enough, whoever else migrates meanwhile.
THEOREM PackagedSchemaServed == SpecAll => []ServesPackagedSchema
<1>1. IInv => ServesPackagedSchema
  <2> SUFFICES ASSUME IInv, phase[Server] = "up"
               PROVE  built = Versions /\ \A v \in Versions : recorded[v] = "packaged"
    BY DEF ServesPackagedSchema
  <2>1. PICK m \in Migrators : migrator[m] = "ended"
    BY DEF IInv, StartedIsMigrated, Migrated
  <2>2. \A v \in Versions : recorded[v] = "packaged"
    BY <2>1 DEF IInv, EndedIsDone
  <2> QED BY <2>2 DEF IInv, BuiltIsRecorded
<1> QED BY <1>1, Invariance, PTL

-----------------------------------------------------------------------------
\* What SeedLifecycle_proofs shows of the seeders holds of a deployment too.

\* Migrators change no seed row; a start that cannot read the label begins the
\* minimal lab, and a database without tables ends a run.
LEMMA DeploymentKeepsSeed ==
  ASSUME SeedInv, NextAll
  PROVE  SeedInv'
<1>1. CASE \E m \in Migrators : Migrate(m)
  <2>1. PICK m \in Migrators : Migrate(m)
    BY <1>1
  <2>2. UNCHANGED <<rows, label, phase, todo, goal, alone>>
    BY <2>1 DEF Migrate, ReadApplied, Apply, Collide, Mismatch, KillMigrator, vars
  <2>3. kills' \in 0..MaxKills
    BY <2>1, MaxKillsAssumption DEF Migrate, ReadApplied, Apply, Collide, Mismatch,
       KillMigrator, vars, SeedInv, TypeOK
  <2> QED BY <2>2, <2>3, OthersKeepSeed
<1>2. CASE StartMigrated
  <2>1. CASE Start
    BY <2>1, SeedStepKeeps DEF Next
  <2>2. CASE StartUnread
    <3>1. Server \in Seeders /\ phase[Server] # "running"
      BY <2>2 DEF StartUnread, Seeders
    <3>2. Begin(Server, "minimal", Script("minimal")) /\ "minimal" \in Profiles
      BY <2>2 DEF StartUnread, Profiles
    <3> QED BY <3>1, <3>2, BeginKeepsSeed
  <2> QED BY <1>2, <2>1, <2>2 DEF StartMigrated
<1>3. CASE UiLoad \/ (\E s \in Cli : RunCli(s)) \/ (\E s \in Seeders : Kill(s))
  BY <1>3, SeedStepKeeps DEF Next
<1>4. ASSUME NEW s \in Seeders, Seed(s) PROVE SeedInv'
  <2>1. CASE Statement(s) \/ Fail(s) \/ Finish(s)
    BY <2>1, SeedStepKeeps DEF Next
  <2>2. CASE FailNoTables(s)
    <3>1. kills' \in 0..MaxKills
      BY <2>2 DEF FailNoTables, SeedInv, TypeOK
    <3> QED BY <2>2, <3>1, LeaveKeepsSeed DEF FailNoTables
  <2> QED BY <1>4, <2>1, <2>2 DEF Seed, StatementOnTables
<1> QED BY <1>1, <1>2, <1>3, <1>4 DEF NextAll

\* What is known of the seeders holds throughout every deployment.
THEOREM SeedersInvariance == SpecAll => []SeedInv
<1>1. InitAll => SeedInv
  BY SeedStarts DEF InitAll
<1>2. SeedInv /\ [NextAll]_allVars => SeedInv'
  <2>1. ASSUME SeedInv, UNCHANGED allVars PROVE SeedInv'
    <3>1. kills' \in 0..MaxKills
      BY <2>1 DEF allVars, vars, SeedInv, TypeOK
    <3> QED BY <2>1, <3>1, OthersKeepSeed DEF allVars, vars
  <2> QED BY <2>1, DeploymentKeepsSeed
<1> QED BY <1>1, <1>2, PTL DEF SpecAll

\* Every variable of the seeders has its type.
THEOREM SeedersHaveTypes == SpecAll => []TypeOK
<1>1. SeedInv => TypeOK
  BY DEF SeedInv
<1> QED BY <1>1, SeedersInvariance, PTL

\* Beside any migrators, on a database with or without tables, a run nobody
\* disturbs ends with exactly its profile and its label.
THEOREM DeployedSeedsAreWhole == SpecAll => SoloSeedIsWhole
<1>1. SeedInv => \A s \in alone : Finish(s) =>
                   IF goal[s] = "keep" THEN "options" \in rows
                   ELSE rows = Whole(goal[s]) /\ label = goal[s]
  BY FinishedIsWhole
<1> QED BY <1>1, SeedersInvariance, PTL DEF SoloSeedIsWhole
=============================================================================
