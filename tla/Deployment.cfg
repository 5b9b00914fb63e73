SPECIFICATION ChartSpec
CONSTANTS
  Cli = {k1}
  Server = simulator
  None = None
  MaxKills = 2
  Overlap = TRUE
  Migrators = {m1, m2}
  Latest = 2
INVARIANTS
  TypeOK
  ReadyIsMigrated
  ServesPackagedSchema
PROPERTIES
  SoloSeedIsWhole
  ReadyAgain
