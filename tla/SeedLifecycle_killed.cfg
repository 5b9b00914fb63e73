SPECIFICATION Spec
CONSTANTS
  Cli = {k1}
  Server = simulator
  None = None
  MaxKills = 2
  Overlap = FALSE
PROPERTY KeptDemoIsWhole
