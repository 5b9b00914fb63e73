SPECIFICATION Spec
CONSTANTS
  Cli = {k1}
  Server = simulator
  None = None
  MaxKills = 0
  Overlap = TRUE
INVARIANT LabelTellsContents
