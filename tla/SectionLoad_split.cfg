\* Two sections of code in one object.
SPECIFICATION Spec
CONSTANTS
  Sections <- MCSplit
  Bodies <- MCSplitBodies
  Unit = 4
  GotSize = 8
  Reads = {TRUE}
  MaxLoads = 1
  MaxCuts = 1
INVARIANTS
  SymbolsHold
CHECK_DEADLOCK FALSE
