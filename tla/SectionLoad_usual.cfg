\* Two loads of an object with a section of code, one of zeros and two of data.
SPECIFICATION Spec
CONSTANTS
  Sections <- MCUsual
  Bodies <- MCUsualBodies
  Unit = 4
  GotSize = 8
  Reads = {TRUE, FALSE}
  MaxLoads = 2
  MaxCuts = 1
INVARIANTS
  TypeOK
  SymbolsHold
  SymbolsUncut
  DataUncut
CHECK_DEADLOCK FALSE
