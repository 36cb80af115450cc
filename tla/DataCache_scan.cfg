\* The ELF reader: bytes one by one, inside of the file.
SPECIFICATION Spec
CONSTANTS
  FileSize = 6
  Step = 2
  LockMax = 2
  Faults = {TRUE, FALSE}
  Positions = {0, 1, 2, 3, 4, 5}
  Counts = {1}
  ReadLimit = 6
INVARIANTS
  TypeOK
  Coherent
  ScanIntact
PROPERTIES
  Reads
