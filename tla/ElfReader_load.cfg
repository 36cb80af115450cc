\* One object is loaded, any read of it failing or going amiss.
SPECIFICATION Spec
CONSTANTS
  Magics = {"elf", "archive"}
  Idents = {"elf32", "elf64", "odd"}
  Ehdrs <- MCEhdrs
  MaxSection = 5
  Shdrs <- MCShdrs
  Ends <- MCEnds
  JunkEhdrs <- MCJunkEhdrs
  JunkShdrs <- MCJunkShdrs
  JunkNames <- MCJunkNames
  Moves = {9}
  Capacity = 4
  FileSize = 9
  Step = 2
  LockMax = 1
  Faults = {TRUE, FALSE}
INVARIANTS
  TypeOK
  NameRight
  RefusedForCause
  Collected
PROPERTIES
  LoadEnds
CHECK_DEADLOCK FALSE
