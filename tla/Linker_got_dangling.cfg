\* A function that reaches a static buffer through the offset table.
SPECIFICATION Spec
CONSTANTS
  Names <- MCNames
  NoName = ""
  GotName = "got"
  Objects = {"static"}
  Foreign = {"foreign"}
  Syms <- MCSyms
  Rels <- MCRels
  Prefetched = {"data"}
  PrefetchReads = {TRUE}
  SymbolReads = {TRUE}
  RelReads = {TRUE}
  HostNames = {}
  MaxLoads = 2
INVARIANTS
  GotOutlives
CHECK_DEADLOCK FALSE
