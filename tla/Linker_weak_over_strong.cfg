\* A weak definition after a strong one.
SPECIFICATION Spec
CONSTANTS
  Names <- MCNames
  NoName = ""
  GotName = "got"
  Objects = {"lib", "weak"}
  Foreign = {"foreign"}
  Syms <- MCSyms
  Rels <- MCRels
  Prefetched = {"data"}
  PrefetchReads = {TRUE}
  SymbolReads = {TRUE}
  RelReads = {TRUE}
  HostNames = {}
  MaxLoads = 2
PROPERTIES
  DefinesOverWeak
CHECK_DEADLOCK FALSE
