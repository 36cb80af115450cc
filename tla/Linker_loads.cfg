\* Every read may fail, every kind of relocation, objects load() refuses.
SPECIFICATION FairSpec
CONSTANTS
  Names <- MCNames
  NoName = ""
  GotName = "got"
  Objects = {"app", "lib", "bad", "odd", "exotic", "foreign"}
  Foreign = {"foreign"}
  Syms <- MCSyms
  Rels <- MCRels
  Prefetched = {"data"}
  PrefetchReads = {TRUE, FALSE}
  SymbolReads = {TRUE, FALSE}
  RelReads = {TRUE, FALSE}
  HostNames = {"g"}
  MaxLoads = 3
INVARIANTS
  TypeOK
  UniqueNames
  WordsCurrent
  ExportComplete
  ReferencesKept
  RelocatedOnce
PROPERTIES
  FailureAddsNothing
  DefinesOnce
  LoadEnds
CHECK_DEADLOCK FALSE
