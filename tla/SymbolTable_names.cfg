\* Names that fill a reservation, a page and more than a page, on pages of two nodes.
SPECIFICATION FairSpec
CONSTANTS
  Names <- MCNames
  Null = null
  Binds <- MCBinds
  NodeRoom = 2
  PageSize = 24
  HeadSize = 8
  ReserveMin = 8
  HeapPages = 4
  MaxSymbols = 3
INVARIANTS
  TypeOK
PROPERTIES
  ActsAsDirectory
  CallsReturn
