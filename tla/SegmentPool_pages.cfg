\* An allocator whose pages start anywhere below an 8 byte boundary.
SPECIFICATION FairSpec
CONSTANTS
  PageSize = 40
  HeadSize = 16
  Align = 3
  Bases = {0, 3, 4}
  Requests = {5, 17, 24, 41}
  HeapPages = 3
INVARIANTS
  TypeOK
  BlocksDisjoint
  TableFindsBlock
  BlocksAligned
  EntryLocatesBlock
PROPERTIES
  TableStable
  ActsAsTable
  ReturnsWithRoom
