\* Requests that fit a page each, until malloc fails.
SPECIFICATION FairSpec
CONSTANTS
  PageSize = 40
  HeadSize = 16
  Align = 2
  Bases = {0}
  Requests = {5, 17, 24, 41}
  HeapPages = 2
PROPERTIES
  Returns
