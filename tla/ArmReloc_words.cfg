\* Two words, every kind of relocation, symbols about the limits of the ranges.
SPECIFICATION Spec
CONSTANTS
  Places <- MCPlaces
  Addresses <- MCAddresses
  Base = 536870912
  Words <- MCWords
INVARIANTS
  TypeOK
  CallsLand
  RestKept
CHECK_DEADLOCK FALSE
