\* Four handles, two files, and a count that reaches its limit.
SPECIFICATION Spec
CONSTANTS
  Handles = {h1, h2, h3, h4}
  Blocks = {b1, b2}
  Null = null
  MaxHooks = 3
INVARIANTS
  TypeOK
  HooksCount
PROPERTIES
  Shares
