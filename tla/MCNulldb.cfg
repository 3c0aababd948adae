\* The process may crash, and does nothing then.
CONSTANTS
  hello = hello
  age = age
  d1 = d1
  d2 = d2
  r1 = r1
  r2 = r2
  None = None
  Null = Null
  Names <- MCNames
  Defs <- MCDefs
  Runs <- MCRuns
SPECIFICATION Spec
CHECK_DEADLOCK FALSE
INVARIANTS
  NullInv
PROPERTIES
  OnlyChangesKill
  IsMapUntilHit
