\* A database that works, and later one that may fail at any call.
CONSTANTS
  hello = hello
  age = age
  d1 = d1
  d2 = d2
  r1 = r1
  r2 = r2
  None = None
  Names <- MCNames
  Defs <- MCDefs
  Runs <- MCRuns
SPECIFICATION Spec
INVARIANTS
  StoreInv
  KeptAsTold
PROPERTIES
  ImplementsMap
