\* The same instance, for the statement at README.md:130.
CONSTANTS
  w1 = w1
  w2 = w2
  None = None
  Threads <- MCThreads
SPECIFICATION TameSpec
PROPERTY TimeLimitHolds
\* A lost mutex and a dead process stop everything.
CHECK_DEADLOCK FALSE
