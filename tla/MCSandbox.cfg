\* Runs on two threads: limits, errors, plugin calls.
CONSTANTS
  w1 = w1
  w2 = w2
  None = None
  Threads <- MCThreads
SPECIFICATION Spec
INVARIANTS
  OneCaller
  SandboxInv
PROPERTIES
  LostForGood
  OnlyMutexOrFinalizersDelay
\* A lost mutex and a dead process stop everything.
CHECK_DEADLOCK FALSE
