CONSTANTS
  Kinds <- MCKinds
  MaxRequests = 2
  MaxHead = 2
SPECIFICATION Spec
INVARIANTS
  HandlersSeeTheirRequest
  RepliesInOrder
PROPERTIES
  GracefulClose
  StayingClientIsAnswered
CHECK_DEADLOCK FALSE
