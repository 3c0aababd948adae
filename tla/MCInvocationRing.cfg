\* Two ids, three requests: every way the two calls can meet.
CONSTANTS
  i1 = i1
  i2 = i2
  c1 = c1
  c2 = c2
  c3 = c3
  None = None
  Wild = Wild
  Ids <- MCIds
  Callbacks <- MCCallbacks
SPECIFICATION RingSpec
INVARIANTS
  HandedOutOnce
  NoResultLost
  SoleAskerServed
PROPERTY ExchangeSpec
\* The environment is finite: every id posted once, every request made once.
CHECK_DEADLOCK FALSE
