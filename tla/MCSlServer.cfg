\* Clients that stay connected until they have a reply: what they get.
CONSTANTS
  c1 = c1
  c2 = c2
  c3 = c3
  a1 = a1
  a2 = a2
  hello = hello
  good = good
  bad = bad
  evil = evil
  fatal = fatal
  w1 = w1
  w2 = w2
  None = None
  Wild = Wild
  Ids <- MCIds
  Callbacks <- ThreeClients
  Addrs <- MCAddrs
  Names <- MCNames
  Codes <- AllCodes
  Outcome <- MCOutcome
  InitialStore <- MCInitialStore
  Workers <- TwoWorkers
  MaxId <- MCMaxId
  Disconnects = FALSE
SPECIFICATION Spec
INVARIANTS
  WaitingInOrder
  OneReply
  RepliesToAskers
PROPERTIES
  LifecycleSpec
  RingUsedAsSpecified
  BlockingRunAnswered
  WaitingResolveAnswered
\* Clients make one request each, so the server comes to rest.
CHECK_DEADLOCK FALSE
