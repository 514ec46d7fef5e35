SPECIFICATION FairSpec
CONSTANTS
  p1 = p1
  p2 = p2
  p3 = p3
  s1 = s1
  s2 = s2
  Producers <- MCProducers
  Stoppers <- OneStopper
  MaxPending = 1
  PerProducer = 1
  Calls <- SomeCalls
CHECK_DEADLOCK FALSE
PROPERTIES CallReturns
