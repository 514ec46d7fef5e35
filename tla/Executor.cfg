SPECIFICATION FairSpec
CONSTANTS
  p1 = p1
  p2 = p2
  p3 = p3
  s1 = s1
  s2 = s2
  Producers <- MCProducers
  Stoppers <- TwoStoppers
  MaxPending = 2
  PerProducer = 1
  Calls <- SomeCalls
CHECK_DEADLOCK FALSE
INVARIANTS NoLostWakeup DrainedAtExit FirstStopJoins
PROPERTIES RunsEachOnceInOrder SubmittersAndStoppersReturn
