SPECIFICATION FairSpec
CONSTANTS
  Kinds = {"run", "feed"}
  Size <- MCSize
  MaxPendingBytes = 2
  MaxFrames = 2
  MaxBatch = 2
  MaxBeats = 1
  MaxPolls = 2
CHECK_DEADLOCK FALSE
INVARIANTS DeliveredInOrder CompleteUnlessBroken OnePollChain
PROPERTY EndsQuiet
