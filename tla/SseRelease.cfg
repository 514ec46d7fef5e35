SPECIFICATION Spec
CONSTANTS
  Kinds = {"run"}
  Size <- MCSize
  MaxPendingBytes = 2
  MaxFrames = 2
  MaxBatch = 2
  MaxBeats = 1
  MaxPolls = 2
CHECK_DEADLOCK FALSE
INVARIANT ReleaseUnshared
