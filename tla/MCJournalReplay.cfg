SPECIFICATION ReplaySpec
CONSTANTS
  small = small
  big = big
  huge = huge
  r1 = r1
  Events <- MCEvents
  Readers <- MCReaders
  FrameSize <- MCFrameSize
  Capacity = 3
  ByteLimit = 4
  MaxLog = 5
  MaxEpoch = 2
CHECK_DEADLOCK FALSE
INVARIANTS WindowIsSuffix WindowIsMaximal ReplayExact
PROPERTIES NoForeignReplay
