SPECIFICATION Spec
CONSTANTS
  r1 = r1
  o1 = o1
  o2 = o2
  c1 = c1
  c2 = c2
  Runs = {r1}
  Others = {o1}
  Clients = {c1}
  Capacity = 3
  ByteLimit = 100
  FrameSize <- UnitSize
  MaxRetained = 1
  MaxTries = 2
  MaxOther = 1
  MaxClock = 1
  MaxFaults = 2
  MaxRestarts = 1
CHECK_DEADLOCK FALSE
INVARIANTS EndAgreesWithRow NoSilentGap StoredIsStreamed
PROPERTY SubscriberLetGo
