SPECIFICATION SaveSpec
CONSTANTS
  c1 = c1
  c2 = c2
  in1 = in1
  save1 = save1
  gen1 = gen1
  out1 = out1
  out2 = out2
  Conns <- TwoConns
  Requests <- SaveMeetsOther
  Streaming <- None
  Importing <- None
  Leavers <- OtherConn
  SlowReaders <- OtherConn
  Ingress <- MCIngress
  Savers <- MCSavers
  Generals <- MCGenerals
  Writers <- TwoWriters
  Threads <- OnlyMain
  Signals = FALSE
  Failures = FALSE
  MaxPending = 1
  MaxLane = 1
CHECK_DEADLOCK FALSE
PROPERTIES SaveAnswered
