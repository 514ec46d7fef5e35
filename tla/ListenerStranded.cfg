SPECIFICATION StopSpec
CONSTANTS
  c1 = c1
  c2 = c2
  in1 = in1
  save1 = save1
  gen1 = gen1
  out1 = out1
  out2 = out2
  Conns <- OneConn
  Requests <- OneSlow
  Streaming <- None
  Importing <- None
  Leavers <- OneConn
  SlowReaders <- None
  Ingress <- MCIngress
  Savers <- MCSavers
  Generals <- MCGenerals
  Writers <- MCWriters
  Threads <- OnlyMain
  Signals = TRUE
  Failures = TRUE
  MaxPending = 1
  MaxLane = 1
CHECK_DEADLOCK FALSE
PROPERTIES RunReturns
