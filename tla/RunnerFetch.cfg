SPECIFICATION Spec
CONSTANTS
  w1 = w1
  w2 = w2
  m1 = m1
  m2 = m2
  s1 = s1
  Workers = {w1, w2}
  Models = {m1}
  Streams = {s1}
  MaxJobs = 2
  MaxRunners = 3
  MaxEdits = 1
CHECK_DEADLOCK FALSE

INVARIANT PullCanBeFetched
