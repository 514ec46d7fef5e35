SPECIFICATION FairSpec
CONSTANTS
  proj = proj
  cardRow = cardRow
  projRow = projRow
  kProject = kProject
  kCard = kCard
  c1 = c1
  Rows <- MCRows
  Projects <- MCProjects
  Keys <- MCKeys
  KeyOf <- MCKeyOf
  ProjectRow <- MCProjectRow
  ProjectOf <- MCProjectOf
  Clients <- MCClients
  FrameSize <- MCFrameSize
  Look <- Fresh
  Filter <- FilterProject
  Capacity = 2
  ByteLimit = 3
  MaxStage = 2
  MaxCommits = 1
  MaxMoves = 1
  MaxFaults = 1
CHECK_DEADLOCK FALSE
INVARIANTS NoMissedChange SkippedSnapshotIsCurrent ObserverFailureReported
PROPERTIES Converges
