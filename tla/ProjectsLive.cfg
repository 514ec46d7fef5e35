SPECIFICATION ProjectFairSpec
CONSTANTS
  Projects = {p}
  Roots = {m, x}
  Managed = {m}
  Urls = {u, v}
  Handlers = {h1, h2}
  None = None
  Absent = Absent
  MaxRequests = 2
  MaxFaults = 1
  MaxCrashes = 0
PROPERTIES RemoteHeals EveryRequestEnds
