SPECIFICATION ProjectSpec
CONSTANTS
  Projects = {p}
  Roots = {m, x}
  Managed = {m}
  Urls = {}
  Handlers = {h1, h2}
  None = None
  Absent = Absent
  MaxRequests = 4
  MaxFaults = 2
  MaxCrashes = 2
SYMMETRY HandlerSymmetry
INVARIANTS GoneStaysGone KeptSurvives
