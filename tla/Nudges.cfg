SPECIFICATION Spec
CONSTANTS
  w1 = w1
  w2 = w2
  k1 = k1
  p1 = p1
  p2 = p2
  prj = prj
  Workers = {w1, w2}
  Cards = {k1}
  Prints = {p1, p2}
  Project = prj
  MaxBasis = 1
  Nudge <- Offered
  MaxEdits = 1
  MaxRequests = 4
  MaxFaults = 2
SYMMETRY Symmetry
CHECK_DEADLOCK FALSE
INVARIANTS NotShownAgain NoDismissalLeftBehind OneVariantListed
PROPERTY RebuildKeepsDismissals
