SPECIFICATION PageSpec
CONSTANTS
  Places = 2
  MaxChanges = 1
INVARIANT PageFromOneRoot
PROPERTY ShowsWhenInstalled
