CONSTANTS
  c1 = c1
  c2 = c2
  t1 = t1
  step1 = step1
  Tree <- Nodes
  Requests <- Asked
  MaxTouches = 1
  MaxTime = 1
  MaxCalls = 3
SPECIFICATION Spec
CHECK_DEADLOCK FALSE
SYMMETRY CallerSymmetry
INVARIANTS SubmissionsAreComplete ResultsAreWhole
PROPERTIES RetryWins
