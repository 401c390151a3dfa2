SPECIFICATION Spec
CONSTANTS
  Text <- Strings
  Sources <- Trees
  Callers = {c1, c2}
  Manual <- Registered
  MaxProcs = 3
  MaxCalls = 1
  MaxReleases = 2
SYMMETRY Symmetry
INVARIANTS AllServed
PROPERTIES FirstWins ReleaseClosesAll
CHECK_DEADLOCK FALSE
