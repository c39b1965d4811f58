CONSTANTS
  m = m
  n = n
  p1 = p1
  p2 = p2
  Nodes = {m, n}
  Procs = {p1, p2}
  Second = 2
  Interval = 4
  Threshold = 3
  MaxTime = 5
  MaxShows = 3
  MaxCrashes = 1
  Monotone = FALSE
  None = None
  Torn = Torn
SYMMETRY Symmetry
SPECIFICATION Spec
INVARIANTS SessionTypeOK SuspicionFollowsScore ScoreExact EveryShowCounts
CHECK_DEADLOCK FALSE
