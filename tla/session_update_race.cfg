CONSTANTS
  None = None
  Bad = Bad
  Tomb = Tomb
  Unset = Unset
  c1 = c1
  c2 = c2
  i1 = i1
  i2 = i2
  e1 = e1
  e2 = e2
  p1 = p1
  p2 = p2
  r1 = r1
  r2 = r2
  k1 = k1
  k2 = k2
SPECIFICATION UpdateRaceSpec
INVARIANT ConcurrentAddsSurvive
CHECK_DEADLOCK FALSE
