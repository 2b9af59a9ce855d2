SPECIFICATION Spec
CONSTANTS
  s1 = s1  s2 = s2  p1 = p1  d1 = d1  c1 = c1  c2 = c2
  None = None
  Reqs = {s1, s2, p1}
  Kind <- StartsAndStop
  Conns = {c1}
  Serial = TRUE
  DeletePVC = FALSE
  MaxFaults = 0
PROPERTY RunningNeedsUsablePod
CHECK_DEADLOCK FALSE
