SPECIFICATION Spec
CONSTANTS
  s1 = s1  s2 = s2  p1 = p1  d1 = d1  c1 = c1  c2 = c2
  None = None
  Reqs = {s1, s2, p1, d1}
  Kind <- AllKinds
  Conns = {c1}
  Serial = TRUE
  DeletePVC = TRUE
  MaxFaults = 1
INVARIANTS TypeOK StartedIsComplete StoppedIsClean
PROPERTY DeletedForGood
CHECK_DEADLOCK FALSE
