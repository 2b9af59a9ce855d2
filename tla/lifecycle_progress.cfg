SPECIFICATION FairSpec
CONSTANTS
  s1 = s1  s2 = s2  p1 = p1  d1 = d1  c1 = c1  c2 = c2
  None = None
  Reqs = {s1, s2}
  Kind <- TwoStarts
  Conns = {c1, c2}
  Serial = TRUE
  DeletePVC = FALSE
  MaxFaults = 1
PROPERTY ProvisionedRuntimeRegisters
CHECK_DEADLOCK FALSE
