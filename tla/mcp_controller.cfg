SPECIFICATION FairSpec
CONSTANTS
  None = None  s1 = s1  s2 = s2  bad = bad
  Names = {n1, n2}
  Specs = {s1, s2, bad}
  Fields <- SpecOf
  Workers = {w1, w2}
  MaxChanges = 3
  MaxFaults = 1
INVARIANTS TypeOK OneWorkerPerKey RestMeansReconciled
PROPERTY ComesToRest
CHECK_DEADLOCK FALSE
