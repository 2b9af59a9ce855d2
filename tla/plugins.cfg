SPECIFICATION FairSpec
CONSTANTS
  None = None  a1 = a1  a2 = a2  b1 = b1  bad = bad
  Ids = {"a", "b"}
  Manifests = {a1, a2, b1, bad}
  Doc <- Docs
  Names = {"n1"}
  Paths = {1}
  MaxChanges = 2
INVARIANTS TypeOK ViewFollowsSources OnlyValidIsServed
PROPERTY ViewSettles
CHECK_DEADLOCK FALSE
