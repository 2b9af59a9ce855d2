SPECIFICATION FairSpec
CONSTANTS
  None = None
  Admin = "admin"
  GatewaySecret = "s"
  Password = "pw"
  Names = {"alice"}
  Providers = {"idp"}
  Subjects = {"s1"}
  Email <- EmailOf
  Reqs = {r1, r2}
  Flows = {f1, f2}
  MaxRequests = 3
  MaxFaults = 1
  CookieKey = FALSE
INVARIANTS TypeOK ServedOnlyIfEntitled SessionsAreOwned RegistryFollowsSettings
PROPERTY ProviderRecovers
CHECK_DEADLOCK FALSE
