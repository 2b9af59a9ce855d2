SPECIFICATION Spec
CONSTANTS
  None = None  u1 = u1  u2 = u2  a1 = a1  p1 = p1  p2 = p2
  Users = {u1, u2}
  Role <- RoleOf
  Agents = {a1}
  Owner <- OwnerOf
  Providers = {p1, p2}
  Manifest <- Manifests
  Keys = {k1, k2}
  Reqs = {r1, r2}
  MaxRequests = 4
  MaxChanges = 1
INVARIANTS TypeOK StartUsesLiveCredentials StartIsComplete SwitchesHaveConnections
           SummaryShowsEveryConnection
PROPERTY SwitchesVanishForAReason
SYMMETRY Symmetry
CHECK_DEADLOCK FALSE
