SPECIFICATION Spec
CONSTANTS
  r1 = r1
  r2 = r2
  k1 = k1
  p1 = p1
  p2 = p2
  g1 = g1
  c1 = c1
  c2 = c2
  u1 = u1
  None = None
  RoleIds = {r1, r2}
  ClientIds = {k1}
  ProviderIds = {p1, p2}
  PackageIds = {g1}
  CollectionIds = {c1, c2}
  UserIds = {u1}
  Scopes = {"record", "package", "role", "client"}
  ByCollection = {"record"}
  ByProvider = {"package"}
  RoleScopes = {"record", "package", "role"}
  RoleAdmin = "role"
  ClientAdmin = "client"
  Occupied = {}
  InitialRows <- MCInitialRows
  Bodies <- MCBodies
  Workers = {w1, w2}
  MaxRequests = 2
PROPERTIES
  DeletionReachesHydra
CHECK_DEADLOCK FALSE
