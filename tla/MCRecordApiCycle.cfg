SPECIFICATION ApiSpec
CONSTANTS
  r1 = r1
  r2 = r2
  r3 = r3
  c1 = c1
  c2 = c2
  p1 = p1
  d1 = d1
  d2 = d2
  d3 = d3
  s1 = s1
  None = None
  Records = {r1, r2}
  Collections = {c1}
  Providers = {p1}
  DOIs = {d1, d2}
  SIDs = {s1}
  Keys = {"k1", "k2", "k3"}
  Catalogs = {}
  InitialRecord <- ThreeRecords
  InitialTags <- NoTags
  InitialCollection <- MCCollection
  InitialProvider <- MCProvider
  Workers = {w1, w2}
  Users = {"u1"}
  Routes = {"user"}
  Bodies <- TreeBodies
  RecordTagIns = {}
  CollectionTagIns = {}
  CollectionIns = {}
  ProviderIns = {}
  MaxClock = 2
INVARIANTS
  ParentAcyclic
CHECK_DEADLOCK FALSE
