SPECIFICATION ApiSpec
CONSTANTS
  r1 = r1
  r2 = r2
  r3 = r3
  c1 = c1
  c2 = c2
  p1 = p1
  d1 = d1
  d2 = d2
  d3 = d3
  s1 = s1
  None = None
  Records = {r1, r2, r3}
  Collections = {c1, c2}
  Providers = {p1}
  DOIs = {d1, d2, d3}
  SIDs = {s1}
  Keys = {"k1", "k2", "k3"}
  Catalogs = {}
  InitialRecord <- Chain
  InitialTags <- FrozenTags
  InitialCollection <- MCCollection
  InitialProvider <- MCProvider
  Workers = {w1}
  Users = {"u1", "u2"}
  Routes = {"user"}
  Bodies <- ChainBodies
  RecordTagIns <- SomeRecordTags
  CollectionTagIns <- SomeCollectionTags
  CollectionIns <- CollectionUpdates
  ProviderIns <- ProviderUpdates
  MaxClock = 3
INVARIANTS
  ParentAcyclic
  ParentStamped
  TagCardinalityKept
  AuditTells
PROPERTIES
  FrozenAdmitsNone
CHECK_DEADLOCK FALSE
