SPECIFICATION Spec
CONSTANTS
  r1 = r1
  r2 = r2
  c1 = c1
  c2 = c2
  p1 = p1
  d1 = d1
  d2 = d2
  s2 = s2
  None = None
  Records = {r1}
  Collections = {c1}
  Providers = {p1}
  DOIs = {d1, d2}
  SIDs = {s2}
  Keys = {"k1", "k2"}
  Catalogs = {"SAEON"}
  InitialRecord <- OneRecord
  InitialTags <- OneRecordTags
  InitialCollection <- MCCollection
  InitialProvider <- MCProvider
  Workers = {w1, w2}
  Users = {"u1"}
  Routes = {"admin"}
  Bodies = {}
  RecordTagIns <- SomeRecordTags
  CollectionTagIns = {}
  CollectionIns = {}
  ProviderIns = {}
  MaxClock = 2
  EmbargoDays <- MCEmbargoDays
  CatalogOrder <- OrderSaeon
  MaxAttempts = 2
  MaxCrashes = 0
  MaxDay = 0
INVARIANTS
  NotSelectedIsFresh
