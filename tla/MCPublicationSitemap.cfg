SPECIFICATION FairSpec
CONSTANTS
  r1 = r1
  r2 = r2
  c1 = c1
  c2 = c2
  p1 = p1
  d1 = d1
  d2 = d2
  s2 = s2
  None = None
  Records = {r1}
  Collections = {c1}
  Providers = {p1}
  DOIs = {d1, d2}
  SIDs = {s2}
  Keys = {"k1", "k2"}
  Catalogs = {"MIMS"}
  InitialRecord <- OneRecord
  InitialTags <- OneRecordTags
  InitialCollection <- MCCollection
  InitialProvider <- MCProvider
  Workers = {w1}
  Users = {"u1"}
  Routes = {"admin"}
  Bodies = {}
  RecordTagIns <- SomeRecordTags
  CollectionTagIns = {}
  CollectionIns = {}
  ProviderIns = {}
  MaxClock = 1
  EmbargoDays <- MCEmbargoDays
  CatalogOrder <- OrderMims
  MaxAttempts = 2
  MaxCrashes = 1
  MaxDay = 0
PROPERTIES
  SitemapCatchesUp
