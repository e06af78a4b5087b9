SPECIFICATION FairSpec
CONSTANTS
  r1 = r1
  r2 = r2
  c1 = c1
  c2 = c2
  p1 = p1
  d1 = d1
  d2 = d2
  s2 = s2
  None = None
  Records = {r1}
  Collections = {c1}
  Providers = {p1}
  DOIs = {d1, d2}
  SIDs = {s2}
  Keys = {"k1", "k2"}
  Catalogs = {"DATACITE"}
  InitialRecord <- OneRecord
  InitialTags <- ControlledTags
  InitialCollection <- MCCollection
  InitialProvider <- MCProvider
  Workers = {w1}
  Users = {"u1", "u2"}
  Routes = {"admin"}
  Bodies <- DoiBodies
  RecordTagIns <- RuleTags
  CollectionTagIns <- HarvestTags
  CollectionIns = {}
  ProviderIns = {}
  MaxClock = 2
  EmbargoDays <- MCEmbargoDays
  CatalogOrder <- OrderDataCite
  MaxAttempts = 2
  MaxCrashes = 1
  MaxDay = 1
INVARIANTS
  MirrorFollows
  NotSelectedIsFresh
PROPERTIES
  MirrorCatchesUp
