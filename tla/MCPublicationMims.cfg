SPECIFICATION FairSpec
CONSTANTS
  r1 = r1
  r2 = r2
  c1 = c1
  c2 = c2
  p1 = p1
  d1 = d1
  d2 = d2
  s2 = s2
  None = None
  Records = {r1, r2}
  Collections = {c1, c2}
  Providers = {p1}
  DOIs = {d1, d2}
  SIDs = {s2}
  Keys = {"k1", "k2", "k3"}
  Catalogs = {"SAEON", "MIMS"}
  InitialRecord <- TwoRecords
  InitialTags <- BothHarvestedTags
  InitialCollection <- TwoCollections
  InitialProvider <- MCProvider
  Workers = {w1}
  Users = {"u1"}
  Routes = {"admin"}
  Bodies <- PartBodies
  RecordTagIns <- SomeRecordTags
  CollectionTagIns <- SomeCollectionTags
  CollectionIns <- CollectionUpdates
  ProviderIns <- ProviderUpdates
  MaxClock = 2
  EmbargoDays <- MCEmbargoDays
  CatalogOrder <- OrderBoth
  MaxAttempts = 2
  MaxCrashes = 1
  MaxDay = 0
INVARIANTS
  TypeOK
  FreshnessInv
  NotSelectedIsFresh
  PublicIsRegistered
  PartsAreListed
PROPERTIES
  PublicationIsPermanent
  ImplementsRegister
  EventuallyFresh
