SPECIFICATION Spec
CONSTANTS
  None = None
  KeywordIds <- MCIds
  ProperPrefixes <- MCProperPrefixes
  Data = {"x", "y", "z"}
  Statuses = {"proposed", "approved"}
  SchemaIds = {"s1", "s2", "s3"}
  Schemas = {"s1", "s2"}
  Admits <- MCAdmits
  InitialKeyword <- MCInitial
  Workers = {w1, w2}
  Suggestions <- MCSuggestions
  Settings <- MCSettings
  MaxRequests = 4
INVARIANTS
  KeywordInv
  SchemaSearchEnds
  AuditAccounts
CHECK_DEADLOCK FALSE
