SPECIFICATION Spec
CONSTANTS
  NoPart = NoPart
  Networks <- MCNetworks
  Configs <- MCConfigs
INVARIANTS
  FunctionsKept
  ListsComplete
  SavedExact
PROPERTY RollbackExact
