SPECIFICATION Spec
CONSTANTS
  NoPart = NoPart
  Networks <- MCNetworks
  Configs <- MCConfigs
INVARIANTS
  FunctionsKept
  HopsKept
  LimitsKept
PROPERTIES
  CutDrops
  Finishes
