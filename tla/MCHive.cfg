SPECIFICATION Spec
CONSTANTS
  TopL = 2
  Stall = 2
  JaccardPct = 50
  ClosureBudget = 2
  FanoutCap = 2
  Networks <- MCNetworks
  Configs <- MCConfigs
INVARIANTS
  RanksRight
  CountsExact
  RegionsConvex
  ReportsRight
