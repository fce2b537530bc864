SPECIFICATION Spec
CONSTANTS
  NoPart = NoPart
  NodePct = 160
  SeedLimit = 4
  BeamWidth = 2
  MaxDepth = 2
  MaxClusters = 3
  MaxClusterNodes = 3
  MaxClusterDepth = 2
  Inputs <- OppositeInputs
INVARIANT FunctionsKept
