SPECIFICATION Spec
CONSTANTS
  NoPart = NoPart
  Networks <- ChainNetworks
  Configs <- ResubConfigs
INVARIANT ResubHops
