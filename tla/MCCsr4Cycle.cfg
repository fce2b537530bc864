SPECIFICATION LutSpec
CONSTANTS
  LutSize = 3
  MaxBound = 4
  MaxLuts = 2
  MaxFanin = 3
  NoPart <- NoPartId
  LutNetworks <- FedBack
INVARIANTS StaysAcyclic
