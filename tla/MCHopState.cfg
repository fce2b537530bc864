SPECIFICATION FairSpec
CONSTANTS
  Node <- Nodes
  Pi = {0}
  NoPart <- NoPartId
  Networks <- MCNetworks
  MaxTxn = 2
  MaxPatch = 2
INVARIANTS ArrivalsAgree VerdictRight RollbackExact
PROPERTIES PropagationEnds
