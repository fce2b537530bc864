SPECIFICATION FairSpec
CONSTANTS
  Vertex <- V4
  Net <- N3
  Inputs <- MCInputs
  Netlists <- MCNetlists
INVARIANTS PinCountsExact CutAndGainsExact PrefixRestored MovesAreLegal RunImproves NetworkCut
PROPERTIES OverweightShrinks RunEnds
