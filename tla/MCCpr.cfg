SPECIFICATION Spec
CONSTANTS
  NoPart = NoPart
  Inputs <- MCInputs
INVARIANTS
  LimitsHeld
  WalkExact
PROPERTY RoundsHelp
