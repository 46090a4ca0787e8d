SPECIFICATION FairSpec
CONSTANTS
  RegNum = 2
  FRegNum = 2
  FBlocked = {3}
  NWebs = 8
  HugeCost = 100
  MaxCost = 2
  Bound <- MCBound
INVARIANTS ProperColoring PresetKept OnlyCandidatesSpill PrunedOnce
PROPERTIES Terminates
CHECK_DEADLOCK FALSE
