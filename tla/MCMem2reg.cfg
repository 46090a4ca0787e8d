SPECIFICATION Spec
CONSTANTS
  N = 4
  Variable = {1, 2}
  Graphs <- MCGraphs
  Codes <- MCCodes
INVARIANTS UsesAgree StrictSSA
CHECK_DEADLOCK FALSE
