SPECIFICATION Spec
CONSTANTS
  N = 5
  Graphs <- MCGraphs
  Stale <- MCStale
INVARIANTS IdomsRight FrontierRight
CHECK_DEADLOCK FALSE
