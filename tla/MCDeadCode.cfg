SPECIFICATION FairSpec
CONSTANTS
  N = 4
  v1 = v1
  v2 = v2
  v3 = v3
  Value <- MCValue
  Graphs <- MCGraphs
  Functions <- MCFunctions
  Stale <- MCStale
INVARIANTS NeverTouchesDeleted SweepLeavesNoUse PhiMatchesPreds EssentialStays TerminatorsFit
PROPERTIES RedirectKeepsTrace Termination
CHECK_DEADLOCK FALSE
