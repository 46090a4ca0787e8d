SPECIFICATION FairSpec
CONSTANTS
  N = 3
  r = r
  Reg <- MCReg
  Bodies <- MCBodies
INVARIANTS TypeOK NeverTooLive Exact
PROPERTIES Monotone Termination
CHECK_DEADLOCK FALSE
