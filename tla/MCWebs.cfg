SPECIFICATION FairSpec
CONSTANTS
  N = 5
  NSymbols = 2
  r1 = r1
  r2 = r2
  u1 = u1
  u2 = u2
  u3 = u3
  Use <- MCUse
  Register <- MCRegister
  Registers <- MCRegisters
  Chains <- MCChains
INVARIANTS NothingLost NumbersAreWebs
PROPERTIES Termination
CHECK_DEADLOCK FALSE
