SPECIFICATION FairSpec
CONSTANTS
  IntReg = {4, 5, 6}
  FloatReg = {21, 22, 23}
  MaxVreg = 30
  NearSlots = 1
  Programs <- MCPrograms
INVARIANTS NoRegisterLost RegisterReuse ReadsItsValue
PROPERTIES Terminates
CHECK_DEADLOCK FALSE
