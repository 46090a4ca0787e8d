SPECIFICATION Spec
CONSTANTS
  Programs <- MCPrograms
  Inputs   <- MCInputs
  Fuel     = 200
INVARIANT MeaningKept
INVARIANT DefsDominate
INVARIANT EdgesAgree
CHECK_DEADLOCK FALSE
