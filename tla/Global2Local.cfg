SPECIFICATION Spec
CONSTANTS
  NF = 3
  Value = {0, 1}
  Initial = 0
  MaxDepth = 4
  Programs <- ProgramType
INVARIANTS AnalysisRight LoadsAgreeIfWritersRead
CHECK_DEADLOCK FALSE
