SPECIFICATION Spec
CONSTANTS
  N = 3
  v1 = v1
  v2 = v2
  v3 = v3
  v4 = v4
  v5 = v5
  k1 = k1
  k2 = k2
  k3 = k3
  m1 = m1
  m2 = m2
  m3 = m3
  Var <- MCVar
  Const <- MCConst
  Inputs <- MCInputs
INVARIANT EdgesKept
INVARIANT ShortChainsRight
CHECK_DEADLOCK FALSE
