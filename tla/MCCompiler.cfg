SPECIFICATION Spec
CONSTANT Undef = 100003
CONSTANT StackWords = 180
CONSTANT Fuel = 250
CONSTANT MaxRounds = 8
CONSTANT Inputs <- MCInputs
INVARIANT IRMeansSource
INVARIANT NoFault
INVARIANT AlignedCalls
PROPERTY RegistersKept
PROPERTY Refines
CHECK_DEADLOCK FALSE
