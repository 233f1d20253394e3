SPECIFICATION MCSpec
CONSTANTS
  MaxInt = 2047
  ByteSize = 32
  MaxLabels = 4
  MaxRefs = 4
  MaxFunctions = 5
  StackSize = 24
  MaxCalls = 8
  MaxCycles = 260
INVARIANTS
  DemosCompute
  JumpsLand
PROPERTIES
  LoadsAsWritten
CHECK_DEADLOCK FALSE
