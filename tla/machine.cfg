SPECIFICATION Spec
CHECK_DEADLOCK FALSE
CONSTANTS
  ByteSize = 8
  MaxInt = 2047
  CharOrder <- MCCharOrder
  Sources <- MCSources
  StackSize = 5
  MaxCalls = 2
  MaxCycles = 12
INVARIANTS
  AssemblesTheWellFormed
  RegistersReserved
  ShownAsWritten
PROPERTIES
  RunsTheSource
  RunReturns
