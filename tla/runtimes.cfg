SPECIFICATION Spec
CHECK_DEADLOCK FALSE
CONSTANTS
  MaxInt = 3
  CharOrder <- MCCharOrder
  CaseTable <- MCCaseTable
  SplitCapacity = 2
  SpaceSplitCapacity = 3
  Starts <- MCStarts
  Operands <- MCOperands
  Words <- MCWords
  Items <- MCItems
  Formats <- MCFormats
  MaxLength = 3
  MaxNumber = 4
INVARIANTS
  CharactersStayWhole
PROPERTIES
  DifferOnlyThere
