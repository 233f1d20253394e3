SPECIFICATION Spec
CHECK_DEADLOCK FALSE
CONSTANTS
  Lines <- MCLines
  Functions <- MCFunctions
INVARIANTS
  CutWhereKindsChange
  AcceptsTheLanguage
  TreeOfTheLine
  ComputedAlike
