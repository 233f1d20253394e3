SPECIFICATION Spec
CONSTANTS
  Funcs = {0, 1, 2, 3}
  Main = 0
  Code <- HelperAfterCapture
  ParamNames <- HelperParams
  ParamDefaults <- HelperDefaults
  Names = {"x", "y"}
  NoName = "(none)"
  StackSlots = 10
  CallSlots = 3
INVARIANT
  NoDanglingVarMap
CHECK_DEADLOCK FALSE
