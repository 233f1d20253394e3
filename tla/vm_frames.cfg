SPECIFICATION Spec
CONSTANTS
  Funcs = {0, 1, 2, 3, 4, 5}
  Main = 0
  Code <- FramePrograms
  ParamNames <- FrameParams
  ParamDefaults <- FrameDefaults
  Names = {"x", "y"}
  NoName = "(none)"
  StackSlots = 10
  CallSlots = 3
INVARIANTS
  TypeOK
  FrameChain
  VarMapsReachOwnFrame
PROPERTIES
  CallerKept
  FreshWindow
  CallsNest
CHECK_DEADLOCK FALSE
