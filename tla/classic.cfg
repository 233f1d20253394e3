SPECIFICATION Spec
CONSTANTS
  Addrs = {1, 2}
  Vars = {a, b}
  TableSize = 2
  HashBits = 4
  Block = 2
  MaxItems = 3
  MaxSlots = 6
  Atoms <- MCAtoms
  Tasks <- MCTasks
INVARIANTS
  OwnersCounted
  EqualAndAlike
  WalksAgree
  VectorsAreLists
  TextsRight
  PureOperations
SYMMETRY MCSymmetry
CHECK_DEADLOCK FALSE
