SPECIFICATION Spec
CONSTANTS
  Addrs = {a1, a2, a3}
  Interned = {s}
  Locals = {x, y}
  Nil = Nil
  Size <- Bytes
  FirstThreshold = 2
  SizeRange = 8
  MaxScopes = 2
  MaxItems = 1
  MaxDisable = 1
  Makes = {"string", "list", "map", "grow"}
  MapsUnderGC = FALSE
  Reports = FALSE
SYMMETRY AnyAddress
INVARIANTS
  TypeOK
  NoDangling
  MarksCleared
  ScopesNest
PROPERTIES
  CollectExact
CHECK_DEADLOCK FALSE
