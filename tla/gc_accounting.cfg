SPECIFICATION Spec
CONSTANTS
  Addrs = {a1, a2, a3, a4}
  Interned = {}
  Locals = {x}
  Nil = Nil
  Size <- Bytes
  FirstThreshold = 2
  SizeRange = 8
  MaxScopes = 0
  MaxItems = 1
  MaxDisable = 1
  Makes = {"list", "varmap", "funcref"}
  MapsUnderGC = FALSE
  Reports = TRUE
INVARIANT BytesExact
PROPERTY ProgramResumes
CHECK_DEADLOCK FALSE
