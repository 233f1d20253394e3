SPECIFICATION Spec
CONSTANTS
  Keys = {j, k, l}
  Values = {u, v}
  Null = Null
  Absent = Absent
  Hashes = {2, 3, 7}
  Capacities = {1, 3}
INVARIANTS
  TableSound
PROPERTIES
  IsFiniteMap
  OperationsEnd
