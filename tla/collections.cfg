SPECIFICATION Spec
CHECK_DEADLOCK FALSE
CONSTANTS
  Keys = {1, 2, 5, 9}
  Values = {v1, v2}
  Handles = {h1, h2}
  First = h1
  Absent = Absent
  Endless = Endless
  MaxCapacity = 16
  ListItems = {1, 2}
  MaxItems = 5
PROPERTIES
  PartsOnlyThere
