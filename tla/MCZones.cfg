SPECIFICATION Spec
CONSTANTS
  MaxZones = 2
  ObjectsPerZone = 2
  GenSpan = 3
  FieldSpan = 3
  Task = {0, 2}
  Data = {7}
  MaxFrees = 3
INVARIANTS StaleRejected
PROPERTIES OnlyOwnerTouches
