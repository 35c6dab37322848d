SPECIFICATION Spec
CONSTANTS
  Width = 2
  Height = 2
  LineCapacity = 3
  MaxEscapes = 0
  Hosted <- MCOneKey
  MaxAlone = 0
  MaxCommand = 1
INVARIANTS CaptureTied
CHECK_DEADLOCK FALSE
