SPECIFICATION Spec
CONSTANTS
  Width = 2
  Height = 2
  LineCapacity = 3
  MaxEscapes = 1
  Hosted <- MCHosted
  MaxAlone = 5
  MaxCommand = 1
INVARIANTS ActionsOnce ShownIsCurrent ScreenSound
PROPERTIES ActionsHandled
CHECK_DEADLOCK FALSE
