SPECIFICATION AppSpec
CONSTANTS
  Id = {w1, w2, w3}
  None = None
  MaxWindows = 2
  Sizes = {1, 2}
  Color <- AllLooks
  Buttons = {2}
  Toggles = {3}
  Fields = {1}
  W = w1
  MaxPending = 2
  MaxDrags = 2
  MaxOthers = 2
INVARIANTS SettledPicture
PROPERTIES Closes
CHECK_DEADLOCK FALSE
