SPECIFICATION AppSpec
CONSTANTS
  Id = {w1, w2, w3}
  None = None
  MaxWindows = 2
  Sizes = {1, 2}
  Color <- AllLooks
  Buttons = {2}
  Toggles = {3}
  Fields = {1, 4}
  W = w1
  MaxPending = 2
  MaxDrags = 2
  MaxOthers = 2
PROPERTIES Redrawn
CHECK_DEADLOCK FALSE
