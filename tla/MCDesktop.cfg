SPECIFICATION Spec
CONSTANTS
  Builtin <- Desk
  Filtered = {"files"}
  HostId = {"files"}
  None = None
  MaxWindows = 3
  TextLimit = 1
  BigView = 3
INVARIANTS FocusInScope EditsSound ScrollSound
PROPERTIES FiresSound
