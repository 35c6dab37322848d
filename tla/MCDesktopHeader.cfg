SPECIFICATION Spec
CONSTANTS
  Builtin <- Desk
  Filtered = {}
  HostId = {"files"}
  None = None
  MaxWindows = 3
  TextLimit = 2
  BigView = 3
INVARIANTS HeaderNoFocus
