SPECIFICATION Spec
CONSTANTS
  Client = {c1, c2}
  Id = {w1, w2}
  None = None
  MaxWindows = 1
  MaxHellos = 2
  MaxEvents = 2
  Noisy = {}
  MayStop = FALSE
  Reads = {c1, c2}
  Ascii = {}
PROPERTIES DestroysOwn
CHECK_DEADLOCK FALSE
