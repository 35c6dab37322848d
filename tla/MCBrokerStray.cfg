SPECIFICATION Spec
CONSTANTS
  Client = {c1, c2}
  Id = {w1, w2}
  None = None
  MaxWindows = 1
  MaxHellos = 2
  MaxEvents = 2
  Noisy = {c1, c2}
  MayStop = FALSE
  Reads = {c1, c2}
  Ascii = {}
INVARIANTS Paired
CHECK_DEADLOCK FALSE
