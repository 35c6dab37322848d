SPECIFICATION FairSpec
CONSTANTS
  Client = {c1, c2}
  Id = {w1}
  None = None
  MaxWindows = 1
  MaxHellos = 2
  MaxEvents = 1
  Noisy = {}
  MayStop = FALSE
  Reads = {c1, c2}
  Ascii = {}
PROPERTIES AnsweredWhenFit
CHECK_DEADLOCK FALSE
