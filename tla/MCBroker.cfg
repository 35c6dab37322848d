SPECIFICATION FairSpec
CONSTANTS
  Client = {c1, c2}
  Id = {w1}
  None = None
  MaxWindows = 1
  MaxHellos = 2
  MaxEvents = 1
  Noisy = {c1}
  MayStop = TRUE
  Reads = {c1}
  Ascii = {c2}
INVARIANTS AnswersPaired EventsPrivate
PROPERTIES CommandsOwn AnsweredWhileRead
CHECK_DEADLOCK FALSE
