SPECIFICATION Spec
CONSTANTS
  Id = {w1, w2, w3}
  None = None
  MaxWindows = 2
  Sizes = {1, 2}
  Color = {ink}
SYMMETRY Symmetry
INVARIANTS FocusSound CaptureSound
PROPERTIES EventsSound
