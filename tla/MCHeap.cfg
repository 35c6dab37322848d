SPECIFICATION HeapSpec
CONSTANTS
  HeapSize = 20
  Sizes = {2, 3}
  Aligns = {1, 8}
INVARIANTS HeapSound
