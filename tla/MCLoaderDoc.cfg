SPECIFICATION Spec
CONSTANTS
  Fan = 4
  PageSize = 2
  Held = {0, 15}
  Boots = {"multiboot", "limine"}
  Images <- MCImages
  AppMin = 96
  AppMax = 102
  StackTop = 56
  StackPages = 1
  Mmap = 56
  Device = {32}
  MaxHeaders = 3
  MaxMapped = 3
INVARIANTS ReclaimedBeforeLaunch
