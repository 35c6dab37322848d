SPECIFICATION BootSpec
CONSTANTS
  Word = 32
  SectorBytes = 4
  LinkBytes = 2
  MaxSpc = 2
  DirRounds = 2
  MaxBytes = 12
  Boots <- SmallBoots
  Links <- SmallLinks
  Entries <- SmallEntries
  None = None
  End = End
  EndRow = EndRow
  Skip = Skip
  NoSector = NoSector
  InitialPages = 4
  Bars = {2, 4}
  NoHba = NoHba
  MaxKeys = 2
  MaxPackets = 2
  PollBytes = 3
INVARIANTS RegistersMapped ReadsInVolume FileIsChain PacketsSound
PROPERTIES ReadsOwnSector BootGoesOn
CHECK_DEADLOCK FALSE
