SPECIFICATION FramesSpec
CONSTANTS
  MaxFrames = 7
  FrameSize = 4
  TopAddress = 31
  BootMaps <- MCBootMaps
  Reserved <- MCReserved
  Requests = {1, 2, 3}
INVARIANTS FramesSound NoneMeansFull
