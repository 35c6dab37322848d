SPECIFICATION EFairSpec
CONSTANTS
  MaxPorts = 1
  QueueLen = 2
  KernelTask = {0, 1}
  UserTask = 3
  Value = {0, 1, 2, 3}
  Boot = 0
  Worker = 1
  PollLimit = 2
  MaxKeys = 3
  MaxTicks = 1
  AppSends = 2
INVARIANTS EventsAccounted SourceGenuine
PROPERTIES EventsHeard ImplementsPorts
