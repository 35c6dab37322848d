SPECIFICATION FairSpec
CONSTANTS
  MaxTasks = 4
  Quantum = 3
  Exiters = {0, 1, 2, 3}
INVARIANTS SchedInv
PROPERTIES ReadyRuns ImplementsRoundRobin
CHECK_DEADLOCK FALSE
