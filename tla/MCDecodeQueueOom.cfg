CONSTANTS
  r1 = r1
  r2 = r2
  r3 = r3
  Reqs <- ThreeReqs
  Workloads <- OutOfMemory
  Clip = 100
  Slots = 3
  MaxRunning = 2
  MaxAborts = 0
SPECIFICATION FairSpec
INVARIANT NeverOutOfMemory
CHECK_DEADLOCK FALSE
