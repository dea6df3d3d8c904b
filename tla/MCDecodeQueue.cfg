CONSTANTS
  r1 = r1
  r2 = r2
  r3 = r3
  Reqs <- ThreeReqs
  Workloads <- Served
  Clip = 100
  Slots = 3
  MaxRunning = 2
  MaxAborts = 1
SPECIFICATION FairSpec
INVARIANTS AdmissionFits NoRetractionWithinReserve
PROPERTY EventuallyAnswered
CHECK_DEADLOCK FALSE
