SPECIFICATION FairSpec
CONSTANTS
  Requests = {"q1", "q2", "q3"}
  Updates = {"u1", "u2"}
  Scenarios <- LeakScenarios
  Kind <- UpdateKind
  Target <- UpdateTarget
  Initial <- AB
  Pinned = {}
  MaxLoaded = 2
  MaxPinned = 1
PROPERTY UnloadEnds
CHECK_DEADLOCK FALSE
