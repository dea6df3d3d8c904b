SPECIFICATION FairSpec
CONSTANTS
  Requests = {"q1", "q2", "q3"}
  Updates = {"u1", "u2"}
  Scenarios <- MCScenarios
  Kind <- UpdateKind
  Target <- UpdateTarget
  Initial <- AB
  Pinned = {"b"}
  MaxLoaded = 2
  MaxPinned = 1
INVARIANTS UsedAdapterLoaded RegistryMatchesBackend CountersExact CapacityKept ReloadedIsFound
PROPERTY EveryCallEnds
CHECK_DEADLOCK FALSE
