SPECIFICATION Spec
CONSTANTS
  MaxPages = 9
  Sort <- SortPages
  Reqs = {1, 2}
  Scenarios <- Cases
INVARIANTS WindowReadable PoolsExact
CHECK_DEADLOCK FALSE
