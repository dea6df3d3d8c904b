SPECIFICATION Spec
CONSTANTS
  MaxPages = 4
  Sort <- SortPages
  Allocators <- Kinds
  Reqs = {1, 2}
  MaxLen = 5
INVARIANTS ListExact RowsPaged
PROPERTY PoolSpec
