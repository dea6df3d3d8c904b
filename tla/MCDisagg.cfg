SPECIFICATION FairSpec
CONSTANTS
  Reqs = {1, 2}
  NumPages <- Pages
  PrefillPages = {1, 2}
  DecodePages = {1, 2}
  PrefillBufs = {1}
  DecodeBufs = {1}
  ChunkPages = 1
  Retries = 1
  MaxEnsure = 2
  Scenarios <- All
  None = None
INVARIANTS NoException ResourcesConserved CommittedKVIsOwn
CHECK_DEADLOCK FALSE
PROPERTY EveryRequestAnswered
