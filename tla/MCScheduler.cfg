SPECIFICATION FairSpec
CONSTANTS
  r1 = r1  r2 = r2  r3 = r3
  None = None
  Reqs <- ThreeReqs
  Tokens <- MCTokens
  Configs <- MCConfigs
  Priority <- MCPriority
  PageSize = 2
  RetractSteps = 1
  PreemptThreshold = 0
  MaxPrefillTokens = 8
  MaxRunning = 2
  InputMargin = 0
  Ratios = {0, 1}
INVARIANTS NoFailure PagesConserved RowHoldsOwnTokens CacheHoldsPath LocksExact SizesExact TreeIsRadix NoRequestLost NeverAbortedForMemory
PROPERTIES AnswerIsFinal EventuallyAnswered
CHECK_DEADLOCK FALSE
