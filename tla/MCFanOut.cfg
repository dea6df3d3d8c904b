CONSTANTS
  Callers = {c1, c2, c3}
  None = None
  FanOutSize = 2
  Modes = {"queueing", "watching"}
  MaxCalls = 5
SPECIFICATION FairSpec
INVARIANTS OneInFlight ResultIsOwn AnswerExpected
PROPERTIES EveryCallEnds
CHECK_DEADLOCK FALSE
