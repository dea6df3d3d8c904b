CONSTANTS
  Callers = {c1, c2, c3}
  None = None
  FanOutSize = 2
  Modes = {"queueing"}
  MaxCalls = 4
SPECIFICATION FairSpec
INVARIANTS WokenFindsItFree
CHECK_DEADLOCK FALSE
