CONSTANTS
    c1 = c1
    c2 = c2
    r1 = r1
    r2 = r2
    None = None
    Clients = {c1, c2}
    Requests = {r1, r2}
    Tasks = {c1, c2, r1, r2}
    Scenarios <- Orderly
    MaxNew = 2
    MaxAcquires = 8
    MaxCancels = 2
    Renotify = FALSE
SPECIFICATION FairWSpec
INVARIANTS Exclusion CountersExact NoLostWakeup OneVersionPerAnswer
PROPERTIES WriterPreference UpdateAtRest CallsReturn
CHECK_DEADLOCK FALSE
