SPECIFICATION FairSpec
CONSTANTS
    Procs = {p1}
    Events = {e1, e2}
    NoEvent = noEvent
    NoFile = noFile
    Legacy = {e1, e2}
    MaxAttempts = 2
    MaxAge = 1
    MaxEvents = 2
    MaxBatch = 3
    MaxIsolationSends = 1
    Backoffs = {1}
    SweepInterval = 1
    MaxClock = 2
    MaxWrites = 3
    MaxFaults = 0
PROPERTY EntryLeaves
