SPECIFICATION Spec
CONSTANTS
    Procs = {p1, p2}
    Events = {e1}
    NoEvent = noEvent
    NoFile = noFile
    Legacy = {}
    MaxAttempts = 2
    MaxAge = 0
    MaxEvents = 0
    MaxBatch = 1
    MaxIsolationSends = 0
    Backoffs = {0}
    SweepInterval = 1
    MaxClock = 1
    MaxWrites = 2
    MaxFaults = 2
SYMMETRY Symmetry
INVARIANTS
    LossHasCause
    NeverOvercharged
    OneDrainPerEvent
    LossIsCounted
PROPERTY RefinesContract
