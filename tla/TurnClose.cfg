SPECIFICATION FairSpec
CONSTANTS
    Sessions <- MCSessions
    NoTurn = "none"
    MaxStops = 2
    MaxFaults = 1
INVARIANTS
    UsageOnce
    NoRecordLost
PROPERTIES
    RecordsExpire
    RefinesTurnContract
