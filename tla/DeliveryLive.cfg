SPECIFICATION FairSpec
CONSTANTS
    Procs = {p1}
    Events = {e1}
    Dests = {d1}
    NoDest = noDest
    NoBlock = noBlock
    MaxClock = 1
    MaxRuns = 2
    MaxFaults = 2
PROPERTIES RetentionHolds BacklogMoves
