SPECIFICATION Spec
CONSTANTS
    Procs = {p1, p2}
    Events = {e1}
    Dests = {d1, d2}
    NoDest = noDest
    NoBlock = noBlock
    MaxClock = 0
    MaxRuns = 1
    MaxFaults = 1
SYMMETRY Symmetry
INVARIANTS
    NoRecordLost
    SilentWhileShut
