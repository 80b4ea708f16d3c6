SPECIFICATION BoundSpec
CONSTANTS
    MaxName = 5
    BatchSize = 2
    MaxScanFaults = 1
    MaxInserts = 2
INVARIANT ExaminedInTime
