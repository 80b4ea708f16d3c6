SPECIFICATION FairSpec
CONSTANTS
    h1 = h1
    h2 = h2
    a = a
    b = b
    main = main
    develop = develop
    Hooks <- MCTwoHooks
    Branches <- MCBranches
    Trunks <- MCTrunks
    Assumed <- MCAssumed
    NoTrunk = NoTrunk
    Refresh = 1
    Budget = 2
    MaxChanges = 1
    MaxFaults = 1
INVARIANT RecordedWasQueued
PROPERTY EveryHeadIsQueued
