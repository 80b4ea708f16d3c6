SPECIFICATION LockSpec
CONSTANTS
    Contenders = {p1, p2}
    Nobody = nobody
    StaleAfter = 1
    Attempts = 2
INVARIANTS
    ExclusiveWhileFresh
PROPERTIES
    RefinesLockContract
    OrphanIsBroken
    AcquireTerminates
