SPECIFICATION Spec
CONSTANTS
    Procs = {p1, p2}
    Events = {e1}
    Predating = {e1}
    Tokens = {a, b}
    NoToken = noToken
    Urls = {u, v}
    NoUrl = noUrl
    AnyUrl = anyUrl
    Absent = absent
    MaxSetups = 1
    MaxFaults = 1
SYMMETRY Symmetry
INVARIANTS
    SentWhereConsented
    OneCopy
    NothingLost
