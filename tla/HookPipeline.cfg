SPECIFICATION Spec
CONSTANTS
    app = app
    tree = tree
    acme = acme
    inApp = inApp
    inAcme = inAcme
    None = None
    Checkouts <- MCCheckouts
    Folders <- MCFolders
    Layouts <- MCLayouts
    Calls <- MCCalls
    Worked = {tree}
    Remotes = {"github.com/acme/fork"}
    MaxCheckouts = 2
    MaxTurns = 2
    MaxMishaps = 2
INVARIANT TenantKept
PROPERTIES
    GovernedOnly
    PolicyKept
    ChangeIsReported
    CarriedWasChanged
CHECK_DEADLOCK FALSE
