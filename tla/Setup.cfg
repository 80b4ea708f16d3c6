SPECIFICATION Spec
CONSTANTS
    Cwds <- MCCwds
    Enclosing <- MCEnclosing
    Order <- MCOrder
    Words <- MCWords
    Roots <- MCRoots
    Scenes <- MCScenes
    Chosen <- MCChosen
    Options <- MCOptions
    RepoFiles <- MCRepoFiles
    MaxCommands = 3
    MaxMishaps = 1
INVARIANTS
    RepoOnlyNarrows
    BearerKept
    SilentWhileOff
    ExporterFollowsConfig
    ModeRestored
    ReportedOffIsOff
PROPERTIES
    SetupKeepsWhatWasWritten
    UsersKept
CHECK_DEADLOCK FALSE
