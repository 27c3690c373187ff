\* The tree changes under scans, starts and creates.
SPECIFICATION Spec

CONSTANTS
    home = home
    closed = closed
    out = out
    t1 = t1
    t2 = t2
    Roots <- MCRoots
    RootOrder <- MCRootOrder
    PathOf <- MCPathOf
    Disabled <- MCDisabled
    Hidden <- MCHidden
    Names <- MCNames
    Proper <- MCProper
    Dotted <- MCDotted
    Places <- MCPlaces
    Outside = out
    FoundTrees <- MCFoundTrees
    Threads <- MCThreads
    MaxRequests = 2
    MaxChanges = 1
    UnlistedTargets = FALSE
    AliasMidScan = FALSE

SYMMETRY Symmetry
VIEW View

INVARIANTS
    OneAgentPerDirectory
    
    RunningKeepsItsRow
    EveryEntryIsAccountedFor

PROPERTIES
    CreateMakesOnlyWhatWasAsked

CHECK_DEADLOCK FALSE
