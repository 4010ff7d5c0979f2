SPECIFICATION Spec
CONSTANTS
    PathOrder <- MCPathOrder
    TestPath = {"test"}
    DocsPath = {"docs"}
    DataPath = {"package"}
    IndexPath = {"index"}
    NamedFor <- MCNamedFor
    None = None
    Unsafe = Unsafe
    Malformed = Malformed
    Runtime <- MCRuntime
    MigrationPath = {}
    BrowserGame = "game"
    CategoryPriority <- MCCategoryPriority
    Args <- MCArgs
    Diff <- MCDiff
    Document <- MCDocument
    Project <- MCProject
    PackFile <- MCPackFile
    Location <- MCLocation
    Today = 1
INVARIANT VerdictIsMonotone
INVARIANT VerdictFollowsRules
INVARIANT SuppressedIsJustified
INVARIANT NothingIsDropped
INVARIANT PlanIsUrgent
PROPERTY ImplementsContract
CHECK_DEADLOCK FALSE
