SPECIFICATION Spec
CONSTANTS
    None = None
    Package <- Packages
    File = {f1, f2}
    Match <- Matches
INVARIANT ImpactIsExact
INVARIANT EveryFileIsPlaced
INVARIANT CyclesAreFound
CHECK_DEADLOCK FALSE
