SPECIFICATION Spec
CONSTANTS
    A = A
    B = B
    None = None
    Policy = {A, B}
    Diff <- MCDiff
    PackageRoot <- MCRoot
    Pattern <- MCPattern
    Pack <- MCPack
    Day = {0, 1}
    Today = 1
    MaxPackages = 2
INVARIANT PoliciesAreNearest
INVARIANT AcceptedIsApplied
INVARIANT AnnotationsAreEarned
CHECK_DEADLOCK FALSE
