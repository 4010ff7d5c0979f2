SPECIFICATION SetupSpec
CONSTANTS
    Proc = {p1, p2, p3}
    Absent = Absent
    Foreign = Foreign
SYMMETRY Symmetric
INVARIANT LeavesNoTemp
PROPERTY ImplementsExclusiveFile
CHECK_DEADLOCK FALSE
