SPECIFICATION Spec
CONSTANTS
    k2 = k2
    Proc = {p1, p2}
    Key = {k1}
    Call = {c1, c2, c3}
    None = None
    Never = Never
    EnvKey <- NoOverride
    License <- OnePlan
    CacheTTL = 0
    Grace = 0
    Timeout = 0
    MaxTime = 1
SYMMETRY Symmetric
INVARIANT ReceiptBacked
PROPERTY WithdrawnStaysWithdrawn
PROPERTY DenialLeavesNoPaidCredential
PROPERTY DeactivationIsHonest
