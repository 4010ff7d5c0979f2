SPECIFICATION OrdersSpec
CONSTANTS
    k2 = k2
    Proc = {p1}
    Key = {k1, k2}
    Call = {c1, c2}
    Order = {o1}
    None = None
    Never = Never
    EnvKey <- Overriding
    License <- Licenses
    CacheTTL = 0
    Grace = 0
    Timeout = 1
    OrderTimeout = 1
    MaxTime = 2
PROPERTY PaidAnswersAreRecent
PROPERTY DeliveredIsEntitled
PROPERTY EveryRequestEnds
CHECK_DEADLOCK FALSE
