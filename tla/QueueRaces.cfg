SPECIFICATION Spec
CONSTANTS
    Ticket = {t1, t2}
    Job = {j1, j2, j3}
    Days = 1
    MaxDay = 1
    None = None
    Partial = Partial
SYMMETRY Symmetric
INVARIANT AcceptedIsStored
INVARIANT RespondedWasAttested
PROPERTY PurgeIsJustified
CHECK_DEADLOCK FALSE
