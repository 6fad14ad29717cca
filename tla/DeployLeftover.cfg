SPECIFICATION MCSpec
CONSTANTS
    Deployers = {d1}
    Dead = Dead
    None = None
    Stale = 2
    Wait = 2
    Signalled = {}
    Fragile = {}
INVARIANT LeftLockIsReclaimable
CHECK_DEADLOCK FALSE
