SPECIFICATION CleanSpec
CONSTANTS
    Deployers = {d1, d2}
    Dead = Dead
    None = None
    Stale = 2
    Wait = 3
    Signalled = {d1}
    Fragile = {d1}
PROPERTY NextDeploymentGetsLease
CHECK_DEADLOCK FALSE
