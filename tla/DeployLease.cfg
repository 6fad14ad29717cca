SPECIFICATION MCSpec
CONSTANTS
    Deployers = {d1, d2, d3}
    Dead = Dead
    None = None
    Stale = 2
    Wait = 2
    Signalled = {d1, d2, d3}
    Fragile = {d1, d2, d3}
SYMMETRY DeployerSymmetry
INVARIANTS FailedReleaseIsWithdrawn LinkMovesUnderLease NoDeploymentInBetween
PROPERTY LiveLeaseIsNotReclaimed
CHECK_DEADLOCK FALSE
