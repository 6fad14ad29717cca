CONSTANTS
    Labs <- Course
    Needs <- ChainNeeds
    FirstLab = 1
    None <- NoLab
    StartsOver = FALSE
    MaxUserSteps = 3
    MaxInput = 4
SPECIFICATION Spec
INVARIANT ReplayPreventsRefusal
CHECK_DEADLOCK FALSE
