SPECIFICATION MCSpec
CONSTANTS
    Labs <- Course
    Needs <- ChainNeeds
    FirstLab = 1
    None <- NoLab
    StartsOver = TRUE
    MaxUserSteps = 3
    MaxInput = 4
    LastLevel = 2
    GuestLabs = {11, 12, 13}
    UnlockLevel <- NeededLevel
    UnlockLabs <- NeededLabs
    Scripted = {1, 2, 11}
    Debugged = {12}
    Program <- Loop
    Entry = 1
    Success <- Checkpoint
    MaxBreakpoints = 2
    MaxReached = 2
    Streams <- Sent
    MaxBuffer = 4
PROPERTY StepAdvances
CHECK_DEADLOCK FALSE
