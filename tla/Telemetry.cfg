SPECIFICATION MCSpec
CONSTANTS
    None = None
    MaxEvents = 4
    Completions = {1, 2}
    Unlisted = {4}
    MaxSessions = 2
    SessionTtl = 0
    SessionBudget = 2
    MaxTime = 1
    MaxQueueSize = 2
    MaxBatch = 2
    ClientBudget = 2
    MaxRepeats = 2
    Skews <- ClockSkews
INVARIANTS ServiceFollowsClient CompletionsAgree
PROPERTIES CountsAtMostOnce QueueIsDrained
CHECK_DEADLOCK FALSE
