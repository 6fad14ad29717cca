SPECIFICATION MCSpec
CONSTANTS
    Tabs = {t1, t2}
    OtherTab = t2
    TotalLevels = 2
    Labs = {lab1}
    Steps = {1, 2}
    MaxHints = 2
    GuideLength = 2
    Clock = {0, 2}
    MaxUpdates = 4
    None = None
    Visits = {v1, v2}
    DefaultOwner = DefaultOwner
    NoOwner = NoOwner
    Forged = Forged
INVARIANTS TypeOK CompletionHasRecord StaleOrCurrent GuideBehindEvidence PopupIsForThisUnit
PROPERTIES StoredProgressOnlyGrows SharedRecord WritesReachEveryTab VisitIsServed
CHECK_DEADLOCK FALSE
