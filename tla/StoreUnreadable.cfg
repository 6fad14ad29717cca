SPECIFICATION Spec
CONSTANTS
    Tabs = {t1, t2}
    TotalLevels = 2
    Labs = {}
    Steps = {}
    MaxHints = 0
    GuideLength = 0
    Clock = {0}
    MaxUpdates = 4
    None = None
PROPERTIES
    ReloadKeepsCompletions
