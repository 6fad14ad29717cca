SPECIFICATION MCSpec
CONSTANTS
    NoEntry = NoEntry
    Ips = {i1, i2}
    IpMax = 1
    GlobalMax = 1
    Window = 2
    AdminTtl = 1
    MaxLogins = 1
    MaxRestarts = 1
    Horizon = 3
    DayLength = 2
    Days = 2
    Retention = 2
    LogTypes = {"command", "level_complete", "activity_complete", "vm_boot"}
    MaxRows = 3
    LastTime = 4
    Releases = {r1, r2, r3}
    Installed = r1
    Unversioned = Unversioned
    Missing = Missing
    Keep = Keep
    MaxMinted = 3
INVARIANTS LoginsAreLimited LoginLasts ChartsAreComplete LinkedIsComplete ServesCurrent SecretsAreKnown
PROPERTY FailureIsUndone
CHECK_DEADLOCK FALSE
