CONSTANTS
    Visits = {v1}
    DefaultOwner = DefaultOwner
    NoOwner = NoOwner
    Forged = Forged
    MaxRestarts = 1
    MaxMessages = 1
SPECIFICATION Spec
PROPERTY RetryBoots
CHECK_DEADLOCK FALSE
