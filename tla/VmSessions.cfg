CONSTANTS
    v1 = v1
    v2 = v2
    Visits = {v1, v2}
    DefaultOwner = DefaultOwner
    NoOwner = NoOwner
    Forged = Forged
    MaxRestarts = 1
    MaxMessages = 2
    Windows = {w1, w2}
    Items = {tool, task}
    SeenCapacity = 3
    MaxSent = 5
    Closed = Closed
    Instances = {i1, i2}
    Names = {k1, k2}
    NoItem = NoItem
    MaxWrites = 3
SPECIFICATION MCSpec
SYMMETRY VisitSymmetry
INVARIANTS OneMachine StageIsTrue CreditedBySession MachineHasOwner OnceAndInOrder WindowsAgree KeepsWhatItKnew
CHECK_DEADLOCK FALSE
