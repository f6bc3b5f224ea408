\* A client goes away between the insert and the read-back of its operation.
CONSTANTS
    Repos = {r1}
    Plans = {p1}
    NoRepo = NoRepo
    NoPlan = NoPlan
    MaxOps = 2
    Kinds = {"backup"}
    Events = {"disconnect"}
SPECIFICATION FairSpec
CHECK_DEADLOCK FALSE
PROPERTY
    QueuedIsStarted
