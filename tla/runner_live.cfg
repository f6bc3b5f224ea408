CONSTANTS
    Repos = {r1}
    Plans = {p1}
    NoRepo = NoRepo
    NoPlan = NoPlan
    MaxOps = 2
    Kinds = {"backup", "retention", "check"}
    Events = {"cancel", "crash"}
SPECIFICATION FairSpec
PROPERTIES
    StartedOperationsEnd
    CancelFreesRepository
