\* One repository, two operations; the process crashes and restarts, clients
\* disconnect, SQLite refuses writes.
CONSTANTS
    Repos = {r1}
    Plans = {p1}
    NoRepo = NoRepo
    NoPlan = NoPlan
    MaxOps = 2
    Kinds = {"backup", "prune"}
    Events = {"cancel", "crash", "disconnect", "db"}
SPECIFICATION Spec
INVARIANTS
    TypeOK
    RunnerInv
    OneResticPerRepo
    RunningRowHoldsLock
    LiveRowsAreServed
    CancelReachesRunning
    StatusTellsOutcome
    NotifiedOfFinalStatus
PROPERTIES
    StatusMovesForward
