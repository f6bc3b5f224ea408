\* Two repositories, plans and repositories are edited while operations run.
\* The system rests once both operations have ended, so a state without a
\* successor is no error.
CONSTANTS
    Repos = {r1, r2}
    Plans = {p1}
    NoRepo = NoRepo
    NoPlan = NoPlan
    MaxOps = 2
    Kinds = {"backup", "copy", "retention"}
    Events = {"edit"}
SYMMETRY Symmetry
SPECIFICATION Spec
CHECK_DEADLOCK FALSE
INVARIANTS
    RetentionFollowsBackup
PROPERTIES
    StatsAreOwn
    ImplementsSerialOps
