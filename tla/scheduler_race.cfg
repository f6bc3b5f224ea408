\* Nothing fails and no repository with plans is deleted: two requests that
\* reload at the same time are enough. The writes are bounded, so the system may
\* come to rest.
CONSTANTS
    Plans = {p1}
    Repos = {r1}
    Specs = {c1}
    Manual = Manual
    Requests = {h1, h2}
    Events = {}
    MaxWrites = 3
SPECIFICATION Spec
CHECK_DEADLOCK FALSE
SYMMETRY Symmetry
INVARIANT
    InSyncWhenQuiet
