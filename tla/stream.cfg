\* One operation, a channel of two events, a tab that hangs and reconnects, rows
\* that nobody is told of, and a server that is restarted.
CONSTANTS
    Ops = {o1}
    Outcomes = {"success", "canceled"}
    Cap = 2
    Events = {"slow", "disconnect", "unread", "crash"}
SPECIFICATION FairSpec
INVARIANTS
    TypeOK
    NothingIsInvented
    ViewIsWrongForAReason
PROPERTIES
    ToastsAreLive
    EventsMoveForward
    OperationsEnd
