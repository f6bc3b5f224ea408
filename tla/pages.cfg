\* One page at a time, each with its own bounds.
CONSTANTS
    Snaps = {1, 2, 3}
    Old = {1, 2}
    Nodes = {}
    Presets = {}
    Crons = {"odd"}
    CardClicks = 4
    CardEvents = 1
    Names = {"a", "b"}
    FormClicks = 5
    FormEvents = 1
    Ops = {1, 2, 3, 4}
    Existing <- Tables
    Filters = {"all", "live", "ended"}
    PageSize = 2
    HistoryClicks = 2
    HistoryEvents = 2
    Tabs = {"t1", "t2"}
    Ids = {1, 2, 3}
    SessionClicks = 3
    SessionEvents = 1
SPECIFICATION Spec
INVARIANTS
    TypeOK
    ScheduleShownForAReason
    SnapshotsAreStaleForAReason
    HistoryHasNoHoles
    HistoryIsWrongForAReason
    SignedInForAReason
PROPERTIES
    FormClosesInitialised
    AnswersStayApart
CHECK_DEADLOCK FALSE
