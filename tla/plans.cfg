\* One or two plans, of three ids.
CONSTANTS
    Plans = {1, 2, 3}
    Names = {"a", "b", "c"}
    Contents = {"x", "y"}
    Presets = {}
    Crons = {"odd"}
    Views = {"retention"}
    Start <- StartTables
    MaxClicks = 4
    MaxEvents = 2
SPECIFICATION Spec
INVARIANTS
    TypeOK
    CreatedOnce
    PreviewAnswersLastClick
    CardsAreStaleForAReason
PROPERTIES
    UpdateChangesForAReason
    ClosedFormIsSaved
CHECK_DEADLOCK FALSE
