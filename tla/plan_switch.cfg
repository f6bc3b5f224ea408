CONSTANTS
    Plans = {1, 2, 3}
    Names = {"a", "b", "c"}
    Contents = {"x", "y"}
    Presets = {"daily"}
    Crons = {"odd"}
    Views = {"retention"}
    Start <- StartTables
    MaxClicks = 4
    MaxEvents = 0
SPECIFICATION Spec
INVARIANT SavesThePlanOpened
CHECK_DEADLOCK FALSE
