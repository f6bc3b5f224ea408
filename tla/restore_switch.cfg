\* Five clicks: open, browse, pick all of it, browse another, restore.
CONSTANTS
    Snaps = {1, 2}
    Old = {1, 2}
    Nodes = {}
    Presets = {}
    Crons = {}
    MaxClicks = 5
    MaxEvents = 0
SPECIFICATION Spec
INVARIANT NoticeNamesTheSnapshot
CHECK_DEADLOCK FALSE
