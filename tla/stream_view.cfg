\* A good connection and a tab that keeps up.
CONSTANTS
    Ops = {o1}
    Outcomes = {"success"}
    Cap = 3
    Events = {}
SPECIFICATION Spec
INVARIANT
    ViewIsCurrent
