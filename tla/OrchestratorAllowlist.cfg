SPECIFICATION Spec
CONSTANTS
    Runs = {r1}
    r1 = r1
    key = key
    Actions = {key}
    Keyboard = {key}
    Confirmed = {}
    Windows = {"listed", "unlisted"}
    MaxActions = 1
    MaxStops = 0
    Window = 6
    Threshold = 3
CHECK_DEADLOCK FALSE
INVARIANT ActsOnListedWindows
