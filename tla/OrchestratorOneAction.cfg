SPECIFICATION Spec
CONSTANTS
    Runs = {r1, r2}
    r1 = r1
    r2 = r2
    key = key
    Actions = {key}
    Keyboard = {key}
    Confirmed = {}
    Windows = {"listed"}
    MaxActions = 2
    MaxStops = 1
    Window = 6
    Threshold = 3
CHECK_DEADLOCK FALSE
INVARIANT StopsWithinOneAction
