CONSTANTS
    MAX_COLS = 3
    MAX_ROWS = 2
    BYTE = 4
    Key = {"A"}
    KEYS = 2
    LINES = 3
    SHOWN = 2
    WINDOWS = {}
SPECIFICATION Spec
INVARIANTS   NotTheCommand EchoShown
PROPERTY LineTaken
CHECK_DEADLOCK FALSE
