CONSTANTS
    p1 = p1
    p2 = p2
    Proc = {p1, p2}
    HANDLES = 2
    FDS = 2
    WORD = 5
    MAX_FILE_BYTES = 2
    Path <- OneFile
    Payload <- SomeBytes
    Flags <- SomeFlags
    Length = {1}
    Offset = {0, 4}
    PATIENT = TRUE
SYMMETRY Symmetry
SPECIFICATION VSpec
INVARIANTS HandleOwnedOnce SizeFresh
PROPERTY AppendKeeps
