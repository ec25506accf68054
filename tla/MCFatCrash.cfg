CONSTANTS
    A = A
    B = B
    Name = {A, B}
    MAX_DEPTH = 1
    LAST = 3
    DISK_LAST = 3
    ROOT_SLOTS = 2
    DIR_SLOTS = 2
    SECTOR = 2
    SPC = 1
    MAX_FILE_BYTES = 3
    Payload <- PayloadCrash
SYMMETRY Symmetry
SPECIFICATION CSpec
INVARIANTS  EntryCommits NoCrossLinks
CHECK_DEADLOCK FALSE
PROPERTY CompletesAsPromised
