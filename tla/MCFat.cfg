CONSTANTS
    A = A
    B = B
    Name = {A, B}
    MAX_DEPTH = 2
    LAST = 3
    DISK_LAST = 3
    ROOT_SLOTS = 2
    DIR_SLOTS = 4
    SECTOR = 1
    SPC = 2
    MAX_FILE_BYTES = 3
    Payload <- SomePayload
SYMMETRY Symmetry
SPECIFICATION Spec
INVARIANTS ClustersOwnedOnce DirectoriesSound
 
