CONSTANTS
    FRAMES = 8
    SLOTS = 2
    TASKS = 2
    PDES = 2
    MAX_IMAGE = 2
    MAX_ELF = 2
    Images <- ImagesSmall
SPECIFICATION Spec
INVARIANTS FramesOwnedOnce NothingLost Isolation
