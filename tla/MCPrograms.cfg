CONSTANTS
    WORD = 200
    PAGE = 40
    STACK_TOP = 160
    MAX_FRAMES = 4
    MAX_REGIONS = 3
    LEN = 44
    NameChar <- Letters
    UpperOf <- Upper
    BASE = 2
    EXT = 1
    VFS_MAX_PATH = 7
    PTR = 2
    USER_MAX_ARGS = 3
    USER_ARG_MAX = 7
    MAX_USER_BUFFER = 44
    MAX_USER_STRING = 8
    POINTERS <- Some
    LENGTHS = {0, 1, 2, 44, 45, 199}
    USER_LOAD_ADDR = 40
    USER_BIN_HEADER_SIZE = 1
    USER_MAX_IMAGE_FRAMES = 2
    ProgramAt <- AtProgram
    Directories <- SomeDirectories
    Sessions <- SomeSessions
SPECIFICATION LSpec
INVARIANTS LoadedAsLinked NothingElse StackApart OnlyOwnMemory ValidAccepted ArgvAsTyped 
CHECK_DEADLOCK FALSE
