CONSTANTS
    Main = Main
    Idle = Idle
    NULL = NULL
    MAX_TASKS = 2
    LOOPS = 1
    Preemptible <- OutsideSchedule
    MAX_USER_PROCESSES = 2
    MAX_ADDRESS_SPACES = 2
    MAX_STARTS = 2
    Commands <- LiveCommands
    Calls <- LiveCalls
    Overlap = "none"
    ShellPreemptible <- OutsideLinkAndKill
    UserPreemptible <- UPC
SPECIFICATION ProcFairSpec
PROPERTIES
    ReadyStarts
    
CHECK_DEADLOCK FALSE
