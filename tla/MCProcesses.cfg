CONSTANTS
    Main = Main
    Idle = Idle
    NULL = NULL
    MAX_TASKS = 2
    LOOPS = 0
    Preemptible <- OutsideSchedule
    MAX_USER_PROCESSES = 2
    MAX_ADDRESS_SPACES = 2
    MAX_STARTS = 2
    Commands <- SomeCommands
    Calls <- UserCall
    Overlap = "waiting"
    ShellPreemptible <- OutsideLinkAndKill
    UserPreemptible <- UPC
SPECIFICATION ProcSpec
INVARIANTS
    UserIdentity
    LinkedOneToOne
    HeldProcess
    Cr3Live
    BuiltinTasks
PROPERTIES
    Lifecycle
    SchedulerRefined
CHECK_DEADLOCK FALSE
