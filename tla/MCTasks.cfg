CONSTANTS
    Main = Main
    Idle = Idle
    NULL = NULL
    MAX_TASKS = 3
    LOOPS = 1
    Preemptible <- OutsideSchedule
SPECIFICATION FairSpec
INVARIANTS
    RingClosed
    RingIsOneCycle
    SettledTask
    StackParked
PROPERTIES
    DeadStaysDead
    ReadyRuns
CHECK_DEADLOCK FALSE
