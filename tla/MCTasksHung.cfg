CONSTANTS
    Main = Main
    Idle = Idle
    NULL = NULL
    MAX_TASKS = 3
    LOOPS = 1
    Preemptible <- OutsideSchedule
SPECIFICATION Spec
INVARIANT NeverHung
CHECK_DEADLOCK FALSE
