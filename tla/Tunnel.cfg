SPECIFICATION LiveSpec
CONSTANTS
    Copies <- BothWays
    BufSize = 2
    Deadline = 2
    MaxBytes <- ThreeDownTwoUp
    MaxRoom = 1
    MaxClock = 3
    TimerMayFail = TRUE
INVARIANTS
    TypeOK
    CopiesInOrder
    DeadlineMeansIdle
PROPERTIES
    ImplementsPipe
    BytesArrive
    RegisteredDeadlineEnds
CHECK_DEADLOCK FALSE
