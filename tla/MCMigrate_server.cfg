CONSTANTS
    World <- Worlds
    MaxFaults = 2
    NULL = NULL
SPECIFICATION FairSpec
INVARIANTS
    PlanIsShortest
    NoDeadEnd
    FailureUndone
    DataKept
    ServedWhole
PROPERTIES
    InOrder
    ImplementsUpgrade
    GetsDone
CHECK_DEADLOCK FALSE
