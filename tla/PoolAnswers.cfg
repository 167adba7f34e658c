SPECIFICATION Spec
CONSTANTS
    w1 = w1
    w2 = w2
    Workers = {w1, w2}
    Submitter = submitter
    Sweeper = sweeper
    NumTasks = 3
    Depth = 1
    Full = "drop"
    Deadlines = {3}
    Reserve = 1
    MinBudget = 1
    LastArrival = 1
    MaxTime = 2
INVARIANTS
    NoLostWakeup
    CloseDrains
PROPERTIES
    ImplementsAnswering
    CloseReturns
