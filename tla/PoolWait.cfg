SPECIFICATION Spec
CONSTANTS
    w1 = w1
    w2 = w2
    Workers = {w1, w2}
    Submitter = submitter
    Sweeper = sweeper
    NumTasks = 3
    Depth = 1
    Full = "wait"
    Deadlines = {1, 2}
    Reserve = 1
    MinBudget = 0
    LastArrival = 1
    MaxTime = 2
INVARIANTS
    TypeOK
    ExactlyOnce
    QueueBound
    Conservation
    SleepsForAReason
PROPERTIES
    NoPrematureExpiry
SYMMETRY WorkerSymmetry
