SPECIFICATION LifeSpec
CONSTANTS
    w1 = w1
    Workers = {w1}
    Bus = bus
    Sweeper = sweeper
    Adders = {w1, bus, sweeper}
    Messages = 4
    Depth = 1
    PendingLimit = 2
    Events = 4
    SubjectOf <- MCSubjects
    SizeOf <- MCSizes
    maxItems = 2
    maxSize = 5
    maxPending = 3
    MaxFailures = 1
INVARIANTS
    AcceptedAnswered
    AuditsKept
    Accounted
    InOrder
    KickNotLost
PROPERTIES
    Exits
    Flows
