SPECIFICATION Spec
CONSTANTS
    c1 = c1
    c2 = c2
    Callers = {c1, c2}
    tier <- SmallTier
    Amounts <- MCAmounts
    Start = 10
    MaxTime = 14
    MaxCalls = 3
    MaxFaults = 1
    Nil = Nil
INVARIANTS
    TypeOK
    NeverOvercounts
    OwnChargeSeen
    QuietReturnsToZero
SYMMETRY CallerSymmetry
