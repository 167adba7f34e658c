SPECIFICATION Spec
CONSTANTS
    k1 = k1
    k2 = k2
    k3 = k3
    w1 = w1
    w2 = w2
    Keys = {k1, k2, k3}
    Calls = {w1, w2}
    Deployed <- Slower
    Messages <- MCMessages
    Max = 2
    Start = 10
    MaxTime = 12
INVARIANTS
    QuietReturnsToZero
