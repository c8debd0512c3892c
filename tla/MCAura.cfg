SPECIFICATION Spec
CONSTANTS
    a = a
    b = b
    c = c
    Signers = {a, b, c}
    Authorities <- InOrder
    Nodes = {a, b, c}
    Period = 2
    MaxLatency = 3
    MaxTime = 11
CHECK_DEADLOCK FALSE
INVARIANTS
    ChainsSound
    NeverStalls
