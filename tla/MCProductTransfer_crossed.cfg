SPECIFICATION Spec
CONSTANTS
    p1 = p1
    p2 = p2
    p3 = p3
    Products = {p1, p2, p3}
    Size <- MCSize
    MaxTransfers = 2
    MaxRestarts = 1
INVARIANT
    EpochsDoNotMix
CHECK_DEADLOCK FALSE
