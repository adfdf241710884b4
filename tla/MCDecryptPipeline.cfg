SPECIFICATION Spec
CONSTANTS
    g = g
    w = w
    x = x
    none = none
    f1 = f1
    f2 = f2
    f3 = f3
    Vaults = {g, w, x}
    NoVault = none
    Condition <- Conditions
    Members = {f1, f2}
    Absent = {f3}
    Copies = 3
    MaxBatches = 2
    OtherInstance = TRUE
INVARIANTS OnlyVerified WholeOrNothing SuccessMeansRestored PlaintextGone
PROPERTY OthersKept
