SPECIFICATION Spec
CONSTANTS
    a = a
    b = b
    s1 = s1
    s2 = s2
    Vaults = {b}
    Dirs = {a, b}
    DirOf <- Places
    Prefixed <- Prefixes
    Scanners = {s1, s2}
    Guarded = FALSE
    MayFail = TRUE
    Changing = {b}
    MaxStamp = 2
    Damaged = {2}
SYMMETRY Threads
INVARIANTS ClearForgets ScanExact ScanFailsNotAlone
