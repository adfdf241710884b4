SPECIFICATION Spec
CONSTANTS
    a = a
    b = b
    Vaults = {a, b}
    SizeOf <- Sizes
    MaxPerVault = 2
    MaxTotalSize = 4
    Past = 1
    MaxTime = 5
    StartupPrune = TRUE
    MtimeRepeats = TRUE
    UnlinkMayFail = FALSE
INVARIANTS CountKept SizeKept SavedUnlessOlder
PROPERTY NoNeedlessLoss
CHECK_DEADLOCK FALSE
