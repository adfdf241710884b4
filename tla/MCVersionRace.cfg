SPECIFICATION Spec
CONSTANTS
    a = a
    b = b
    Vaults = {a, b}
    SizeOf <- Sizes
    MaxPerVault = 2
    MaxTotalSize = 4
    Past = 1
    MaxTime = 5
    StartupPrune = TRUE
    MtimeRepeats = FALSE
    UnlinkMayFail = FALSE
PROPERTY HarmlessRaces
CHECK_DEADLOCK FALSE
