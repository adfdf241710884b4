SPECIFICATION FairSpec
CONSTANTS
    a = a
    b = b
    none = none
    Kinds = {"encrypt", "decrypt", "inspect", "extract", "note"}
    Vaults = {a, b}
    NoVault = none
    Workers = {1, 2}
    QueueSize = 2
    MayRebuild = TRUE
    MayDrop = TRUE
    MayGoOn = FALSE
INVARIANTS OneOperation ContextMatches ButtonsComeBack
PROPERTY FlagComesDown
