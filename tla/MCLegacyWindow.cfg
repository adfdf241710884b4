SPECIFICATION Spec
CONSTANTS
    f = f
    h = h
    w1 = w1
    w2 = w2
    Files = {f}
    Hidden = {h}
    Workers = {w1, w2}
    Kinds = {"encrypt", "hide", "rekey", "decrypt", "extract", "other"}
    Copies = 2
    MaxOps = 2
    MayDrop = TRUE
    WipeMayFail = TRUE
SYMMETRY Symmetry
INVARIANTS NothingLost VaultWhole FlagOwned NoEmptyPassword ExitClean TempsGone
CHECK_DEADLOCK FALSE
