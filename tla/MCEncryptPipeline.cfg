SPECIFICATION FairSpec
CONSTANTS
    a = a
    b = b
    c = c
    d = d
    top = top
    Files = {a, c}
    Folders = {d}
    Top = top
    Home <- HomeOf
    Copies = 2
    MaxBatches = 1
    MaxMishaps = 1
    OutInside = FALSE
    FoldersInLists = FALSE
    MayAdd = TRUE
    OtherInstance = TRUE
INVARIANTS NothingLost TempsGone
PROPERTIES NoVaultReplaced BatchEnds
