SPECIFICATION Spec
CONSTANTS
    a = a
    b = b
    c = c
    d = d
    top = top
    Files = {a, c}
    Folders = {d}
    Top = top
    Home <- HomeOf
    Copies = 2
    MaxBatches = 1
    MaxMishaps = 0
    OutInside = FALSE
    FoldersInLists = TRUE
    MayAdd = FALSE
    OtherInstance = FALSE
INVARIANT NothingLost
