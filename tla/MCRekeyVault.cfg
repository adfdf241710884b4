SPECIFICATION Spec
CONSTANTS
    p1 = p1
    p2 = p2
    hid = hid
    none = none
    i1 = i1
    i2 = i2
    i3 = i3
    Passwords = {p1, p2}
    HiddenPw = hid
    NoPw = none
    Workers = {1}
    Inodes = {i1, i2, i3}
    Chunks = 2
    HdrLen = 2
    MaxVersions = 2
    MaxCut = 1
    Exclusive = TRUE
SYMMETRY Symmetry
INVARIANTS VaultWhole CompartmentsSurvive VersionsWhole
PROPERTIES VaultChangesOnlyByCommit RegisterSpec
