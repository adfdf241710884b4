SPECIFICATION LayoutSpec
CONSTANTS
    Mib = 8
    BigFrom = 120
    BigStep = 12
    MiniHeader = 3
    Slack = 2
    Bodies <- SomeBodies
    Sections = {4, 20}
    Floors = {0, 2}
    Estimates = {0, 50}
    Hashes <- SomeHashes
    PowersOfTen = {10, 100, 1000}
    FixRounds = 8
    MaxRounds = 6
INVARIANTS PaddingBounded Apart ReaderFinds SizeAsAdvertised
CHECK_DEADLOCK FALSE
