CONSTANTS
    Width = 5
    DefaultMin = 2
    DefaultMax = 3
SPECIFICATION FairSpec
INVARIANTS TypeOK RangeKept
PROPERTIES FirstFit AllocateEnds
