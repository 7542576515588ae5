SPECIFICATION FairSpec
CONSTANTS
    PageSize = 512
    BlockAlign = 16
    MmapSize = 1024
    Programs <- MCPrograms
    Constants <- MCConstants
    MaxConstants = 2
INVARIANTS
    LayoutTypeOK
    NeverLonger
    MeasuredSuffices
    BackwardFits
    Lands
PROPERTIES
    Generated
    IsAllocator
