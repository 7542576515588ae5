SPECIFICATION Spec
CONSTANTS
    PageSize = 512
    BlockAlign = 16
    MmapSize = 1024
    Programs <- MCPrograms
    Constants <- NoConstants
    MaxConstants = 0
INVARIANT ShortFits
