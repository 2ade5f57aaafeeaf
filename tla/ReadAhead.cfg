SPECIFICATION Spec
CONSTANTS
    Layouts <- MCLayouts
    BlockSize = 2
    SkipLimit = 2
    Asks = {2, 3}
    Offsets <- MCOffsets
    MaxBeyond = 1
    MaxFaults = 1
INVARIANTS WindowsStayInTheirBuffers WindowsAreTheStream
PROPERTIES ReadsOneStream EveryCallReturns
