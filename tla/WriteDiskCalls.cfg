SPECIFICATION Spec
CONSTANTS
    A = A
    B = B
    Now = 0
    Zero = Zero
    Paths <- MCPaths
    EntryPaths <- MCEntryPaths
    Targets <- MCTargets
    Sizes <- MCSizes
    Offsets <- MCOffsets
    Disks <- MCDisks
    MaxEntries = 3
    MaxFaults = 1
INVARIANTS FinishedFilesAreWhole FilesHoldTheirOwnData TreeStaysWellFormed OnlyReplacementsLoseTheirTime
PROPERTY FilesAreLostOnlyToEntries
CHECK_DEADLOCK FALSE
