SPECIFICATION Spec
CONSTANTS
    A = A
    B = B
    D = D
    Now = 0
    Zero = Zero
    Paths <- MCPaths
    Dest <- MCDest
    Archives <- MCArchives
    Disks <- MCDisks
    MaxFilters = 2
    MaxEntries = 1
    MaxFaults = 0
    MaxReadFaults = 1
INVARIANT FailureIsReported
