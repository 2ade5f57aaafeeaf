SPECIFICATION Spec
CONSTANTS
    A = A
    B = B
    D = D
    Now = 0
    Zero = Zero
    Paths <- MCPaths
    Dest <- MCDest
    Archives <- MCArchives
    Disks <- MCDisks
    MaxFilters = 2
    MaxEntries = 3
    MaxFaults = 1
    MaxReadFaults = 1
INVARIANTS ProtocolIsKept DataBelongsToItsEntry CompleteWhenNothingFails EverythingIsReleased
PROPERTIES OnlyNamedPlacesChange Termination
