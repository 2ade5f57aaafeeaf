SPECIFICATION Spec
CONSTANTS
    Archives <- MCArchives
    MaxFilters = 3
    MaxReadFaults = 3
INVARIANTS ClosedExactlyOnce OpenWhileReadable
PROPERTIES EndIsForGood OkNeverHidesALostPlace
CHECK_DEADLOCK FALSE
