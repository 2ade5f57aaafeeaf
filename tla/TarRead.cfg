SPECIFICATION Spec
CONSTANTS
    Tapes <- MCTapes
    Record = 2
    BodyLimit = 4
    MaxDepth = 3
    MaxFaults = 1
INVARIANTS EntriesAreTheFiles EndIsTheEnd BlocksAreWhereTheMapSays WarningsAreDeserved
PROPERTY EveryCallReturns
