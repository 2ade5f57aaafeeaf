SPECIFICATION MCSpec
CONSTANTS
    Dot = Dot
    DotDot = DotDot
    A = A
    B = B
    Names = {A, B}
    MaxLength = 6
    Paths <- MCComponents
    Destination <- MCDestination
    Chars = {1, 2}
    Separator = 1
    MaxName = 3
    MaxList = 4
INVARIANTS FitLeadsInside HarmfulLeadsElsewhere FixupsAreSorted
CHECK_DEADLOCK FALSE
