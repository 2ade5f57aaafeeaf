SPECIFICATION Spec
CONSTANTS
    Nodes = {0, 1, 2, 3, 4}
    Root = 0
    None = None
    Names = {Bin, A, B}
    Bin = Bin
    MaxDepth = 3
    MaxFaults = 0
INVARIANT FlatteningLosesNothing
