SPECIFICATION Spec
CONSTANTS
    NoLink = NoLink
    Formats = {"tar", "mtree", "zip", "cpio_svr4_nocrc"}
    Works <- MCWorks
    Sizes = {1, 2}
    MaxFaults = 3
INVARIANTS NoEntryIsForgotten LinksShareOneCopy ZeroMeansArchived
PROPERTY Termination
CHECK_DEADLOCK FALSE
