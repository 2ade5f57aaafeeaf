SPECIFICATION Spec
CONSTANTS
    S = S
    T = T
    Stems = {S, T}
    Folders <- MCFolders
    Folder <- MCFolder
    MaxTries = 3
    Lines <- MCLines
    None = None
    MaxOthers = 2
INVARIANTS FoldersAreNotShared GivesUpWhenAllExist ZeroMeansFolderMade
PROPERTIES OnlyNewFoldersAreFilled Termination
