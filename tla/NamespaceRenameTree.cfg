CONSTANTS
    Inodes <- MCInodes
    Runs <- MCRuns
    Images <- MCImages
    Names = {"a", "b"}
    Root = 2
    BlkNames = 1
    MaxBlks = 2
    CutNames = 0
SPECIFICATION Spec
INVARIANT RenameKeepsTree
CHECK_DEADLOCK FALSE
