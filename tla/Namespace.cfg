CONSTANTS
    Inodes <- MCInodes
    Runs <- MCRuns
    Images <- MCImages
    Names = {a, b, c}
    a = a
    b = b
    c = c
    Root = 2
    BlkNames = 1
    MaxBlks = 2
    CutNames = 4
SPECIFICATION Spec
INVARIANTS KeepsTree KeepsCounts KeepsStorage CutLosesNoName
PROPERTY ImplementsTree
SYMMETRY Alike
CHECK_DEADLOCK FALSE
