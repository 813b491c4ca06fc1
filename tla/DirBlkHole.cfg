CONSTANTS
    DirBlkSize = 72
    Names <- MCNames
    NameLen <- MCNameLen
    Inodes = {5}
    Parents = {2, 3}
    Self = 4
    MaxBlks = 2
SPECIFICATION Spec
INVARIANT WalkMatches
CHECK_DEADLOCK FALSE
