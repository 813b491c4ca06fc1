CONSTANTS
    DirBlkSize = 72
    Names <- MCNames
    NameLen <- MCNameLen
    Inodes = {5}
    Parents = {2, 3}
    Self = 4
    MaxBlks = 2
SPECIFICATION Spec
INVARIANTS ListsExactly Tiled RemovalFreesRoom EmptyAgrees ParentReadable
CHECK_DEADLOCK FALSE
