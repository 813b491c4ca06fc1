CONSTANTS
    Files = {f, g}
    NBlocks = 20
    FragsPerBlock = 2
    Direct = 2
    Entries = 2
    Sizes = {0, 3, 18}
    Writes <- MCWrites
    MaxCalls = 3
    MaxErrors = 2
    f = f
    g = g
SPECIFICATION Spec
INVARIANTS ReadsOldOrNew NamedFilesBacked NothingLost BlocksCounted
SYMMETRY MCSymmetry
CHECK_DEADLOCK FALSE
