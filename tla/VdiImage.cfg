CONSTANTS
    BlockCount = 2
    BlockCells = 2
    DiskCells = 3
    ParentSizes = {0, 2, 3}
    Values = {0, 1}
SPECIFICATION Spec
INVARIANTS ReadsBack HandleCurrent StaleReaderOldOrNew SlotsCounted ReusedOnlyAfterCut RoomForAll
