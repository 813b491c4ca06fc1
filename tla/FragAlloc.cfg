SPECIFICATION Spec
CONSTANTS
    FragsPerBlock = 3
    BlocksPerGroup = 2
    Cyls <- MCCyls
    CylOf <- MCCylOf
    NumGroups = 2
    NdBlk <- MCNdBlk
    Meta <- MCMeta
    MaxErrors = 1
INVARIANTS
    GroupsConsistent
    SummariesConsistent
    NoDoubleAllocation
    NothingUnaccounted
    NoFalseENOSPC
    FreeingAllRestores
PROPERTIES
    PartialBeforeSplit
