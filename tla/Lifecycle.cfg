\* Two sizes, both labelled and raw; growth inside a group, into a second and
\* a third one, with and without a longer summary table.
CONSTANTS
    FragsPerBlock  = 4
    BlocksPerGroup = 8
    Cyls  <- MCCyls
    CylOf <- MCCylOf
    Nsect = 4
    Ntrak = 2
    Bsize = 4
    Fsize = 1
    CpgOption = 0
    Nbpi = 4
    BBSize = 1
    SBSize = 1
    Inopb = 8
    FragBytes = 2
    CsumsPerFrag = 1
    MaxCpg = 8
    MaxIpg = 8
    MaxBpg = 8
    MaxFrag = 4
    DesCpg = 4
    MinBsize = 4
    Sizes   = {38, 122}
    Targets = {53, 128, 150}
    MaxGroups = 5
    LabelCopies = 2
    Files  = {4, 5}
    Shapes <- MCShapes
    MaxCalls = 2
    MaxGrows = 2
    MaxCuts  = 1
SPECIFICATION Spec
INVARIANTS
    StoppedSound
    FilesKept
    GroupsBehindSuperblock
    GrowsLikeNew
CHECK_DEADLOCK FALSE
