SPECIFICATION MCFairSpec
CONSTANTS
    NFrags <- MCNFrags
    Frag = 2
    SbNo = 2
    DMin = 4
    CsFrags = 1
    IMax = 9
    Direct <- MCDirect
    Entries = 2
    Units = 3
    Seeds <- MCSeeds
    LaterMode = "y"
INVARIANT SilentMeansSound MapsExact
PROPERTY RefusedKeepsImage KeepsUntouched Converges
