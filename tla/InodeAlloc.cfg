SPECIFICATION Spec
CONSTANTS
    NumGroups = 2
    InodesPerGroup = 4
    MaxErrors = 1
INVARIANTS
    CountersMatch
    SummariesConsistent
    OneHolder
    NoFalseENOSPC
