SPECIFICATION FairSpec
CONSTANTS
    NoName = NoName
    Names = {n1}
    Nets <- AllNets
    Foreign = {443}
    Forwardable = {443, 8443}
    MaxLaunches = 1
    MaxNetChanges = 1
    MaxRestarts = 1
    SaveMayFail = FALSE
CHECK_DEADLOCK FALSE
INVARIANT DoneIsCoherent
PROPERTIES
    OperationEnds
    OperationsRunOut
