SPECIFICATION Spec
CONSTANTS
    NoName = NoName
    Names = {n1}
    Nets <- DirectOnly
    Foreign = {443}
    Forwardable = {443, 8443}
    MaxLaunches = 1
    MaxNetChanges = 0
    MaxRestarts = 0
    SaveMayFail = FALSE
CHECK_DEADLOCK FALSE
INVARIANT AddressNamesTheMappedPort
