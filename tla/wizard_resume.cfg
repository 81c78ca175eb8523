SPECIFICATION Spec
CONSTANTS
    NoName = NoName
    Names = {n1}
    Nets <- NoMapping
    Foreign = {}
    Forwardable = {}
    MaxLaunches = 2
    MaxNetChanges = 0
    MaxRestarts = 0
    SaveMayFail = TRUE
CHECK_DEADLOCK FALSE
INVARIANTS
    RecordIsNeverRefused
    RecordedNameIsOurs
