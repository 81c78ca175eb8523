SPECIFICATION Spec
CONSTANTS
    NoName = NoName
    Names = {n1, n2}
    Nets <- NoMapping
    Foreign = {}
    Forwardable = {}
    MaxLaunches = 2
    MaxNetChanges = 0
    MaxRestarts = 1
    SaveMayFail = FALSE
CHECK_DEADLOCK FALSE
SYMMETRY Alike
INVARIANT DoneIsCoherent
PROPERTIES
    ProgressSpec
    InstallsUnderARecordedName
    ForgetsOnlyWhatItReported
