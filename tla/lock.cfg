SPECIFICATION Spec
CONSTANTS
    p1 = p1
    p2 = p2
    p3 = p3
    p4 = p4
    None = None
    Copies <- FourLaunches
    MaxRecord = 2
CHECK_DEADLOCK FALSE
SYMMETRY Alike
INVARIANTS
    RunnerIsNamed
    StaleOnlyBeside
PROPERTY RefusedByARunner
