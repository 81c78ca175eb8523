SPECIFICATION Spec
CONSTANTS
    d1 = d1
    d2 = d2
    d3 = d3
    Devices = {d1, d2, d3}
    Kinds <- HomeKinds
    MaxCandidates = 2
    Patience = 1
    Nobody = Nobody
    Tunnel = Tunnel
SYMMETRY Alike
INVARIANTS
    RouterIsFound
    PointsAtTheMapper
    NoGuessedCGNAT
    FreeingAPortNeverHurts
    DecisionIsActionable
CHECK_DEADLOCK FALSE
