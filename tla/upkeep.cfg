SPECIFICATION FairSpec
CONSTANTS
    a1 = a1
    a2 = a2
    Addresses <- TwoAddresses
    Other = Other
    Nobody = Nobody
    Lease = 2
    Grace = 1
    Repeat = 1
    Setups <- FiveSetups
INVARIANTS
    GreenMeansOpen
    BlipsAreSilent
PROPERTIES
    LapsesOnlyUnattended
    LeavesOthersAlone
    ToldWhatIsWrong
    NotToldTwice
    PortIsReopened
