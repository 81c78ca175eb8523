SPECIFICATION FairSpec
CONSTANTS
    n1 = n1
    a1 = a1
    a2 = a2
    b1 = b1
    None = None
    Family <- TwoFamilies
    Names <- OneName
    Homes <- ThreeHomes
    Record <- SomeRecord
    NoName = NoName
    Missing = Missing
    Free = Free
    Theirs = Theirs
    MaxAttempts = 2
INVARIANT
    RemovalSticks
PROPERTIES
    RecordIsShared
    TakenMeansTaken
    FollowsHome
