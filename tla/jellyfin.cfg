SPECIFICATION Spec
CONSTANTS
    u1 = u1
    u2 = u2
    Urls <- TwoUrls
    TheirUrl = TheirUrl
    TheirEntry = TheirEntry
    Source = Source
    TheirProxy = TheirProxy
    NoUrl = NoUrl
    MaxEdits = 2
INVARIANTS
    OneAddress
    DoneIsSaved
    InForceOrTold
PROPERTIES
    TheirsIsKept
