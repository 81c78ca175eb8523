SPECIFICATION Spec
CONSTANTS
    p443 = p443
    p8443 = p8443
    pBad = pBad
    s1 = s1
    s2 = s2
    Ports <- ThreePorts
    Accepted <- GoodPorts
    Servers <- TwoServers
    Unset = Unset
    NoConfig = NoConfig
    MaxRounds = 2
INVARIANTS
    TouchedWhenVisible
    DoneServesWanted
PROPERTIES
    OneIssueBeforeSync
