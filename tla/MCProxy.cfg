CONSTANTS
    e1 = e1
    e2 = e2
    r1 = r1
    r2 = r2
    Egress = {e1, e2}
    Holder = {r1, r2}
    User = {r1, r2}
    Caps = {1, 2}
    Transport <- MCTransport
    Key <- MCKey
    Policies <- MCPolicies
    Confs <- MCConfs
SPECIFICATION ProxyFairSpec
INVARIANTS
    CountMatchesHolders
    QuietIsClean
PROPERTIES
    DialsWithinCap
    InFlightHistorySurvives
    NewestTransportsSurvive
    EveryRequestEnds
CHECK_DEADLOCK FALSE
