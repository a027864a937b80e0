CONSTANTS
    MaxRedirects = 2
SPECIFICATION AttemptFair
INVARIANTS
    RequestsCarryWhatTheyMay
    HopsStayOnTheEgress
    NothingIsLeftBehind
    ProxyAuthIsTheProxysWord
PROPERTIES
    AttemptEnds
CHECK_DEADLOCK FALSE
