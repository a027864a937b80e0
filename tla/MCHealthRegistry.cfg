CONSTANTS
    Key = {k1, k2}
    Holder = {h1, h2, h3}
    Policies <- MCPolicies
SPECIFICATION HealthFairSpec
PROPERTIES
    PinnedStateSurvives
    CooldownNeverExtended
    CooldownEnds
