CONSTANTS
    e1 = e1
    e2 = e2
    e3 = e3
    Egress = {e1, e2, e3}
    Nobody = Nobody
    Plans <- MCPlans
    Budgets = {1, 2, 3}
    MaxRows = 7
SPECIFICATION ExecFairSpec
INVARIANTS
    CanceledRequestStops
    EvidenceTellsTheStory
PROPERTIES
    ExecTerminates
    ImplementsDispatch
CHECK_DEADLOCK FALSE
