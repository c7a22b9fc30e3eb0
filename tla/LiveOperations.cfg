SPECIFICATION Spec
CONSTANTS
    Policies <- MCPolicies
    Rules <- MCRules
    Values = {0, 1}
    Limit = 2
    AckIds = {a1, a2}
    MaxTime = 2
    MaxObservations = 2
    MaxPages = 2
    MaxSealed = 3
    Null = Null
SYMMETRY Symmetry
INVARIANTS
    SealedHistory
    AcknowledgementsAppendOnly
    ViewsLinked
CHECK_DEADLOCK FALSE
