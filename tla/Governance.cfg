SPECIFICATION Spec
CONSTANTS
    Subjects = {ann, bob, cho}
    Roles <- MCRoles
    Capabilities <- MCCapabilities
    Projects = {p}
    Actions <- MCActions
    Capability <- MCCapability
    Threshold <- MCThreshold
    Resources = {d}
    Times = {t}
    MaxEvents = 4
    None = None
SYMMETRY Symmetry
INVARIANTS
    SeparationOfDuties
    AuditChainVerifies
    AuditAttestsApprovals
PROPERTIES
    OnlyTheSameRequestReopens
CHECK_DEADLOCK FALSE
