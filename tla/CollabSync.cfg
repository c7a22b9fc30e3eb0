SPECIFICATION Spec
CONSTANTS
    Workbenches = {w}
    Comments = {c1, c2}
    Branches = {}
    AgentRuns = {r}
    Actors = {1, 2, 3}
    MaxUploads = 1
    MaxCrashes = 1
    None = None
    Torn = Torn
INVARIANTS
    RestartRecovers
    UploadLands
CHECK_DEADLOCK FALSE
