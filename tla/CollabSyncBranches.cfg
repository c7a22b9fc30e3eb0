SPECIFICATION Spec
CONSTANTS
    Workbenches = {w}
    Comments = {c1, c2}
    Branches = {"draft", "study"}
    AgentRuns = {}
    Actors = {1, 2}
    MaxUploads = 1
    MaxCrashes = 0
    None = None
    Torn = Torn
INVARIANT
    BranchParentsExist
CHECK_DEADLOCK FALSE
