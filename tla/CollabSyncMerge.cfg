SPECIFICATION Spec
CONSTANTS
    Workbenches = {w1, w2}
    Comments = {c1, c2, c3}
    Branches = {}
    AgentRuns = {}
    Actors = {1, 2, 3}
    MaxUploads = 2
    MaxCrashes = 0
    None = None
    Torn = Torn
PROPERTY
    MergePreservesComments
CHECK_DEADLOCK FALSE
