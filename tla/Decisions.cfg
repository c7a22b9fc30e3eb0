SPECIFICATION Spec
CONSTANTS
    Families = {"workflow", "prompt", "density", "levels", "graph", "plan", "question", "model", "overlay", "grid", "federation", "private", "contract", "seal", "mix", "document", "publish", "prov", "bridge", "narrative", "admission", "engine", "service", "geocode", "work", "ranges", "tiles", "curve", "view", "remote", "scenario", "walk"}
    MaxNodes = 4
INVARIANTS
    WorkflowVerdictsExact
    ResolvedPromptsRun
    TrustIsMonotone
    PlansAnswerTheQuestion
    
    SearchesAreIsolated
    
    ExportsBindOneResult
    AdaptersRunAsReviewed
    RemoteReadsAreExact
    ScenarioMergesAreReviewed
    
CHECK_DEADLOCK FALSE
