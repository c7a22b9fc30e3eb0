SPECIFICATION UndoSpec
CONSTANTS
    FeatureIds = {f1, f2}
    Editors = {c1, c2}
    Null = Null
    MaxArea = 2
    MaxRevision = 3
    MaxHistory = 3
    Attributes <- MCAttributes
    InitialLayer <- MCInitialLayer
    EditsOn <- MCEditsOn
INVARIANT NoLostUpdate
