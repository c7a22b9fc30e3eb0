SPECIFICATION Spec
CONSTANTS
    Null = Null
    MaxEvents = 3
    FeatureIds = {"f1"}
    Attributes = {"a"}
    ViewIds = {"v1"}
    Cameras = {"north"}
    StyleIds = {"s1"}
    Results = {"r1", "r2"}
    Clock <- MCClock
    Graphs <- MCGraphs
    InitialProject <- MCInitialProject
    Requests <- MCAllRequests
    CatalogRequests <- NoRequests
INVARIANTS
    TypeOK
    ReplayRebuilds
    HistoryIsTheProject
PROPERTY AuditAppendOnly
