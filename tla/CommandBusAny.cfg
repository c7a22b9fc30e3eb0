SPECIFICATION AnySpec
CONSTANTS
    Null = Null
    MaxEvents = 3
    FeatureIds = {"f1"}
    Attributes = {"a"}
    ViewIds = {"v1"}
    Cameras = {"north"}
    StyleIds = {"s1"}
    Results = {"r1"}
    Clock <- OneClock
    Graphs <- MCGraphs
    InitialProject <- MCInitialProject
    Requests <- MCWorkflowRequests
    CatalogRequests <- MCCatalogRequests
INVARIANT RestoreFailsClosed
