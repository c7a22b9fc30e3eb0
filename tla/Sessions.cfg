SPECIFICATION SessionsSpec
CONSTANTS
    Parts = {"scheduler", "composer", "store", "view", "ask", "endpoints", "plugins"}
    Null = Null
    Workflow <- MCTriangle
    Partitions = {p, q}
    Kinds = {"append"}
    Windows <- MCWindow
    MaxRetries = 1
    MaxRuns = 3
    None = None
    TemplateIds = {"nagoya_density", "nagoya_geoparquet"}
    Palette <- MCPalette
    Nodes = {"load-geoparquet", "attach-sources", "resolve-place"}
    NewIds <- MCNewIds
    ComposerEvents = 3
    Procs = {"workbench", "mcp"}
    Workbench = "workbench"
    Layers = {"l1", "l2"}
    Names = {"a", "b"}
    Deriving <- MCDeriving
    StoreRequests = 3
    StoreCrashes = 1
    Ids = {"a", "b", "out"}
    Successor <- MCSuccessor
    Answer = "out"
    Unplaced = {"b"}
    Pages = 2
    Sends = 4
    Questions = {"r1"}
    Replacements = 3
    Endpoints = {"e1", "e2"}
    Urls = {"u", "v"}
    Items = {"i", "k"}
    MaxChanges = 3
    MaxCrashes = 1
    Manifests <- MCManifests
    SigningKeys = {"k1", "k2"}
    Trusted = {"k1"}
    Packs <- MCPacks
    Allowed = {"read_catalog"}
    PackTemplates = {"flood-exposure"}
    Wasm = {"w1", "w2"}
    PluginEvents = 4
SYMMETRY Interchangeable
INVARIANTS
    OutputsAreAccountedFor
    DraftsStayReviewed
    
    QuietPageAgrees
    
    RegistryKeepsItsChanges
    
PROPERTIES
    StacksAreOneLine
CHECK_DEADLOCK FALSE
