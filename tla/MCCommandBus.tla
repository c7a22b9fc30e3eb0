---------------------------- MODULE MCCommandBus ----------------------------
EXTENDS CommandBus

\* One raster and no vector layer to start with would make most commands
\* impossible: the initial project has a vector layer (identity 0) and a view.
MCContent ==
    [layers     |-> [l \in LayerIds |-> IF l = 0 THEN NewLayer ELSE Null],
     editable   |-> [l \in LayerIds |-> Null],
     styles     |-> [s \in StyleIds |-> Null],
     views      |-> [v \in ViewIds |-> CHOOSE c \in Cameras : TRUE],
     provenance |-> << >>]

MCInitialProject ==
    [content |-> MCContent, updated_at |-> CHOOSE t \in Clock : TRUE]

\* Two sources of one dataset: the pinned bytes and other bytes.
Source(bytes, dataset) == [bytes |-> bytes, dataset |-> dataset, fetched |-> 0]
PinnedSource == Source("pinned", "d1")
OtherSource == Source("other", "d1")

Contract(name, source) == [name |-> name, source |-> source]

RunGraph ==
    [id |-> "w1", digest |-> "g1", valid |-> TRUE,
     nodes |-> [n \in {"load"} |-> "LoadVector"],
     contracts |-> <<Contract("in", PinnedSource)>>]

EditGraph ==
    [id |-> "w2", digest |-> "g3", valid |-> TRUE,
     nodes |-> [n \in {"init", "create", "style"} |->
                  CASE n = "init"   -> "InitializeEditableLayer"
                    [] n = "create" -> "EditFeatureCreate"
                    [] n = "style"  -> "SetEvidenceMapStyle"],
     contracts |-> << >>]

BrokenGraph == [RunGraph EXCEPT !.id = "w3", !.valid = FALSE]

Request(command, digest, sources) ==
    [command |-> command, digest |-> digest, sources |-> sources, inputs |-> << >>]

Plain(command) == Request(command, Null, << >>)

UndoRedo == {Plain([op |-> "Undo"]), Plain([op |-> "Redo"])}

LayerRequests ==
    {Plain([op |-> "AddLayer"]),
     Plain([op |-> "RemoveLayer", target |-> 0]),
     Plain([op |-> "SetLayerVisibility", target |-> 0, visible |-> FALSE])}

RunRequests ==
    {Request([op |-> "RunWorkflow", workflow |-> "w1"], d, <<s>>) :
        d \in {"g1", "g2"}, s \in {PinnedSource, OtherSource}}

Polygon == [shape |-> "Polygon", area |-> 1, closed |-> TRUE, dups |-> FALSE]

EditRequests ==
    {Request([op |-> "InitializeEditableLayer", target |-> 0, kind |-> "Polygon",
              schema |-> Attributes, workflow |-> "w2", node |-> "init"], "g3", << >>),
     Request([op |-> "SetEvidenceMapStyle", target |-> 0, style |-> "s1",
              valid |-> TRUE, workflow |-> "w2", node |-> "style"], "g3", << >>)}
    \cup
    {Request([op |-> "EditFeatures", target |-> 0, expected |-> r,
              edit |-> [op |-> "Create",
                        feature |-> [id |-> "f1", geometry |-> Polygon, attributes |-> "a"]],
              workflow |-> "w2", node |-> n], "g3", << >>) :
        r \in {0, 1}, n \in {"create", "style"}}

ViewRequests ==
    {Plain([op |-> "SetViewCamera", target |-> v, camera |-> c]) :
        v \in ViewIds, c \in Cameras}

MCGraphs == {RunGraph, EditGraph, BrokenGraph}

MCWorkflowRequests == UndoRedo \cup RunRequests \cup {Plain([op |-> "AddLayer"])}
MCMutationRequests == UndoRedo \cup LayerRequests \cup ViewRequests \cup EditRequests
MCAllRequests == MCWorkflowRequests \cup MCMutationRequests

MCCatalogRequests == {Plain([op |-> "RegisterStacEndpoint"])}
NoRequests == {}

\* Two wall-clock readings, distinct from every envelope.
MCClock == {-1, -2}
OneClock == {-1}
=============================================================================
