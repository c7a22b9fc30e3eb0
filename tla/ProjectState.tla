----------------------------- MODULE ProjectState -----------------------------
(***************************************************************************)
(* The Project value (crates/genegis-core/src/{project,workspace,layer}.rs)*)
(* and the mutation every command applies to it                            *)
(* (CommandBus::apply_project_mutation in command.rs).                     *)
(*                                                                         *)
(* A project is [content, updated_at].  `content` is what state_digest     *)
(* covers; `updated_at` stands for the runtime fields that                 *)
(* strip_runtime_fields removes.  The Vecs of the workspace that are keyed *)
(* by an identity are functions on that identity, Null where there is no   *)
(* entry; provenance keeps its order.                                      *)
(***************************************************************************)
EXTENDS EditableLayer

CONSTANTS
    MaxEvents,   \* bound on the number of envelopes a session issues
    ViewIds,     \* the views of the workspace
    Cameras,     \* camera positions
    StyleIds,    \* map style identities
    Results,     \* non-empty result digests of workflow executors
    Graphs,      \* the workflow graphs clients may register
    Clock        \* wall-clock readings of Utc::now()

ASSUME MaxEventsAssumption == MaxEvents \in Nat

\* Envelope identities.  AddLayer names the new layer after its envelope;
\* identity 0 is a layer the project starts with.
EnvelopeIds == 1..MaxEvents
LayerIds == 0..MaxEvents

Layers == [kind : {"Vector", "Raster"}, visible : BOOLEAN, style : StyleIds \cup {Null}]

\* Graph identities; several graphs may claim one identity.
WorkflowIds == {g.id : g \in Graphs}

\* The commands apply_project_mutation knows.
MutationOps ==
    {"AddLayer", "RemoveLayer", "SetLayerVisibility", "SetViewCamera",
     "InitializeEditableLayer", "EditFeatures", "SetEvidenceMapStyle", "RunWorkflow"}

ProvenanceEntries ==
    [id : EnvelopeIds, action : MutationOps, result : Results \cup {Null}]

Contents ==
    [layers     : [LayerIds -> Layers \cup {Null}],
     editable   : [LayerIds -> EditLayers \cup {Null}],
     styles     : [StyleIds -> LayerIds \cup {Null}],
     views      : [ViewIds -> Cameras \cup {Null}],
     provenance : Seq(ProvenanceEntries)]

Projects == [content : Contents, updated_at : Clock \cup EnvelopeIds]

CatalogOps ==
    {"RegisterStacEndpoint", "RemoveStacEndpoint", "SearchFederatedStac",
     "BindStacAsset", "ReadRemoteGeoParquet"}

Commands ==
    [op : {"AddLayer", "Undo", "Redo"} \cup CatalogOps]
    \cup [op : {"RemoveLayer"}, target : LayerIds]
    \cup [op : {"SetLayerVisibility"}, target : LayerIds, visible : BOOLEAN]
    \cup [op : {"SetViewCamera"}, target : ViewIds, camera : Cameras]
    \cup [op : {"InitializeEditableLayer"}, target : LayerIds, kind : Families,
          schema : SUBSET Attributes, workflow : WorkflowIds, node : STRING]
    \cup [op : {"EditFeatures"}, target : LayerIds, expected : Nat, edit : Edits,
          workflow : WorkflowIds, node : STRING]
    \cup [op : {"SetEvidenceMapStyle"}, target : LayerIds, style : StyleIds,
          valid : BOOLEAN, workflow : WorkflowIds, node : STRING]
    \cup [op : {"RunWorkflow"}, workflow : WorkflowIds]

\* Project::state_digest: the canonical JSON without runtime fields.
StateDigest(p) == p.content

-----------------------------------------------------------------------------
(* apply_project_mutation, one pair per command: what is checked against    *)
(* the project, and the content the command leaves (provenance aside).      *)

NewLayer == [kind |-> "Vector", visible |-> TRUE, style |-> Null]

AddLayerAccepted(c, env) == c.layers[env.id] = Null
LayerAdded(c, env) == [c EXCEPT !.layers[env.id] = NewLayer]

LayerExists(c, id) == c.layers[id] # Null

\* Only the layer goes: its editable state and its styles stay behind.
LayerRemoved(c, cmd) == [c EXCEPT !.layers[cmd.target] = Null]

VisibilitySet(c, cmd) == [c EXCEPT !.layers[cmd.target].visible = cmd.visible]

CameraSet(c, cmd) == [c EXCEPT !.views[cmd.target] = cmd.camera]

InitializeAccepted(c, cmd) ==
    /\ LayerExists(c, cmd.target)
    /\ c.layers[cmd.target].kind = "Vector"
    /\ c.editable[cmd.target] = Null

EditableInitialized(c, cmd) ==
    [c EXCEPT !.editable[cmd.target] = NewEditLayer(cmd.kind, cmd.schema)]

EditFeaturesAccepted(c, cmd) ==
    /\ c.editable[cmd.target] # Null
    /\ EditAccepted(c.editable[cmd.target], cmd.expected, cmd.edit)

FeaturesEdited(c, cmd) ==
    [c EXCEPT !.editable[cmd.target] = Edited(@, cmd.edit)]

StyleAccepted(c, cmd) == cmd.valid /\ LayerExists(c, cmd.target)

\* The style record of the project, and the layer that refers to it.
StyleSet(c, cmd) ==
    LET styled == [c EXCEPT !.layers[cmd.target].style = cmd.style]
    IN  [styled EXCEPT !.styles[cmd.style] = cmd.target]

\* Catalog commands, Undo and Redo are not project mutations.
MutationAccepted(c, env) ==
    LET cmd == env.command IN
    \/ cmd.op = "AddLayer" /\ AddLayerAccepted(c, env)
    \/ cmd.op \in {"RemoveLayer", "SetLayerVisibility"} /\ LayerExists(c, cmd.target)
    \/ cmd.op = "SetViewCamera" /\ c.views[cmd.target] # Null
    \/ cmd.op = "InitializeEditableLayer" /\ InitializeAccepted(c, cmd)
    \/ cmd.op = "EditFeatures" /\ EditFeaturesAccepted(c, cmd)
    \/ cmd.op = "SetEvidenceMapStyle" /\ StyleAccepted(c, cmd)
    \/ cmd.op = "RunWorkflow"

ContentAfter(c, env) ==
    LET cmd == env.command IN
    CASE cmd.op = "AddLayer"                -> LayerAdded(c, env)
      [] cmd.op = "RemoveLayer"             -> LayerRemoved(c, cmd)
      [] cmd.op = "SetLayerVisibility"      -> VisibilitySet(c, cmd)
      [] cmd.op = "SetViewCamera"           -> CameraSet(c, cmd)
      [] cmd.op = "InitializeEditableLayer" -> EditableInitialized(c, cmd)
      [] cmd.op = "EditFeatures"            -> FeaturesEdited(c, cmd)
      [] cmd.op = "SetEvidenceMapStyle"     -> StyleSet(c, cmd)
      [] OTHER                              -> c

\* The target and the details of an entry are functions of the envelope, which
\* the entry names, and of the executor's result.
ProvenanceEntry(env, result) ==
    [id |-> env.id, action |-> env.command.op, result |-> result]

\* Faulty variant: moving the camera leaves no provenance.
MutatedCameraUnrecorded(c, env, result) ==
    IF env.command.op = "SetViewCamera" THEN ContentAfter(c, env)
    ELSE [ContentAfter(c, env) EXCEPT
            !.provenance = Append(@, ProvenanceEntry(env, result))]

\* The content after the command, its provenance entry included.
MutatedContent(c, env, result) ==
    [ContentAfter(c, env) EXCEPT !.provenance = Append(@, ProvenanceEntry(env, result))]

\* AddLayer stamps the workspace with Utc::now(), RunWorkflow leaves the stamp
\* alone, every other command copies the envelope's own timestamp (which is
\* identified here by the envelope).
StampAfter(p, env, now) ==
    CASE env.command.op = "AddLayer"    -> now
      [] env.command.op = "RunWorkflow" -> p.updated_at
      [] OTHER                          -> env.id

Mutated(p, env, result, now) ==
    [content    |-> MutatedContent(p.content, env, result),
     updated_at |-> StampAfter(p, env, now)]

-----------------------------------------------------------------------------
(***************************************************************************)
(* The authorization of the inputs of a RunWorkflow command:               *)
(* validate_input_snapshots and same_source_identity of                    *)
(* crates/genegis-core/src/command.rs.                                     *)
(*                                                                         *)
(* A source snapshot is [bytes, dataset, fetched]: the identity of what was*)
(* read (URI, checksum, license, revision), the catalog dataset it says it *)
(* belongs to (Null when none) and the retrieval time.  A contract is      *)
(* [name, source], source = Null when the graph does not pin the input; a  *)
(* named input is [name, source].                                          *)
(***************************************************************************)

SameSourceIdentity(s, t) == s.bytes = t.bytes /\ s.dataset = t.dataset

Pinned(contracts) ==
    {i \in DOMAIN contracts : contracts[i].source # Null}

\* The index of the first element of seq with this name, Null if there is none
\* (Rust's iter().find).
FirstNamed(seq, name) ==
    IF \E i \in DOMAIN seq : seq[i].name = name
    THEN CHOOSE i \in DOMAIN seq :
            /\ seq[i].name = name
            /\ \A j \in 1..(i - 1) : seq[j].name # name
    ELSE Null

KnownSource(contracts, s) ==
    \E i \in Pinned(contracts) : SameSourceIdentity(s, contracts[i].source)

BelongsToContract(contracts, s) ==
    \E i \in Pinned(contracts) :
        s.dataset # Null /\ contracts[i].source.dataset = s.dataset

\* An asset selected from a catalog: it names a dataset no contract pins.
SupplementalSource(contracts, s) ==
    s.dataset # Null /\ ~BelongsToContract(contracts, s)

SourceAuthorized(contracts, s) ==
    \/ KnownSource(contracts, s)
    \/ SupplementalSource(contracts, s)
    \/ contracts = << >>

InputAuthorized(contracts, input) ==
    LET i == FirstNamed(contracts, input.name)
    IN  /\ i # Null
        /\ contracts[i].source # Null
              => SameSourceIdentity(input.source, contracts[i].source)

ContractSatisfied(contract, sources, inputs) ==
    LET i == FirstNamed(inputs, contract.name)
    IN  \/ i # Null /\ SameSourceIdentity(inputs[i].source, contract.source)
        \/ \E j \in DOMAIN sources : SameSourceIdentity(sources[j], contract.source)

ValidateInputSnapshots(contracts, sources, inputs) ==
    /\ \A j \in DOMAIN sources : SourceAuthorized(contracts, sources[j])
    /\ \A j \in DOMAIN inputs : InputAuthorized(contracts, inputs[j])
    /\ \A i \in Pinned(contracts) : ContractSatisfied(contracts[i], sources, inputs)
=============================================================================
