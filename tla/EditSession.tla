----------------------------- MODULE EditSession -----------------------------
(***************************************************************************)
(* Several editors of one editable layer.  An editor reads the layer, works*)
(* on what it read, and submits an EditFeatures command that carries the   *)
(* layer revision (and the feature revisions) it saw; the command bus      *)
(* applies the edit only if they are still current                         *)
(* (crates/genegis-core/src/edit.rs, command.rs).                          *)
(*                                                                         *)
(* `before`, `after` and `cursor` are the snapshots CommandBus keeps around*)
(* every edit, reduced to this layer; Undo and Redo restore them.          *)
(***************************************************************************)
EXTENDS EditableLayer

CONSTANTS
    Editors,       \* the clients that edit concurrently
    InitialLayer,  \* the layer the session starts from
    EditsOn(_),    \* the edits a client may propose for a layer it has read
    MaxRevision,   \* bound on the layer revision
    MaxHistory     \* bound on the number of retained snapshots

ASSUME InitialLayerAssumption == InitialLayer \in EditLayers
ASSUME BoundsAssumption == MaxRevision \in Nat /\ MaxHistory \in Nat

VARIABLES
    layer,    \* the stored EditableLayer
    view,     \* view[c]: the layer as client c last read it
    before,   \* before[i]: the layer before the i-th edit of the history
    after,    \* after[i]: the layer after the i-th edit of the history
    cursor    \* how many edits of the history are in effect

vars == <<layer, view, before, after, cursor>>

Init ==
    /\ layer = InitialLayer
    /\ view = [c \in Editors |-> InitialLayer]
    /\ before = << >>
    /\ after = << >>
    /\ cursor = 0

Read(c) ==
    /\ view' = [view EXCEPT ![c] = layer]
    /\ UNCHANGED <<layer, before, after, cursor>>

\* A client submits an edit it prepared on its own view.  A rejected edit
\* leaves the layer as it was, so only acceptance is a step.
Submit(c) ==
    /\ layer.revision < MaxRevision
    /\ cursor < MaxHistory
    /\ \E e \in EditsOn(view[c]) :
          /\ EditAccepted(layer, view[c].revision, e)
          /\ layer' = Edited(layer, e)
          /\ before' = Append(SubSeq(before, 1, cursor), layer)
          /\ after' = Append(SubSeq(after, 1, cursor), Edited(layer, e))
          /\ cursor' = cursor + 1
    /\ UNCHANGED view

Undo ==
    /\ cursor > 0
    /\ layer' = before[cursor]
    /\ cursor' = cursor - 1
    /\ UNCHANGED <<view, before, after>>

Redo ==
    /\ cursor < Len(after)
    /\ layer' = after[cursor + 1]
    /\ cursor' = cursor + 1
    /\ UNCHANGED <<view, before, after>>

\* Edits only, and edits with undo and redo.
Next == \E c \in Editors : Read(c) \/ Submit(c)
UndoNext == Next \/ Undo \/ Redo

Spec == Init /\ [][Next]_vars
UndoSpec == Init /\ [][UndoNext]_vars

-----------------------------------------------------------------------------
\* Optimistic concurrency: an edit is accepted only from a client that has read
\* exactly what is stored, so it overwrites nothing that the client has not
\* seen (EditableLayer::apply; edit.rs says of StaleRevision "Layer and feature
\* revisions prevent lost updates").
NoLostUpdate ==
    \A c \in Editors : \A e \in EditsOn(view[c]) :
        EditAccepted(layer, view[c].revision, e) => view[c] = layer

\* A feature's revision counts edits of that feature, so it never runs ahead of
\* the revision of the layer: not through a merge, which takes the greatest
\* revision of its inputs, nor a split (EditableLayer::apply).
FeatureRevisionsBounded ==
    \A f \in Present(layer) :
        /\ layer.features[f].revision >= 1
        /\ layer.features[f].revision <= layer.revision

\* Split, merge and repair move area between features and neither create nor
\* destroy any (require_area_conservation in apply_split and apply_merge).
TopologyEdits ==
    \A c \in Editors : \A e \in EditsOn(view[c]) :
        e.op \in {"Split", "Merge", "Repair"} /\ EditAccepted(layer, layer.revision, e)
            => TotalArea(Edited(layer, e)) = TotalArea(layer)

\* Whatever sequence of edits led here, every stored feature satisfies
\* the layer's family, ring and schema rules (validate_draft).
StoredFeaturesValid ==
    \A f \in Present(layer) :
        /\ ValidGeometry(layer.features[f].geometry, layer.kind)
        /\ layer.features[f].attributes \in layer.schema

(* Whatever edits were accepted, in whatever order the clients sent them,  *)
(* the stored features satisfy the layer's rules, no feature's revision    *)
(* runs ahead of the layer's, and split, merge and repair still conserve   *)
(* area (EditableLayer::apply).                                            *)
StoredLayerSound ==
    /\ StoredFeaturesValid
    /\ FeatureRevisionsBounded
    /\ TopologyEdits
=============================================================================
