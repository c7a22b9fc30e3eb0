---------------------------- MODULE EditableLayer ----------------------------
(***************************************************************************)
(* The revisioned feature store attached to a vector layer                 *)
(* (crates/genegis-core/src/edit.rs).  Everything here is a value: a layer *)
(* is a record, an edit is a record, `EditAccepted` is the conjunction of the   *)
(* checks that EditableLayer::apply makes before it changes anything, and  *)
(* `Edited` is the layer it leaves behind.                                *)
(*                                                                         *)
(* A geometry is reduced to what those checks tell apart: its family, its  *)
(* area (in whole area units), whether its rings are closed and whether    *)
(* they repeat a vertex.  A schema is the set of attribute values that     *)
(* validate_attributes accepts under it.                                   *)
(***************************************************************************)
EXTENDS Integers, Sequences, FiniteSets, FiniteSetsExt, Functions

CONSTANTS
    FeatureIds,   \* feature identities (non-blank, at most 256 bytes)
    Attributes,   \* attribute maps a draft may carry
    Null          \* Rust's None; also "no entry" in a map

Families == {"Point", "LineString", "Polygon"}

Geometries ==
    [shape  : {"Point", "LineString", "Polygon", "MultiPolygon"},
     area   : Nat,
     closed : BOOLEAN,
     dups   : BOOLEAN]

Features == [revision : Nat, geometry : Geometries, attributes : Attributes]

Drafts == [id : FeatureIds, geometry : Geometries, attributes : Attributes]

Edits ==
    [op : {"Create"}, feature : Drafts]
    \cup [op : {"Update"}, feature : Drafts, expected : Nat]
    \cup [op : {"Delete", "Repair"}, id : FeatureIds, expected : Nat]
    \cup [op : {"Split"}, id : FeatureIds, expected : Nat, parts : Seq(Drafts)]
    \cup [op : {"Merge"}, ids : Seq(FeatureIds), expected : Seq(Nat), merged : Drafts]

EditLayers ==
    [kind     : Families,
     schema   : SUBSET Attributes,
     revision : Nat,
     features : [FeatureIds -> Features \cup {Null}]]

Family(g) == IF g.shape = "MultiPolygon" THEN "Polygon" ELSE g.shape

Area(g) == IF Family(g) = "Polygon" THEN g.area ELSE 0

\* FeatureGeometry::repair: drop repeated vertices, close the rings.
Repaired(g) ==
    IF Family(g) = "Polygon"
    THEN [shape |-> g.shape, area |-> g.area, closed |-> TRUE, dups |-> FALSE]
    ELSE g

\* Rings closed, area finite and positive after holes.
ValidGeometry(g, kind) ==
    /\ Family(g) = kind
    /\ kind = "Polygon" => g.closed /\ g.area \in Nat /\ g.area > 0

ValidDraft(layer, draft) ==
    /\ ValidGeometry(draft.geometry, layer.kind)
    /\ draft.attributes \in layer.schema

\* The tolerance of require_area_conservation is one part per million.
AreaConserved(input, output) ==
    LET gap     == IF input > output THEN input - output ELSE output - input
        largest == IF input > output THEN input ELSE output
    IN  gap * 1000000 <= largest

NewEditLayer(kind, schema) ==
    [kind |-> kind, schema |-> schema, revision |-> 0,
     features |-> [f \in FeatureIds |-> Null]]

Present(layer) == {f \in FeatureIds : layer.features[f] # Null}

HasRevision(layer, f, expected) ==
    /\ layer.features[f] # Null
    /\ layer.features[f].revision = expected

IntoFeature(draft, revision) ==
    [revision   |-> revision,
     geometry   |-> draft.geometry,
     attributes |-> draft.attributes]

DraftIds(drafts) == {drafts[i].id : i \in DOMAIN drafts}

PartsArea(drafts) ==
    MapThenSumSet(LAMBDA i : Area(drafts[i].geometry), DOMAIN drafts)

\* The members of a merge, gathered into one multipolygon.
Gathered(layer, ids) ==
    LET Member(f) == layer.features[f].geometry
    IN  [shape  |-> "MultiPolygon",
         area   |-> MapThenSumSet(LAMBDA f : Area(Member(f)), ids),
         closed |-> \A f \in ids : Member(f).closed,
         dups   |-> \E f \in ids : Member(f).dups]

-----------------------------------------------------------------------------
(* The edits.  Each pair is (what apply checks, the features it leaves).    *)

CreateAccepted(layer, e) ==
    /\ ValidDraft(layer, e.feature)
    /\ layer.features[e.feature.id] = Null

Created(layer, e) ==
    [layer.features EXCEPT ![e.feature.id] = IntoFeature(e.feature, 1)]

\* Faulty variant: the new draft is not validated.
UpdateUnchecked(layer, e) == HasRevision(layer, e.feature.id, e.expected)

UpdateAccepted(layer, e) ==
    /\ ValidDraft(layer, e.feature)
    /\ HasRevision(layer, e.feature.id, e.expected)

Updated(layer, e) ==
    [layer.features EXCEPT ![e.feature.id] =
        IntoFeature(e.feature, e.expected + 1)]

DeleteAccepted(layer, e) == HasRevision(layer, e.id, e.expected)

Deleted(layer, e) == [layer.features EXCEPT ![e.id] = Null]

\* Faulty variant: the area of the parts is not compared with the source.
SplitAnyArea(layer, e) ==
    /\ HasRevision(layer, e.id, e.expected)
    /\ Len(e.parts) >= 2
    /\ \A i \in DOMAIN e.parts :
          /\ ValidDraft(layer, e.parts[i])
          /\ \A j \in DOMAIN e.parts : e.parts[i].id = e.parts[j].id => i = j
          /\ e.parts[i].id # e.id => layer.features[e.parts[i].id] = Null

SplitAccepted(layer, e) ==
    /\ HasRevision(layer, e.id, e.expected)
    /\ Len(e.parts) >= 2
    /\ \A i \in DOMAIN e.parts :
          /\ ValidDraft(layer, e.parts[i])
          /\ \A j \in DOMAIN e.parts : e.parts[i].id = e.parts[j].id => i = j
          /\ e.parts[i].id # e.id => layer.features[e.parts[i].id] = Null
    /\ AreaConserved(Area(layer.features[e.id].geometry), PartsArea(e.parts))

SplitUp(layer, e) ==
    [f \in FeatureIds |->
        IF f \in DraftIds(e.parts)
        THEN LET i == CHOOSE i \in DOMAIN e.parts : e.parts[i].id = f
             IN  IntoFeature(e.parts[i], e.expected + 1)
        ELSE IF f = e.id THEN Null ELSE layer.features[f]]

\* The geometry of the merged draft is overwritten by the gathered members,
\* so the area check that follows compares a sum with itself.
MergedDraft(layer, e) ==
    [e.merged EXCEPT !.geometry = Gathered(layer, Range(e.ids))]

MergeAccepted(layer, e) ==
    /\ Len(e.ids) >= 2
    /\ Len(e.ids) = Len(e.expected)
    /\ Cardinality(Range(e.ids)) = Len(e.ids)
    /\ \A i \in DOMAIN e.ids :
          /\ HasRevision(layer, e.ids[i], e.expected[i])
          /\ Family(layer.features[e.ids[i]].geometry) = "Polygon"
    /\ ValidDraft(layer, MergedDraft(layer, e))
    /\ e.merged.id \notin Range(e.ids) => layer.features[e.merged.id] = Null

Merged(layer, e) ==
    [f \in FeatureIds |->
        IF f = e.merged.id
        THEN IntoFeature(MergedDraft(layer, e), 1 + Max(Range(e.expected)))
        ELSE IF f \in Range(e.ids) THEN Null ELSE layer.features[f]]

RepairedDraft(layer, e) ==
    [id         |-> e.id,
     geometry   |-> Repaired(layer.features[e.id].geometry),
     attributes |-> layer.features[e.id].attributes]

RepairAccepted(layer, e) ==
    /\ HasRevision(layer, e.id, e.expected)
    /\ ValidDraft(layer, RepairedDraft(layer, e))

RepairedFeatures(layer, e) ==
    [layer.features EXCEPT ![e.id] =
        IntoFeature(RepairedDraft(layer, e), e.expected + 1)]

-----------------------------------------------------------------------------
(* EditableLayer::apply.                                                    *)

\* Faulty variant: only feature revisions are compared.
EditAnyLayerRevision(layer, expected, e) ==
    \/ e.op = "Create" /\ CreateAccepted(layer, e)
    \/ e.op = "Update" /\ UpdateAccepted(layer, e)
    \/ e.op = "Delete" /\ DeleteAccepted(layer, e)
    \/ e.op = "Split"  /\ SplitAccepted(layer, e)
    \/ e.op = "Merge"  /\ MergeAccepted(layer, e)
    \/ e.op = "Repair" /\ RepairAccepted(layer, e)

EditAccepted(layer, expected, e) ==
    /\ layer.revision = expected
    /\ \/ e.op = "Create" /\ CreateAccepted(layer, e)
       \/ e.op = "Update" /\ UpdateAccepted(layer, e)
       \/ e.op = "Delete" /\ DeleteAccepted(layer, e)
       \/ e.op = "Split"  /\ SplitAccepted(layer, e)
       \/ e.op = "Merge"  /\ MergeAccepted(layer, e)
       \/ e.op = "Repair" /\ RepairAccepted(layer, e)

FeaturesAfter(layer, e) ==
    CASE e.op = "Create" -> Created(layer, e)
      [] e.op = "Update" -> Updated(layer, e)
      [] e.op = "Delete" -> Deleted(layer, e)
      [] e.op = "Split"  -> SplitUp(layer, e)
      [] e.op = "Merge"  -> Merged(layer, e)
      [] e.op = "Repair" -> RepairedFeatures(layer, e)

\* Faulty variant: a repair is not counted as an edit of the layer.
EditedRepairUncounted(layer, e) ==
    [kind     |-> layer.kind,
     schema   |-> layer.schema,
     revision |-> layer.revision + (IF e.op = "Repair" THEN 0 ELSE 1),
     features |-> FeaturesAfter(layer, e)]

Edited(layer, e) ==
    [kind     |-> layer.kind,
     schema   |-> layer.schema,
     revision |-> layer.revision + 1,
     features |-> FeaturesAfter(layer, e)]

\* FeatureEdit::workflow_operation: the node operation that authorizes e.
WorkflowOperation(e) == "EditFeature" \o e.op

TotalArea(layer) ==
    MapThenSumSet(LAMBDA f : Area(layer.features[f].geometry), Present(layer))
=============================================================================
