-------------------------- MODULE EditSessionProofs --------------------------
(***************************************************************************)
(* Proofs about EditSession, for any set of clients, any edits and any     *)
(* bounds: without undo and redo, optimistic revisions prevent lost        *)
(* updates; with them, the stored layer stays within its own rules.        *)
(***************************************************************************)
EXTENDS EditSession, EditableLayerProofs

\* What the argument needs of a layer: it is a record with a revision.  What
\* the features of an edited layer are does not matter.
LayerShape(l) ==
    /\ l = [x \in DOMAIN l |-> l[x]]
    /\ DOMAIN l = {"kind", "schema", "revision", "features"}
    /\ l.revision \in Nat

\* No view is ahead of the layer, and a view that is level with it is equal to
\* it: an edit moves the revision past every view in existence.
ViewsBehind ==
    /\ LayerShape(layer)
    /\ DOMAIN view = Editors /\ view = [c \in Editors |-> view[c]]
    /\ \A c \in Editors :
          /\ LayerShape(view[c])
          /\ view[c].revision <= layer.revision
          /\ view[c].revision = layer.revision => view[c] = layer

LEMMA EditedRevision ==
    ASSUME NEW l, NEW e, LayerShape(l)
    PROVE  LayerShape(Edited(l, e)) /\ Edited(l, e).revision = l.revision + 1
  BY DEF Edited, LayerShape

THEOREM ViewsBehindInvariant == Spec => []ViewsBehind
  <1>1. Init => ViewsBehind
    <2> SUFFICES ASSUME Init PROVE ViewsBehind
      OBVIOUS
    <2>1. LayerShape(InitialLayer)
      BY InitialLayerAssumption DEF EditLayers, LayerShape
    <2> QED
      BY <2>1 DEF Init, ViewsBehind, LayerShape
  <1>2. ViewsBehind /\ [Next]_vars => ViewsBehind'
    <2> SUFFICES ASSUME ViewsBehind, [Next]_vars PROVE ViewsBehind'
      OBVIOUS
    <2>1. ASSUME NEW c \in Editors, Read(c) PROVE ViewsBehind'
      BY <2>1 DEF ViewsBehind, Read, LayerShape
    <2>2. ASSUME NEW c \in Editors, Submit(c) PROVE ViewsBehind'
      <3>1. PICK e \in EditsOn(view[c]) : layer' = Edited(layer, e)
        BY <2>2 DEF Submit
      <3>2. LayerShape(layer') /\ layer'.revision = layer.revision + 1
        BY <3>1, EditedRevision DEF ViewsBehind
      <3>3. view' = view
        BY <2>2 DEF Submit
      <3> QED
        BY <3>2, <3>3 DEF ViewsBehind, LayerShape
    <2>3. CASE UNCHANGED vars
      BY <2>3 DEF ViewsBehind, vars, LayerShape
    <2> QED
      BY <2>1, <2>2, <2>3 DEF Next
  <1> QED
    BY <1>1, <1>2, PTL DEF Spec

\* The optimistic-concurrency contract of EditableLayer::apply: in every
\* interleaving of reads and edits by any number of clients, an edit is accepted
\* only from a client whose view is the stored layer.
THEOREM NoLostUpdateTheorem == Spec => []NoLostUpdate
  <1>1. ViewsBehind => NoLostUpdate
    BY DEF ViewsBehind, NoLostUpdate, EditAccepted
  <1> QED
    BY <1>1, ViewsBehindInvariant, PTL

-----------------------------------------------------------------------------
(* The stored layer and every snapshot undo or redo may bring back is well  *)
(* formed and sound.                                                        *)

SoundLayers == {l \in EditLayers : LayerSound(l)}

LayersInv ==
    /\ layer \in SoundLayers
    /\ view \in [Editors -> EditLayers]
    /\ before \in Seq(SoundLayers) /\ after \in Seq(SoundLayers)
    /\ Len(after) = Len(before) /\ cursor \in 0 .. Len(before)

\* Whatever clients read, edit, undo and redo, the stored features satisfy the
\* family, ring and schema rules of their layer and no feature runs ahead of the
\* layer's revision, provided the session starts from such a layer and clients
\* send well-formed edits (EditableLayer::apply, validate_draft).
THEOREM StoredLayerTheorem ==
    ASSUME LayerSound(InitialLayer), \A l \in EditLayers : EditsOn(l) \subseteq Edits
    PROVE  UndoSpec => [](StoredFeaturesValid /\ FeatureRevisionsBounded)
  <1>1. Init => LayersInv
    BY InitialLayerAssumption DEF Init, LayersInv, SoundLayers
  <1>2. LayersInv /\ [UndoNext]_vars => LayersInv'
    <2> SUFFICES ASSUME LayersInv, [UndoNext]_vars PROVE LayersInv'
      OBVIOUS
    <2>1. ASSUME NEW c \in Editors, Read(c) PROVE LayersInv'
      BY <2>1 DEF LayersInv, Read, SoundLayers
    <2>2. ASSUME NEW c \in Editors, Submit(c) PROVE LayersInv'
      <3>1. PICK e \in EditsOn(view[c]) :
                /\ EditAccepted(layer, view[c].revision, e)
                /\ layer' = Edited(layer, e)
                /\ before' = Append(SubSeq(before, 1, cursor), layer)
                /\ after' = Append(SubSeq(after, 1, cursor), Edited(layer, e))
                /\ cursor' = cursor + 1
        BY <2>2 DEF Submit
      <3>2. e \in Edits /\ layer \in EditLayers /\ LayerSound(layer)
        BY <3>1 DEF LayersInv, SoundLayers
      <3>3. layer' \in SoundLayers
        BY <3>1, <3>2, EditedType, EditedSound DEF SoundLayers
      <3>4. /\ SubSeq(before, 1, cursor) \in Seq(SoundLayers)
            /\ Len(SubSeq(before, 1, cursor)) = cursor
            /\ SubSeq(after, 1, cursor) \in Seq(SoundLayers)
            /\ Len(SubSeq(after, 1, cursor)) = cursor
        BY DEF LayersInv
      <3>5. /\ before' \in Seq(SoundLayers) /\ Len(before') = cursor + 1
            /\ after' \in Seq(SoundLayers) /\ Len(after') = cursor + 1
        BY <3>1, <3>3, <3>4 DEF LayersInv
      <3>6. view' = view
        BY <2>2 DEF Submit
      <3> QED
        BY <3>1, <3>3, <3>5, <3>6 DEF LayersInv
    <2>3. CASE Undo
      <3>1. before[cursor] \in SoundLayers
        BY <2>3 DEF Undo, LayersInv
      <3> QED
        BY <2>3, <3>1 DEF Undo, LayersInv
    <2>4. CASE Redo
      <3>1. after[cursor + 1] \in SoundLayers
        BY <2>4 DEF Redo, LayersInv
      <3> QED
        BY <2>4, <3>1 DEF Redo, LayersInv
    <2>5. CASE UNCHANGED vars
      BY <2>5 DEF LayersInv, vars
    <2> QED
      BY <2>1, <2>2, <2>3, <2>4, <2>5 DEF UndoNext, Next
  <1>3. LayersInv => StoredFeaturesValid /\ FeatureRevisionsBounded
    BY DEF LayersInv, SoundLayers, LayerSound, Fits, StoredFeaturesValid, FeatureRevisionsBounded
  <1> QED
    BY <1>1, <1>2, <1>3, PTL DEF UndoSpec
==============================================================================
