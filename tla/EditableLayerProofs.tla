-------------------------- MODULE EditableLayerProofs --------------------------
(***************************************************************************)
(* What EditableLayer::apply keeps of a layer: it stays well formed, its   *)
(* features satisfy its rules, and no feature runs ahead of its revision.  *)
(***************************************************************************)
EXTENDS EditableLayer, WellFoundedInduction, TLAPS

\* A non-empty set of naturals has a least element.
LEMMA LeastNatural ==
    ASSUME NEW T, T \subseteq Nat, T # {}
    PROVE  \E n \in T : \A m \in T : n <= m
  <1>1. \E x \in T : \A y \in T : ~ (<<y, x>> \in OpToRel(<, Nat))
    BY NatLessThanWellFounded, WFMin
  <1>2. OpToRel(<, Nat) = {ss \in Nat \X Nat : ss[1] < ss[2]}
    BY Zenon DEF OpToRel
  <1>3. PICK x \in T : \A y \in T : ~ (<<y, x>> \in {ss \in Nat \X Nat : ss[1] < ss[2]})
    BY <1>1, <1>2, Zenon
  <1>4. ASSUME NEW y \in T PROVE x <= y
    <2>1. x \in Nat /\ y \in Nat
      OBVIOUS
    <2>2. <<y, x>> \in Nat \X Nat /\ <<y, x>>[1] = y /\ <<y, x>>[2] = x
      BY <2>1
    <2>3. ~ (y < x)
      BY <1>3, <2>2
    <2> QED
      BY <2>1, <2>3
  <1> QED
    BY <1>4

\* The revisions named by a merge have a maximum.
LEMMA SequenceMaximum ==
    ASSUME NEW s \in Seq(Nat), Len(s) >= 1
    PROVE  Max(Range(s)) \in Nat /\ \E i \in DOMAIN s : Max(Range(s)) = s[i]
  <1> DEFINE HasMax(n) == \E i \in 1..n : \A j \in 1..n : s[i] >= s[j]
             Bad == {n \in Nat : n >= 1 /\ n <= Len(s) /\ ~HasMax(n)}
             L == Len(s)
  <1>0. L \in Nat /\ DOMAIN s = 1..L /\ \A i \in 1..L : s[i] \in Nat
    OBVIOUS
  <1> HIDE DEF L
  <1>1. ASSUME NEW n \in Nat, n >= 1, n < L, HasMax(n) PROVE HasMax(n + 1)
    <2>1. PICK i \in 1..n : \A j \in 1..n : s[i] >= s[j]
      BY <1>1
    <2>2. /\ i \in 1..(n + 1) /\ n + 1 \in 1..(n + 1)
          /\ s[i] \in Nat /\ s[n + 1] \in Nat
          /\ \A j \in 1..(n + 1) : s[j] \in Nat /\ (j \in 1..n \/ j = n + 1)
      BY <1>0, <1>1, <2>1
    <2>3. CASE s[i] >= s[n + 1]
      <3>1. \A j \in 1..(n + 1) : s[i] >= s[j]
        BY <2>1, <2>2, <2>3
      <3> QED
        BY <3>1, <2>2
    <2>4. CASE s[n + 1] >= s[i]
      <3>1. \A j \in 1..(n + 1) : s[n + 1] >= s[j]
        <4> SUFFICES ASSUME NEW j \in 1..(n + 1) PROVE s[n + 1] >= s[j]
          OBVIOUS
        <4>1. CASE j \in 1..n
          <5>1. s[i] >= s[j] /\ s[j] \in Nat
            BY <4>1, <2>1, <2>2
          <5> QED
            BY <5>1, <2>2, <2>4
        <4>2. CASE j = n + 1
          BY <4>2, <2>2
        <4> QED
          BY <4>1, <4>2, <2>2
      <3> QED
        BY <3>1, <2>2
    <2>5. s[i] >= s[n + 1] \/ s[n + 1] >= s[i]
      BY <2>2
    <2> QED
      BY <2>3, <2>4, <2>5
  <1>2. HasMax(1)
    BY <1>0
  <1> HIDE DEF HasMax
  <1>3. Bad = {}
    <2> SUFFICES ASSUME Bad # {} PROVE FALSE
      OBVIOUS
    <2>1. PICK n \in Bad : \A m \in Bad : n <= m
      BY LeastNatural
    <2>2. n \in Nat /\ n >= 1 /\ n <= L /\ ~HasMax(n)
      BY <2>1 DEF L
    <2>3. n # 1
      BY <1>2, <2>2
    <2>4. n - 1 \in Nat /\ n - 1 >= 1 /\ n - 1 < L /\ (n - 1) + 1 = n
      BY <2>2, <2>3, <1>0
    <2>5. HasMax(n - 1)
      BY <2>1, <2>2, <2>4 DEF L
    <2> QED
      BY <1>1, <2>2, <2>4, <2>5
  <1>4. HasMax(L)
    BY <1>0, <1>3 DEF L
  <1>5. Max(Range(s)) \in Range(s)
    <2>1. Range(s) = {s[i] : i \in 1..L}
      BY <1>0 DEF Range
    <2>2. \E x \in Range(s) : \A y \in Range(s) : x >= y
      BY <1>4, <2>1 DEF HasMax
    <2> QED
      BY <2>2 DEF Max
  <1> QED
    BY <1>0, <1>5 DEF Range

-----------------------------------------------------------------------------
(* EditableLayer::apply keeps a layer well formed.                          *)

LEMMA IntoFeatureType ==
    ASSUME NEW d \in Drafts, NEW r \in Nat
    PROVE  IntoFeature(d, r) \in Features
  BY DEF IntoFeature, Drafts, Features

LEMMA RepairedType ==
    ASSUME NEW g \in Geometries
    PROVE  Repaired(g) \in Geometries
  BY DEF Repaired, Geometries

LEMMA MergedDraftType ==
    ASSUME NEW l \in EditLayers, NEW e \in Edits, e.op = "Merge", MergeAccepted(l, e)
    PROVE  MergedDraft(l, e) \in Drafts
  <1>1. e.merged \in Drafts
    BY DEF Edits
  <1> DEFINE g == Gathered(l, Range(e.ids))
  <1>2. MergedDraft(l, e) = [e.merged EXCEPT !.geometry = g]
    BY DEF MergedDraft
  <1>3. MergedDraft(l, e).geometry = g
    BY <1>1, <1>2 DEF Drafts
  <1>4. ValidGeometry(g, l.kind)
    BY <1>3 DEF MergeAccepted, ValidDraft
  <1>5. g.shape = "MultiPolygon" /\ g.closed \in BOOLEAN /\ g.dups \in BOOLEAN
    BY DEF Gathered
  <1>6. l.kind = "Polygon"
    BY <1>4, <1>5 DEF ValidGeometry, Family
  <1>7. g.area \in Nat
    BY <1>4, <1>6 DEF ValidGeometry
  <1>8. g = [shape |-> g.shape, area |-> g.area, closed |-> g.closed, dups |-> g.dups]
    BY DEF Gathered
  <1> HIDE DEF g
  <1>9. g \in Geometries
    BY <1>5, <1>7, <1>8 DEF Geometries
  <1> QED
    BY <1>1, <1>2, <1>9 DEF Drafts

LEMMA FeaturesAfterType ==
    ASSUME NEW l \in EditLayers, NEW e \in Edits, NEW x, EditAccepted(l, x, e)
    PROVE  FeaturesAfter(l, e) \in [FeatureIds -> Features \cup {Null}]
  <1> DEFINE Map == [FeatureIds -> Features \cup {Null}]
  <1>0. l.features \in Map
    BY DEF EditLayers
  <1>1. CASE e.op = "Create"
    <2>1. e.feature \in Drafts /\ e.feature.id \in FeatureIds
      BY <1>1 DEF Edits, Drafts
    <2>2. Created(l, e) \in Map
      BY <1>0, <2>1, IntoFeatureType DEF Created
    <2> QED
      BY <1>1, <2>2 DEF FeaturesAfter
  <1>2. CASE e.op = "Update"
    <2>1. e.feature \in Drafts /\ e.feature.id \in FeatureIds /\ e.expected \in Nat
      BY <1>2 DEF Edits, Drafts
    <2>2. Updated(l, e) \in Map
      BY <1>0, <2>1, IntoFeatureType DEF Updated
    <2> QED
      BY <1>2, <2>2 DEF FeaturesAfter
  <1>3. CASE e.op = "Delete"
    <2>1. Deleted(l, e) \in Map
      BY <1>0 DEF Deleted
    <2> QED
      BY <1>3, <2>1 DEF FeaturesAfter
  <1>4. CASE e.op = "Split"
    <2>1. e.parts \in Seq(Drafts) /\ e.expected \in Nat
      BY <1>4 DEF Edits
    <2>2. ASSUME NEW f \in DraftIds(e.parts)
          PROVE  LET i == CHOOSE i \in DOMAIN e.parts : e.parts[i].id = f
                 IN  IntoFeature(e.parts[i], e.expected + 1) \in Features
      <3> DEFINE i == CHOOSE i \in DOMAIN e.parts : e.parts[i].id = f
      <3>1. i \in DOMAIN e.parts
        BY <2>2 DEF DraftIds
      <3> HIDE DEF i
      <3>2. e.parts[i] \in Drafts
        BY <2>1, <3>1
      <3>3. IntoFeature(e.parts[i], e.expected + 1) \in Features
        BY <2>1, <3>2, IntoFeatureType
      <3> QED
        BY <3>3 DEF i
    <2>3. SplitUp(l, e) \in Map
      BY <1>0, <2>2 DEF SplitUp
    <2> QED
      BY <1>4, <2>3 DEF FeaturesAfter
  <1>5. CASE e.op = "Merge"
    <2>1. MergeAccepted(l, e)
      BY <1>5 DEF EditAccepted
    <2>2. e.expected \in Seq(Nat) /\ Len(e.expected) >= 1
      BY <1>5, <2>1 DEF Edits, MergeAccepted
    <2>3. Max(Range(e.expected)) \in Nat
      BY <2>2, SequenceMaximum
    <2>4. IntoFeature(MergedDraft(l, e), 1 + Max(Range(e.expected))) \in Features
      BY <1>5, <2>1, <2>3, MergedDraftType, IntoFeatureType
    <2>5. Merged(l, e) \in Map
      BY <1>0, <2>4 DEF Merged
    <2> QED
      BY <1>5, <2>5 DEF FeaturesAfter
  <1>6. CASE e.op = "Repair"
    <2>1. e.id \in FeatureIds
      BY <1>6 DEF Edits
    <2>2. l.features[e.id] \in Features
      BY <1>0, <1>6, <2>1 DEF EditAccepted, RepairAccepted, HasRevision
    <2>3. RepairedDraft(l, e) \in Drafts
      BY <2>1, <2>2, RepairedType DEF RepairedDraft, Features, Drafts
    <2>4. e.expected \in Nat
      BY <1>6 DEF Edits
    <2>5. RepairedFeatures(l, e) \in Map
      BY <1>0, <2>1, <2>3, <2>4, IntoFeatureType DEF RepairedFeatures
    <2> QED
      BY <1>6, <2>5 DEF FeaturesAfter
  <1> QED
    BY <1>1, <1>2, <1>3, <1>4, <1>5, <1>6 DEF EditAccepted

LEMMA EditedType ==
    ASSUME NEW l \in EditLayers, NEW e \in Edits, NEW x, EditAccepted(l, x, e)
    PROVE  Edited(l, e) \in EditLayers
  <1>1. FeaturesAfter(l, e) \in [FeatureIds -> Features \cup {Null}]
    BY FeaturesAfterType
  <1> QED
    BY <1>1 DEF Edited, EditLayers

-----------------------------------------------------------------------------
(* EditableLayer::apply keeps the features of a layer within its rules.     *)

Fits(l, feature, n) ==
    /\ ValidGeometry(feature.geometry, l.kind)
    /\ feature.attributes \in l.schema
    /\ feature.revision >= 1 /\ feature.revision <= n

LayerSound(l) == \A f \in Present(l) : Fits(l, l.features[f], l.revision)

\* A valid draft, with a revision that the next layer revision covers.
LEMMA DraftFits ==
    ASSUME NEW l, NEW d, ValidDraft(l, d), NEW r, r >= 1, NEW n, r <= n
    PROVE  Fits(l, IntoFeature(d, r), n)
  <1>1. /\ IntoFeature(d, r).revision = r /\ IntoFeature(d, r).geometry = d.geometry
        /\ IntoFeature(d, r).attributes = d.attributes
    BY DEF IntoFeature
  <1> QED
    BY <1>1 DEF Fits, ValidDraft

\* The feature an edit names is stored, with the revision the edit expects.
LEMMA StoredRevision ==
    ASSUME NEW l \in EditLayers, LayerSound(l), NEW f \in FeatureIds, NEW r,
           HasRevision(l, f, r)
    PROVE  r \in Nat /\ r >= 1 /\ r <= l.revision
  <1>1. l.features[f] \in Features /\ f \in Present(l) /\ l.features[f].revision = r
    BY DEF HasRevision, EditLayers, Present
  <1> QED
    BY <1>1 DEF LayerSound, Fits, Features

\* Every feature an accepted edit leaves is an old one or fits the new revision.
LEMMA FeaturesAfterFit ==
    ASSUME NEW l \in EditLayers, NEW e \in Edits, NEW x, EditAccepted(l, x, e), LayerSound(l),
           NEW f \in FeatureIds
    PROVE  \/ FeaturesAfter(l, e)[f] \in {Null, l.features[f]}
           \/ Fits(l, FeaturesAfter(l, e)[f], l.revision + 1)
  <1> DEFINE n == l.revision + 1
             Kept(feature) == feature \in {Null, l.features[f]} \/ Fits(l, feature, n)
  <1>0. l.features \in [FeatureIds -> Features \cup {Null}] /\ l.revision \in Nat /\ n \in Nat
    BY DEF EditLayers
  <1>t. ASSUME NEW m, NEW g \in FeatureIds, NEW feature, Kept(feature) \/ f # g,
               m = [l.features EXCEPT ![g] = feature]
        PROVE  Kept(m[f])
    <2>1. m[f] = IF f = g THEN feature ELSE l.features[f]
      BY <1>0, <1>t
    <2> QED
      BY <1>t, <2>1
  <1>1. CASE e.op = "Create"
    <2>1. e.feature.id \in FeatureIds
      BY <1>1 DEF Edits, Drafts
    <2>2. ValidDraft(l, e.feature)
      BY <1>1 DEF EditAccepted, CreateAccepted
    <2>3. Fits(l, IntoFeature(e.feature, 1), n)
      BY <1>0, <2>2, DraftFits
    <2>4. FeaturesAfter(l, e) = [l.features EXCEPT ![e.feature.id] = IntoFeature(e.feature, 1)]
      BY <1>1 DEF FeaturesAfter, Created
    <2> QED
      BY <1>t, <2>1, <2>3, <2>4
  <1>2. CASE e.op = "Update"
    <2>1. e.feature.id \in FeatureIds
      BY <1>2 DEF Edits, Drafts
    <2>2. ValidDraft(l, e.feature) /\ HasRevision(l, e.feature.id, e.expected)
      BY <1>2 DEF EditAccepted, UpdateAccepted
    <2>3. e.expected \in Nat /\ e.expected >= 1 /\ e.expected <= l.revision
      BY <2>1, <2>2, StoredRevision
    <2>4. e.expected + 1 >= 1 /\ e.expected + 1 <= n
      BY <1>0, <2>3
    <2>5. Fits(l, IntoFeature(e.feature, e.expected + 1), n)
      BY <2>2, <2>4, DraftFits
    <2>6. FeaturesAfter(l, e)
              = [l.features EXCEPT ![e.feature.id] = IntoFeature(e.feature, e.expected + 1)]
      BY <1>2 DEF FeaturesAfter, Updated
    <2> QED
      BY <1>t, <2>1, <2>5, <2>6
  <1>3. CASE e.op = "Delete"
    <2>1. e.id \in FeatureIds
      BY <1>3 DEF Edits
    <2>2. FeaturesAfter(l, e) = [l.features EXCEPT ![e.id] = Null]
      BY <1>3 DEF FeaturesAfter, Deleted
    <2> QED
      BY <1>t, <2>1, <2>2
  <1>4. CASE e.op = "Split"
    <2>1. e.id \in FeatureIds /\ e.parts \in Seq(Drafts)
      BY <1>4 DEF Edits
    <2>2. /\ HasRevision(l, e.id, e.expected)
          /\ \A i \in DOMAIN e.parts : ValidDraft(l, e.parts[i])
      BY <1>4 DEF EditAccepted, SplitAccepted
    <2>3. e.expected \in Nat /\ e.expected >= 1 /\ e.expected <= l.revision
      BY <2>1, <2>2, StoredRevision
    <2>4. e.expected + 1 >= 1 /\ e.expected + 1 <= n
      BY <1>0, <2>3
    <2>5. FeaturesAfter(l, e) = SplitUp(l, e)
      BY <1>4 DEF FeaturesAfter
    <2>6. CASE f \in DraftIds(e.parts)
      <3> DEFINE i == CHOOSE i \in DOMAIN e.parts : e.parts[i].id = f
      <3>1. i \in DOMAIN e.parts
        BY <2>6 DEF DraftIds
      <3>2. SplitUp(l, e)[f] = IntoFeature(e.parts[i], e.expected + 1)
        BY <2>6 DEF SplitUp
      <3> HIDE DEF i
      <3>3. Fits(l, IntoFeature(e.parts[i], e.expected + 1), n)
        BY <2>2, <2>4, <3>1, DraftFits
      <3> QED
        BY <2>5, <3>2, <3>3
    <2>7. CASE f \notin DraftIds(e.parts)
      <3>1. SplitUp(l, e)[f] \in {Null, l.features[f]}
        BY <2>7 DEF SplitUp
      <3> QED
        BY <2>5, <3>1
    <2> QED
      BY <2>6, <2>7
  <1>5. CASE e.op = "Merge"
    <2> DEFINE top == Max(Range(e.expected))
    <2>1. e.ids \in Seq(FeatureIds) /\ e.expected \in Seq(Nat)
      BY <1>5 DEF Edits
    <2>2. /\ Len(e.ids) >= 2 /\ Len(e.ids) = Len(e.expected)
          /\ \A i \in DOMAIN e.ids : HasRevision(l, e.ids[i], e.expected[i])
          /\ ValidDraft(l, MergedDraft(l, e))
      BY <1>5 DEF EditAccepted, MergeAccepted
    <2>3. top \in Nat /\ \E i \in DOMAIN e.expected : top = e.expected[i]
      BY <2>1, <2>2, SequenceMaximum
    <2> HIDE DEF top
    <2>4. PICK i \in DOMAIN e.expected : top = e.expected[i]
      BY <2>3
    <2>5. i \in DOMAIN e.ids /\ e.ids[i] \in FeatureIds
      BY <2>1, <2>2, <2>4
    <2>6. top <= l.revision
      BY <2>2, <2>4, <2>5, StoredRevision
    <2>7. 1 + top >= 1 /\ 1 + top <= n
      BY <1>0, <2>3, <2>6
    <2>8. Fits(l, IntoFeature(MergedDraft(l, e), 1 + top), n)
      BY <2>2, <2>7, DraftFits
    <2>9. FeaturesAfter(l, e) = Merged(l, e)
      BY <1>5 DEF FeaturesAfter
    <2>10. Merged(l, e)[f] \in {IntoFeature(MergedDraft(l, e), 1 + top), Null, l.features[f]}
      BY DEF Merged, top
    <2> QED
      BY <2>8, <2>9, <2>10
  <1>6. CASE e.op = "Repair"
    <2>1. e.id \in FeatureIds
      BY <1>6 DEF Edits
    <2>2. HasRevision(l, e.id, e.expected) /\ ValidDraft(l, RepairedDraft(l, e))
      BY <1>6 DEF EditAccepted, RepairAccepted
    <2>3. e.expected \in Nat /\ e.expected >= 1 /\ e.expected <= l.revision
      BY <2>1, <2>2, StoredRevision
    <2>4. e.expected + 1 >= 1 /\ e.expected + 1 <= n
      BY <1>0, <2>3
    <2>5. Fits(l, IntoFeature(RepairedDraft(l, e), e.expected + 1), n)
      BY <2>2, <2>4, DraftFits
    <2>6. FeaturesAfter(l, e)
              = [l.features EXCEPT ![e.id] = IntoFeature(RepairedDraft(l, e), e.expected + 1)]
      BY <1>6 DEF FeaturesAfter, RepairedFeatures
    <2> QED
      BY <1>t, <2>1, <2>5, <2>6
  <1> QED
    BY <1>1, <1>2, <1>3, <1>4, <1>5, <1>6 DEF EditAccepted

\* An accepted edit leaves a sound layer sound.
LEMMA EditedSound ==
    ASSUME NEW l \in EditLayers, NEW e \in Edits, NEW x, EditAccepted(l, x, e), LayerSound(l)
    PROVE  LayerSound(Edited(l, e))
  <1> DEFINE m == Edited(l, e)
             features == FeaturesAfter(l, e)
  <1>1. /\ m.kind = l.kind /\ m.schema = l.schema /\ m.revision = l.revision + 1
        /\ m.features = features
    BY DEF Edited
  <1>2. \A f \in FeatureIds : \/ features[f] \in {Null, l.features[f]}
                              \/ Fits(l, features[f], l.revision + 1)
    BY FeaturesAfterFit
  <1>3. l.revision \in Nat /\ \A f \in Present(l) : l.features[f] \in Features
    BY DEF EditLayers, Present
  <1> HIDE DEF m, features
  <1>4. ASSUME NEW f \in Present(m) PROVE Fits(m, m.features[f], m.revision)
    <2>1. f \in FeatureIds /\ features[f] # Null
      BY <1>1 DEF Present
    <2>2. Fits(l, features[f], l.revision + 1)
      <3>1. CASE features[f] = l.features[f]
        <4>1. f \in Present(l)
          BY <2>1, <3>1 DEF Present
        <4>2. Fits(l, l.features[f], l.revision) /\ l.features[f].revision \in Nat
          BY <1>3, <4>1 DEF LayerSound, Features
        <4> QED
          BY <1>3, <3>1, <4>2 DEF Fits
      <3> QED
        BY <1>2, <2>1, <3>1
    <2> QED
      BY <1>1, <2>2 DEF Fits
  <1>5. LayerSound(m)
    BY <1>4 DEF LayerSound
  <1> QED
    BY <1>5 DEF m
==============================================================================
