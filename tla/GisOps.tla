------------------------------- MODULE GisOps -------------------------------
(***************************************************************************)
(* The toolkit's spatial operations (crates/genegis-toolkit/src/ops.rs and *)
(* the parts of layer.rs they use), on the line instead of the plane.      *)
(*                                                                         *)
(* Positions are integers: an odd one is the inside of a unit cell, an     *)
(* even one the boundary between two.  A polygon is its set of cells, a    *)
(* point one position.  What the operations get wrong or right does not    *)
(* depend on the second dimension: which pairs meet, what only touches,    *)
(* what a bounding box may skip, where an area goes, and which features a  *)
(* result keeps.  Areas are numbers of cells, weights are pairs            *)
(* <<part, whole>>.  Reprojection, and the comparison of planar with       *)
(* geodesic measures, are left out: every layer is in the working CRS.     *)
(***************************************************************************)
EXTENDS Integers, Sequences, FiniteSets, FiniteSetsExt, SequencesExt, Functions

NoGeometry == [kind |-> "none", at |-> {}]
Polygon(cells) == [kind |-> "polygon", at |-> cells]
PointAt(x) == [kind |-> "point", at |-> {x}]

(* from_polygons and from_points: nothing left is no geometry.             *)
from_polygons(cells) == IF cells = {} THEN NoGeometry ELSE Polygon(cells)

polygonal(g) == g.kind = "polygon"

(* The polygons of a collection count one by one, overlaps twice.          *)
unsigned_area(g) ==
    CASE g.kind = "polygon" -> Cardinality(g.at)
      [] g.kind = "collection" -> g.area
      [] OTHER -> 0

Closure(g) == IF polygonal(g) THEN g.at \cup {x - 1 : x \in g.at} \cup {x + 1 : x \in g.at} ELSE g.at

(* The interior of a polygon: its cells, and the boundaries between two.   *)
Interior(g) == IF polygonal(g) THEN {x \in Closure(g) : x \in g.at \/ {x - 1, x + 1} \subseteq g.at}
               ELSE g.at

bbox_of(g) == [min |-> Min(Closure(g)), max |-> Max(Closure(g))]
bbox_overlap(a, b, pad) == a.min <= b.max + pad /\ b.min <= a.max + pad

intersects(a, b) == Closure(a) \cap Closure(b) # {}
Distance(a, b) == Min({IF x > y THEN x - y ELSE y - x : x \in Closure(a), y \in Closure(b)})

WithGeometry(layer) == SelectSeq(layer, LAMBDA f : f.geometry # NoGeometry)
Polygons(layer) == SelectSeq(layer, LAMBDA f : polygonal(f.geometry))
Cells(layer) == UNION {layer[i].geometry.at : i \in {k \in DOMAIN layer : polygonal(layer[k].geometry)}}

Output(layer, checks) == [error |-> "none", layer |-> layer, checks |-> checks]
Refused(error) == [error |-> error, layer |-> <<>>, checks |-> TRUE]

----------------------------------------------------------------------------
(* clip and erase                                                          *)

clip_geometry(g, mask, invert) ==
    CASE g.kind = "polygon" -> from_polygons(IF invert THEN g.at \ mask ELSE g.at \cap mask)
      [] g.kind = "point" -> IF (g.at \cap Closure(Polygon(mask)) # {}) # invert
                             THEN g ELSE NoGeometry
      [] OTHER -> NoGeometry

(* Faulty variant: the bounding box is taken to have an open end.          *)
clip_openBox(layer, mask, invert) ==
    LET union == Cells(mask)
        Skipped(f) == ~invert /\ bbox_of(f.geometry).max <= bbox_of(Polygon(union)).min
        Kept(f) == [f EXCEPT !.geometry = clip_geometry(f.geometry, union, invert)]
    IN IF Polygons(mask) = <<>> THEN Refused("mask has no polygons")
       ELSE LET tried == SelectSeq(WithGeometry(layer), LAMBDA f : ~Skipped(f))
                out == WithGeometry([i \in DOMAIN tried |-> Kept(tried[i])])
            IN Output(out, TRUE)

clip(layer, mask, invert) ==
    LET union == Cells(mask)
        Skipped(f) == ~invert /\ ~bbox_overlap(bbox_of(f.geometry), bbox_of(Polygon(union)), 0)
        Kept(f) == [f EXCEPT !.geometry = clip_geometry(f.geometry, union, invert)]
    IN IF Polygons(mask) = <<>> THEN Refused("mask has no polygons")
       ELSE LET tried == SelectSeq(WithGeometry(layer), LAMBDA f : ~Skipped(f))
                out == WithGeometry([i \in DOMAIN tried |-> Kept(tried[i])])
            IN Output(out, /\ Len(out) <= Len(layer)
                           /\ IF invert THEN Cells(out) \cap union = {}
                              ELSE \A i \in DOMAIN out :
                                      /\ bbox_of(out[i].geometry).min >= bbox_of(Polygon(union)).min
                                      /\ bbox_of(out[i].geometry).max <= bbox_of(Polygon(union)).max)

(* intersect: one piece for every pair that overlaps.  The area check is   *)
(* dropped when the overlay overlaps itself.                               *)
SumOver(layer, Size(_)) == FoldLeft(LAMBDA n, f : n + Size(f), 0, layer)
AreaOf(f) == unsigned_area(f.geometry)

intersect(layer, overlay) ==
    LET pairs == SelectSeq(
            FoldLeft(LAMBDA acc, f : acc \o [k \in DOMAIN Polygons(overlay) |->
                                                <<f, Polygons(overlay)[k]>>],
                     <<>>, WithGeometry(layer)),
            LAMBDA p : /\ bbox_overlap(bbox_of(p[1].geometry), bbox_of(p[2].geometry), 0)
                       /\ clip_geometry(p[1].geometry, p[2].geometry.at, FALSE) # NoGeometry)
        out == [i \in DOMAIN pairs |->
                   [id |-> i, value |-> pairs[i][1].value,
                    geometry |-> clip_geometry(pairs[i][1].geometry, pairs[i][2].geometry.at, FALSE)]]
    IN IF Polygons(overlay) = <<>> THEN Refused("overlay has no polygons")
       ELSE Output(out, \/ SumOver(overlay, AreaOf) > Cardinality(Cells(overlay))
                        \/ SumOver(out, AreaOf) <= SumOver(layer, AreaOf))

----------------------------------------------------------------------------
(* Aggregates.  A value may be missing.                                    *)

Missing == 99

Known(members) == SelectSeq(members, LAMBDA m : m.value # Missing)

aggregate_values(op, members) ==
    LET values == Known(members)
    IN CASE op = "count" -> Len(members)
         [] op = "sum" -> SumOver(values, LAMBDA m : m.value)
         [] op \in {"min", "max"} /\ values = <<>> -> Missing
         [] op = "min" -> Min({values[i].value : i \in DOMAIN values})
         [] op = "max" -> Max({values[i].value : i \in DOMAIN values})

(* Faulty variant: features without the field are left out.                *)
Groups_skipNull(layer) ==
    LET keys == SetToSortSeq({layer[i].value : i \in DOMAIN layer} \ {Missing}, <)
    IN [k \in DOMAIN keys |-> SelectSeq(layer, LAMBDA f : f.value = keys[k])]

(* Groups in the order of their keys; a feature without the field falls    *)
(* into the group of null.                                                 *)
Groups(layer) ==
    LET keys == SetToSortSeq({layer[i].value : i \in DOMAIN layer}, <)
    IN [k \in DOMAIN keys |-> SelectSeq(layer, LAMBDA f : f.value = keys[k])]

(* The union of a group that is all polygons, else the parts as they are.  *)
DissolvedGeometry(members) ==
    IF Len(Polygons(members)) = Len(members) THEN from_polygons(Cells(members))
    ELSE IF WithGeometry(members) = <<>> THEN NoGeometry
    ELSE [kind |-> "collection", area |-> SumOver(members, AreaOf),
          at |-> UNION {WithGeometry(members)[i].geometry.at : i \in DOMAIN WithGeometry(members)}]

dissolve(layer) ==
    LET groups == Groups(layer)
        out == [k \in DOMAIN groups |->
                   [id |-> k, value |-> groups[k][1].value,
                    count |-> aggregate_values("count", groups[k]),
                    geometry |-> DissolvedGeometry(groups[k])]]
        area == SumOver(layer, AreaOf)
        largest == Max({0} \cup {AreaOf(layer[i]) : i \in DOMAIN layer})
    IN Output(out, /\ area > 0 => /\ SumOver(out, AreaOf) <= area
                                  /\ SumOver(out, AreaOf) >= largest
                   /\ SumOver(out, LAMBDA f : f.count) = Len(layer))

(* A total over nothing is still one row.                                  *)
summarize(layer, by, op) ==
    LET groups == IF by THEN Groups(layer) ELSE <<layer>>
    IN Output([k \in DOMAIN groups |-> [id |-> k, result |-> aggregate_values(op, groups[k]),
                                        count |-> Len(groups[k])]],
              SumOver(groups, LAMBDA g : Len(g)) = Len(layer))

----------------------------------------------------------------------------
(* Spatial predicates, and the second implementation the checks use.       *)

predicate_holds(predicate, d, a, b) ==
    CASE predicate = "intersects" -> intersects(a, b)
      [] predicate = "disjoint" -> ~intersects(a, b)
      [] predicate = "contains" -> Closure(b) \subseteq Closure(a) /\ Interior(a) \cap Interior(b) # {}
      [] predicate = "within" -> Closure(a) \subseteq Closure(b) /\ Interior(a) \cap Interior(b) # {}
      [] predicate = "within_distance" -> intersects(a, b) \/ Distance(a, b) <= d

(* Faulty variant: the ray starts half a cell too far left.                *)
ray_cast_shifted(x, polygon) == x - 1 \in polygon.at \/ x - 2 \in polygon.at

(* ray_cast counts a point on a left end as inside and on a right end as   *)
(* outside.                                                                *)
ray_cast(x, polygon) == x \in polygon.at \/ x + 1 \in polygon.at

(* The answer, or "none" when there is no second implementation.           *)
predicate_independent(predicate, a, b) ==
    LET Says(value) == IF value THEN "yes" ELSE "no"
        X(g) == CHOOSE x \in g.at : TRUE
    IN CASE predicate \in {"intersects", "contains"} /\ b.kind = "point" ->
              IF polygonal(a) THEN Says(ray_cast(X(b), a)) ELSE "none"
         [] predicate \in {"intersects", "within"} /\ a.kind = "point" ->
              IF polygonal(b) THEN Says(ray_cast(X(a), b)) ELSE "none"
         [] predicate = "intersects" -> Says(intersects(a, b))
         [] predicate = "disjoint" -> Says(~intersects(a, b))
         [] OTHER -> "none"

Pad(predicate, d) == IF predicate = "within_distance" THEN d ELSE 0

(* Faulty variant: the search box is not widened by the distance.          *)
Candidates_unpadded(f, others, predicate, d) ==
    SelectSeq(WithGeometry(others), LAMBDA o : bbox_overlap(bbox_of(f.geometry), bbox_of(o.geometry), 0))

(* GridIndex::query: the features whose boxes meet the padded box.         *)
Candidates(f, others, predicate, d) ==
    SelectSeq(WithGeometry(others),
              LAMBDA o : bbox_overlap(bbox_of(f.geometry), bbox_of(o.geometry), Pad(predicate, d)))

Matches(f, others, predicate, d) ==
    IF f.geometry = NoGeometry THEN <<>>
    ELSE SelectSeq(Candidates(f, others, predicate, d),
                   LAMBDA o : predicate_holds(predicate, d, f.geometry, o.geometry))

(* How many candidates the second implementation accepts, over all         *)
(* features; "none" for one pair makes the check pass by default.          *)
IndependentCheck(layer, others, predicate, d) ==
    LET features == WithGeometry(layer)
        Says(f, answer) == Len(SelectSeq(Candidates(f, others, predicate, d),
                LAMBDA o : predicate_independent(predicate, f.geometry, o.geometry) = answer))
    IN \/ \E i \in DOMAIN features : Says(features[i], "none") > 0
       \/ SumOver(features, LAMBDA f : Says(f, "yes"))
             = SumOver(features, LAMBDA f : Len(Matches(f, others, predicate, d)))

targets_overlap(targets) ==
    \E i, j \in DOMAIN targets : i < j /\ targets[i].geometry.at \cap targets[j].geometry.at # {}

(* The share of a join polygon's value that falls in the target, scaled by *)
(* Scale so that it stays an integer.                                      *)
Scale == 6

(* Faulty variant: every match counts in full.                             *)
Weighted_inFull(f, o) == IF polygonal(f.geometry) THEN o.value * Scale ELSE 0

Weighted(f, o) ==
    IF polygonal(f.geometry)
    THEN (o.value * Scale * Cardinality(f.geometry.at \cap o.geometry.at)) \div AreaOf(o)
    ELSE 0

Allocated(f, joins, predicate, d) == SumOver(Known(Matches(f, joins, predicate, d)), LAMBDA o : Weighted(f, o))

spatial_join(target, join, predicate, d, area_weighted) ==
    IF area_weighted /\ Polygons(join) # WithGeometry(join)
    THEN Refused("area_weighted_sum needs polygon join features")
    ELSE LET out == [i \in DOMAIN target |->
                        [id |-> target[i].id, geometry |-> target[i].geometry,
                         value |-> target[i].value,
                         count |-> Len(Matches(target[i], join, predicate, d)),
                         share |-> IF area_weighted THEN Allocated(target[i], join, predicate, d)
                                   ELSE 0]]
         IN Output(out, /\ IndependentCheck(target, join, predicate, d)
                        /\ \/ ~area_weighted
                           \/ targets_overlap(Polygons(target))
                           \/ SumOver(out, LAMBDA f : f.share)
                                 <= Scale * SumOver(Known(join), LAMBDA o : o.value))

(* Faulty variant: disjoint from one candidate is enough.                  *)
select_by_location_anyDisjoint(layer, other, predicate, d, invert) ==
    LET Hit(f) == Matches(f, other, predicate, d) # <<>>
    IN Output(SelectSeq(WithGeometry(layer), LAMBDA f : Hit(f) # invert), TRUE)

(* A feature without geometry is never selected, inverted or not.          *)
select_by_location(layer, other, predicate, d, invert) ==
    LET Hit(f) == IF predicate = "disjoint"
                  THEN Len(Matches(f, other, predicate, d)) = Len(Candidates(f, other, predicate, d))
                  ELSE Matches(f, other, predicate, d) # <<>>
    IN Output(SelectSeq(WithGeometry(layer), LAMBDA f : Hit(f) # invert), TRUE)

(* For an extended geometry the targets are scanned, for a point the grid  *)
(* is searched in rings (GridIndex).  The first nearest wins.              *)
distance_to_nearest(layer, target) ==
    IF WithGeometry(target) = <<>> THEN Refused("target has no geometry")
    ELSE Output([i \in DOMAIN layer |->
                   [id |-> layer[i].id, geometry |-> layer[i].geometry,
                    nearest |-> IF layer[i].geometry = NoGeometry THEN Missing
                                ELSE LET ts == WithGeometry(target)
                                     IN Min({Distance(layer[i].geometry, ts[k].geometry) :
                                                k \in DOMAIN ts})]], TRUE)

----------------------------------------------------------------------------
(* Operations on one layer                                                 *)

(* buffer: every position within `distance` of the feature, in whole       *)
(* cells; a shrunken polygon may vanish.                                   *)
Dilated(g, distance) ==
    LET reach == {x + k : x \in Closure(g), k \in -distance..distance}
    IN {x \in reach : x % 2 = 1}
Eroded(g, distance) ==
    {x \in g.at : \A k \in (-distance - 1)..(distance + 1) : x + k \in Interior(g) \cup
                     (IF k \in {-distance - 1, distance + 1} THEN Closure(g) ELSE {})}

Buffered(g, distance) == from_polygons(IF distance >= 0 THEN Dilated(g, distance) ELSE Eroded(g, -distance))

geometry_kind(layer) ==
    LET kinds == {WithGeometry(layer)[i].geometry.kind : i \in DOMAIN WithGeometry(layer)}
    IN IF kinds = {} THEN "none" ELSE IF Cardinality(kinds) = 1 THEN CHOOSE k \in kinds : TRUE
       ELSE "mixed"

buffer(layer, distance, dissolve_all) ==
    IF distance <= 0 /\ geometry_kind(layer) # "polygon"
    THEN Refused("a zero or negative distance is only valid for polygons")
    ELSE LET source == WithGeometry(layer)
             each == [i \in DOMAIN source |->
                         [source[i] EXCEPT !.geometry = Buffered(source[i].geometry, distance)]]
             merged == from_polygons(Cells(each))
         IN Output(IF ~dissolve_all THEN WithGeometry(each)
                   ELSE IF merged = NoGeometry THEN <<>>
                   ELSE <<[id |-> 0, value |-> Len(source), geometry |-> merged]>>,
                   distance > 0 => \A i \in DOMAIN source :
                       intersects(each[i].geometry, source[i].geometry))

(* filter: the features for whose value the expression is true, where being*)
(* the set of those values; a comparison with null is not true.            *)
filter(layer, where) ==
    LET kept == SelectSeq(layer, LAMBDA f : f.value \in where \ {Missing})
        rejected == SelectSeq(layer, LAMBDA f : f.value \notin where \ {Missing})
    IN Output(kept, Len(kept) + Len(rejected) = Len(layer))

(* calculate: the expression is a function of the values it is defined on, *)
(* null elsewhere; all null is a failed check.                             *)
calculate(layer, expression) ==
    LET out == [i \in DOMAIN layer |->
                   [layer[i] EXCEPT !.value = IF @ \in DOMAIN expression THEN expression[@] ELSE Missing]]
    IN Output(out, layer = <<>> \/ Known(out) # <<>>)

(* centroid: one point for every feature with a geometry; with `inside`,   *)
(* one that lies in it.                                                    *)
centroid(layer, inside) ==
    LET At(g) == IF inside THEN Min(g.at) ELSE (Min(Closure(g)) + Max(Closure(g))) \div 2
        out == [i \in DOMAIN WithGeometry(layer) |->
                   [WithGeometry(layer)[i] EXCEPT !.geometry = PointAt(At(@))]]
    IN Output(out, inside => \A i \in DOMAIN out :
                       intersects(out[i].geometry, WithGeometry(layer)[i].geometry))

(* refresh_schema: the declared fields, then new ones; a field with no     *)
(* values left keeps its declared type.                                    *)
infer_field_type(kinds) ==
    CASE kinds = {} -> "text"
      [] Cardinality(kinds) = 1 -> CHOOSE k \in kinds : TRUE
      [] "json" \in kinds -> "json"
      [] kinds = {"integer", "float"} -> "float"
      [] OTHER -> "text"

refresh_schema(declared, kinds) ==
    IF kinds = {} /\ declared # "none" THEN declared ELSE infer_field_type(kinds)

----------------------------------------------------------------------------
(* What the operations promise                                             *)

Geometries(layer) == [i \in DOMAIN layer |-> layer[i].geometry]

(* Clip and erase divide a polygon between them: together they give back   *)
(* its cells, apart they do not overlap; the bounding-box shortcut and the *)
(* verification checks change nothing (clip, clip_geometry).               *)
ClipAndErasePartition(layer, mask) ==
    LET inside == clip(layer, mask, FALSE) outside == clip(layer, mask, TRUE)
        Of(out, id) == UNION {out[i].geometry.at : i \in {k \in DOMAIN out : out[k].id = id}}
    IN Polygons(mask) # <<>> =>
        /\ inside.checks /\ outside.checks
        /\ \A i \in DOMAIN layer :
              LET f == layer[i]
              IN /\ polygonal(f.geometry) =>
                       /\ Of(inside.layer, f.id) \cup Of(outside.layer, f.id) = f.geometry.at
                       /\ Of(inside.layer, f.id) \cap Of(outside.layer, f.id) = {}
                 /\ f.geometry.kind = "point" =>
                       (Of(inside.layer, f.id) = {} <=> Of(outside.layer, f.id) # {})

(* The candidates the index offers contain every match, for every          *)
(* predicate and distance (Candidates, index.rs query).                    *)
IndexLosesNoMatch(layer, others, predicate, d) ==
    predicate # "disjoint" =>
        \A i \in DOMAIN layer : layer[i].geometry # NoGeometry =>
            {Matches(layer[i], others, predicate, d)[k].id :
                k \in DOMAIN Matches(layer[i], others, predicate, d)}
            = {others[k].id : k \in {m \in DOMAIN others :
                  /\ others[m].geometry # NoGeometry
                  /\ predicate_holds(predicate, d, layer[i].geometry, others[m].geometry)}}

(* The second implementation disagrees, and so stops the whole plan, only  *)
(* when some point lies exactly on the boundary of a polygon               *)
(* (predicate_independent, ray_cast).                                      *)
OnBoundary(layer, others) ==
    \E i \in DOMAIN layer, k \in DOMAIN others :
        LET a == layer[i].geometry b == others[k].geometry
            Edge(p, q) == p.kind = "point" /\ polygonal(q) /\ p.at \subseteq Closure(q) \ Interior(q)
        IN Edge(a, b) \/ Edge(b, a)

ChecksStopOnlyBoundaryCases(layer, others, predicate, d) ==
    ~OnBoundary(layer, others) => IndependentCheck(layer, others, predicate, d)

(* Areal interpolation neither invents nor double counts: targets that do  *)
(* not overlap receive at most what the join features hold, and all of it  *)
(* if they cover them, so the conservation check passes whenever no value  *)
(* is negative (spatial_join).                                             *)
InterpolationConserves(target, join) ==
    LET out == spatial_join(target, join, "intersects", 0, TRUE)
        total == Scale * SumOver(Known(join), LAMBDA o : o.value)
        given == SumOver(out.layer, LAMBDA f : f.share)
    IN (out.error = "none" /\ ~targets_overlap(Polygons(target))
          /\ \A i \in DOMAIN join : join[i].value >= 0 /\ join[i].geometry # NoGeometry) =>
        /\ given <= total
        /\ Cells(join) \subseteq Cells(target) => given = total

(* Selecting what meets and selecting what is disjoint divide the features *)
(* that have a geometry, and `invert` swaps them (select_by_location).     *)
SelectionsAreComplementary(layer, other) ==
    /\ select_by_location(layer, other, "disjoint", 0, FALSE)
          = select_by_location(layer, other, "intersects", 0, TRUE)
    /\ Len(select_by_location(layer, other, "intersects", 0, FALSE).layer)
       + Len(select_by_location(layer, other, "disjoint", 0, FALSE).layer) = Len(WithGeometry(layer))
    /\ LET values == {layer[i].value : i \in DOMAIN layer}
       IN \A where \in SUBSET values :
             Len(filter(layer, where).layer) + Len(filter(layer, values \ where).layer) = Len(Known(layer))

(* The type of a field settles: written with the type its values have, and *)
(* read again, it keeps it, and it never depends on values that are all    *)
(* gone (refresh_schema, infer_field_type).                                *)
FieldTypesSettle ==
    LET kinds == {"integer", "float", "text", "boolean", "json"}
    IN \A declared \in kinds \cup {"none"}, found \in SUBSET kinds :
          LET type == refresh_schema(declared, found)
          IN /\ refresh_schema(type, {type}) = type
             /\ refresh_schema(type, {}) = type

(* Grouping loses no member and no value, and the checks of dissolve pass  *)
(* whatever the groups overlap (dissolve, summarize).                      *)
GroupingConserves(layer) ==
    /\ dissolve(layer).checks
    /\ dissolve(calculate(layer, [v \in {layer[i].value : i \in DOMAIN layer} |-> v]).layer) = dissolve(layer)
    /\ Cells(layer) = UNION {dissolve(layer).layer[k].geometry.at : k \in
                                {i \in DOMAIN dissolve(layer).layer :
                                    polygonal(dissolve(layer).layer[i].geometry)}}
          \/ \E i \in DOMAIN layer : ~polygonal(layer[i].geometry)
    /\ LET rows == summarize(layer, TRUE, "sum").layer
       IN SumOver(rows, LAMBDA r : r.result) = summarize(layer, FALSE, "sum").layer[1].result

-----------------------------------------------------------------------------
(***************************************************************************)
(* The uniform grid index over bounding boxes                              *)
(* (crates/genegis-toolkit/src/index.rs).  Coordinates are integers.  The  *)
(* cell size, which the code derives from the number of items by a square  *)
(* root, is a parameter: the queries must be right for every size.         *)
(* Distances are squared.                                                  *)
(***************************************************************************)

(* A box is [x0, y0, x1, y1]; an index is the boxes, the origin, the cell  *)
(* and the number of columns and rows.                                     *)
CeilDiv(a, b) == (a + b - 1) \div b
AtLeast(a, b) == IF a > b THEN a ELSE b
AtMost(a, b) == IF a < b THEN a ELSE b

build(boxes, cell) ==
    LET Lo(F(_)) == Min({F(boxes[i]) : i \in DOMAIN boxes})
        Hi(F(_)) == Max({F(boxes[i]) : i \in DOMAIN boxes})
        width == Hi(LAMBDA b : b.x1) - Lo(LAMBDA b : b.x0)
        height == Hi(LAMBDA b : b.y1) - Lo(LAMBDA b : b.y0)
    IN [boxes |-> boxes, cell |-> cell,
        x |-> Lo(LAMBDA b : b.x0), y |-> Lo(LAMBDA b : b.y0),
        columns |-> AtLeast(1, CeilDiv(width, cell)), rows |-> AtLeast(1, CeilDiv(height, cell))]

clamp_col(ix, x) == AtMost(AtLeast((x - ix.x) \div ix.cell, 0), ix.columns - 1)
clamp_row(ix, y) == AtMost(AtLeast((y - ix.y) \div ix.cell, 0), ix.rows - 1)

(* The cells a box is registered in, and the cells a query visits.         *)
cell_range(ix, b) ==
    (clamp_col(ix, b.x0)..clamp_col(ix, b.x1)) \X (clamp_row(ix, b.y0)..clamp_row(ix, b.y1))

InCell(ix, c) == {i \in DOMAIN ix.boxes : c \in cell_range(ix, ix.boxes[i])}

Meets(a, b) == a.x0 <= b.x1 /\ b.x0 <= a.x1 /\ a.y0 <= b.y1 /\ b.y0 <= a.y1

(* Faulty variant: the cells of the unpadded box are visited.              *)
query_narrow(ix, q, pad) ==
    LET wide == [x0 |-> q.x0 - pad, y0 |-> q.y0 - pad, x1 |-> q.x1 + pad, y1 |-> q.y1 + pad]
    IN {i \in UNION {InCell(ix, c) : c \in cell_range(ix, q)} : Meets(ix.boxes[i], wide)}

query(ix, q, pad) ==
    LET wide == [x0 |-> q.x0 - pad, y0 |-> q.y0 - pad, x1 |-> q.x1 + pad, y1 |-> q.y1 + pad]
    IN {i \in UNION {InCell(ix, c) : c \in cell_range(ix, wide)} : Meets(ix.boxes[i], wide)}

Gap(lo, hi, v) == IF v < lo THEN lo - v ELSE IF v > hi THEN v - hi ELSE 0
Distance2(b, px, py) ==
    Gap(b.x0, b.x1, px) * Gap(b.x0, b.x1, px) + Gap(b.y0, b.y1, py) * Gap(b.y0, b.y1, py)

(* The border of the square of cells around the point's cell, cut off at   *)
(* the edge of the grid.                                                   *)
RingCells(ix, pc, pr, ring) ==
    LET c0 == AtLeast(pc - ring, 0) c1 == AtMost(pc + ring, ix.columns - 1)
        r0 == AtLeast(pr - ring, 0) r1 == AtMost(pr + ring, ix.rows - 1)
    IN {c \in (c0..c1) \X (r0..r1) : c[1] \in {c0, c1} \/ c[2] \in {r0, r1}}

(* Rings are searched outward; the search stops once the best distance is  *)
(* at most `ring` cells.  Faulty variant: it stops one ring early.         *)
nearest_early(ix, px, py) ==
    LET pc == clamp_col(ix, px) pr == clamp_row(ix, py)
        last == AtLeast(ix.columns, ix.rows)
        seen[k \in -1..last] ==
            IF k = -1 THEN {}
            ELSE LET before == seen[k - 1]
                     reach == (k) * ix.cell
                 IN IF before # {} /\ Min({Distance2(ix.boxes[i], px, py) : i \in before}) <= reach * reach
                    THEN before
                    ELSE before \cup UNION {InCell(ix, c) : c \in RingCells(ix, pc, pr, k)}
    IN Min({Distance2(ix.boxes[i], px, py) : i \in seen[last]})

nearest(ix, px, py) ==
    LET pc == clamp_col(ix, px) pr == clamp_row(ix, py)
        last == AtLeast(ix.columns, ix.rows)
        seen[k \in -1..last] ==
            IF k = -1 THEN {}
            ELSE LET before == seen[k - 1]
                     reach == (k - 1) * ix.cell
                 IN IF before # {} /\ Min({Distance2(ix.boxes[i], px, py) : i \in before}) <= reach * reach
                    THEN before
                    ELSE before \cup UNION {InCell(ix, c) : c \in RingCells(ix, pc, pr, k)}
    IN Min({Distance2(ix.boxes[i], px, py) : i \in seen[last]})

----------------------------------------------------------------------------
(* A query returns exactly the items whose box meets the padded box,       *)
(* wherever the query lies, outside the grid's extent too (query).         *)
QueryIsExact(boxes, cell, q, pad) ==
    query(build(boxes, cell), q, pad)
        = {i \in DOMAIN boxes : Meets(boxes[i], [x0 |-> q.x0 - pad, y0 |-> q.y0 - pad,
                                                 x1 |-> q.x1 + pad, y1 |-> q.y1 + pad])}

(* The ring search finds the true nearest item for every point, cell size  *)
(* and placement: stopping early never hides a closer one (nearest).       *)
NearestIsNearest(boxes, cell, px, py) ==
    nearest(build(boxes, cell), px, py) = Min({Distance2(boxes[i], px, py) : i \in DOMAIN boxes})
=============================================================================
