---------------------------- MODULE GeoContracts ----------------------------
(***************************************************************************)
(* Semantic contracts of workflow values and their comparison (crates/     *)
(* genegis-contract/src/lib.rs).  A section of a contract is NoSection or  *)
(* a record; texts and enumerations are strings, an optional field that is *)
(* absent is None.  A CRS fixes the unit of its coordinates.               *)
(***************************************************************************)
EXTENDS Integers, Sequences, FiniteSets, SequencesExt

None == "none"
NoSection == [absent |-> TRUE]

GeometryKind == {"Point", "Line", "Polygon", "Raster", "PointCloud", "Mixed", "Unknown"}
AxisOrder == {"Xy", "LongitudeLatitude", "LatitudeLongitude", "Unknown"}
MeasureKind == {"Count", "Area", "Length", "Density", "Rate", "Ratio", "Category", "Identifier",
                "Geometry", "Unknown"}
AggregationBasis == {"Sum", "Mean", "Count", "RatioOfSums", "None", "Unknown"}

(* The registry's unit of a CRS; a CRS it does not know has none.          *)
CrsUnit(crs) == CASE crs = "geographic" -> "degree" [] crs = "projected" -> "metre" [] OTHER -> "Unknown"

known(kind, crs, axes) ==
    [geometry_kind |-> kind, crs |-> crs, axis_order |-> axes, coordinate_unit |-> CrsUnit(crs),
     extent |-> None, resolution |-> None]

simple(kind, unit, aggregation) ==
    [kind |-> kind, unit |-> unit, numerator |-> None, denominator |-> None, aggregation |-> aggregation,
     population_universe |-> None]

new == [spatial |-> NoSection, measure |-> NoSection, temporal |-> NoSection, coverage |-> NoSection,
        source |-> NoSection, tolerances |-> <<>>]

SourceContract_new(uri) ==
    [uri |-> uri, source_version |-> None, expected_checksum |-> None, authority |-> None]

-----------------------------------------------------------------------------
(* Validation                                                              *)

require_text(value) == value \notin {"", "Unknown"}
OptionalText(value) == value = None \/ require_text(value)

ValidSpatial(s) ==
    /\ "Unknown" \notin {s.geometry_kind, s.axis_order, s.coordinate_unit}
    /\ s.crs # None /\ CrsUnit(s.crs) # "Unknown"
    /\ CrsUnit(s.crs) = s.coordinate_unit
    /\ s.extent # "inverted" /\ s.resolution # "zero"

(* A derived measure names what it divides by what.                        *)
ValidMeasure(m) ==
    /\ m.kind # "Unknown" /\ require_text(m.unit) /\ m.aggregation # "Unknown"
    /\ m.kind \in {"Density", "Rate", "Ratio"} => None \notin {m.numerator, m.denominator}
    /\ OptionalText(m.numerator) /\ OptionalText(m.denominator) /\ OptionalText(m.population_universe)

ValidTemporal(t) == require_text(t.reference_period) /\ t.granularity # "Unknown" /\ OptionalText(t.observed_at)

ValidCoverage(c) ==
    /\ require_text(c.scope) /\ "Unknown" \notin {c.key_uniqueness, c.null_policy}
    /\ c.expected_feature_count # "0"
    /\ \A k \in DOMAIN c.join_keys : require_text(c.join_keys[k])
    /\ IsInjective(c.join_keys)

ValidSource(s) == require_text(s.uri) /\ OptionalText(s.authority)

ValidQuality(tolerances) == IsInjective([i \in DOMAIN tolerances |-> tolerances[i].metric])

validate_contract(c) ==
    /\ c.spatial # NoSection => ValidSpatial(c.spatial)
    /\ c.measure # NoSection => ValidMeasure(c.measure)
    /\ c.temporal # NoSection => ValidTemporal(c.temporal)
    /\ c.coverage # NoSection => ValidCoverage(c.coverage)
    /\ c.source # NoSection => ValidSource(c.source)
    /\ ValidQuality(c.tolerances)

-----------------------------------------------------------------------------
(* Comparison: the statuses of the fields that are required                *)

compare_value(provided, required) == {IF provided = required THEN "Compatible" ELSE "Incompatible"}

(* Faulty variant: what the provider leaves out is taken to match.         *)
compare_optional_lenient(provided, required) ==
    IF None \in {provided, required} THEN {} ELSE compare_value(provided, required)

compare_optional(provided, required) ==
    IF required = None THEN {}
    ELSE IF provided = None THEN {"Indeterminate"}
    ELSE compare_value(provided, required)

Compared(provided, required, values, optionals) ==
    IF required = NoSection THEN {}
    ELSE IF provided = NoSection THEN {"Indeterminate"}
    ELSE UNION ({compare_value(provided[f], required[f]) : f \in values}
                \cup {compare_optional(provided[f], required[f]) : f \in optionals})

compare_spatial(provided, required) ==
    Compared(provided, required, {"geometry_kind", "axis_order", "coordinate_unit"}, {"crs", "extent", "resolution"})

compare_measure(provided, required) ==
    Compared(provided, required, {"kind", "unit", "aggregation"}, {"numerator", "denominator", "population_universe"})

compare_temporal(provided, required) ==
    Compared(provided, required, {"reference_period", "granularity"}, {"observed_at"})

(* Join keys are compared only when some are required.                     *)
compare_coverage(provided, required) ==
    Compared(provided, required, {"scope", "key_uniqueness", "null_policy"}, {"expected_feature_count"})
    \cup IF NoSection \in {provided, required} THEN {}
         ELSE IF required.join_keys = <<>> THEN {}
         ELSE compare_value(provided.join_keys, required.join_keys)

compare_source(provided, required) ==
    Compared(provided, required, {"uri"}, {"source_version", "expected_checksum", "authority"})

(* A tolerance at least as strict as the required one will do.             *)
compare_tolerances(provided, required) ==
    {LET same == SelectSeq(provided, LAMBDA t : t.metric = required[i].metric)
     IN IF same = <<>> THEN "Indeterminate"
        ELSE IF Head(same).ppm <= required[i].ppm THEN "Compatible" ELSE "Incompatible" :
     i \in DOMAIN required}

Findings(provided, required) ==
    compare_spatial(provided.spatial, required.spatial)
    \cup compare_measure(provided.measure, required.measure)
    \cup compare_temporal(provided.temporal, required.temporal)
    \cup compare_coverage(provided.coverage, required.coverage)
    \cup compare_source(provided.source, required.source)
    \cup compare_tolerances(provided.tolerances, required.tolerances)

(* Faulty variant: a missing field hides a contradiction.                  *)
compatibility_with_missingFirst(provided, required) ==
    CASE "Indeterminate" \in Findings(provided, required) -> "Indeterminate"
      [] "Incompatible" \in Findings(provided, required) -> "Incompatible"
      [] OTHER -> "Compatible"

compatibility_with(provided, required) ==
    CASE "Incompatible" \in Findings(provided, required) -> "Incompatible"
      [] "Indeterminate" \in Findings(provided, required) -> "Indeterminate"
      [] OTHER -> "Compatible"

-----------------------------------------------------------------------------
(* A contract with what it leaves out taken from another one.              *)
Completed(c, other) ==
    LET Section(s) ==
            IF c[s] = NoSection THEN other[s]
            ELSE IF other[s] = NoSection THEN c[s]
            ELSE [f \in DOMAIN c[s] |-> IF f = "join_keys" THEN c[s][f]
                                     ELSE IF c[s][f] = None THEN other[s][f] ELSE c[s][f]]
        declared == {c.tolerances[i].metric : i \in DOMAIN c.tolerances}
    IN [f \in DOMAIN c |->
           IF f = "tolerances"
           THEN c.tolerances \o SelectSeq(other.tolerances, LAMBDA t : t.metric \notin declared)
           ELSE Section(f)]

(* A verdict does not change when the provider declares more: Compatible   *)
(* and Incompatible are final, whatever is filled in, and Indeterminate is *)
(* returned only when filling in what is missing can make the pair         *)
(* compatible (compare_contracts, lib.rs:805).                             *)
VerdictsAreFinal(provided, other, required) ==
    LET now == compatibility_with(provided, required)
    IN IF now = "Indeterminate"
       THEN compatibility_with(Completed(provided, required), required) = "Compatible"
       ELSE compatibility_with(Completed(provided, other), required) = now

(* The provided fields a requirement asks about.                           *)
Asked(provided, required) ==
    [f \in DOMAIN required |->
        IF f = "join_keys" THEN IF required[f] = <<>> THEN <<>> ELSE provided[f]
        ELSE IF required[f] = None THEN None ELSE provided[f]]

(* What is compatible with a validated requirement has a valid, known      *)
(* meaning in everything the requirement asks about, though the comparison *)
(* validates neither side (is_compatible, lib.rs:550), and it meets        *)
(* whatever that requirement was itself compatible with: contracts handed  *)
(* on from step to step lose nothing.                                      *)
CompatibleMeansKnown(provided, required, wider) ==
    validate_contract(required) /\ compatibility_with(provided, required) = "Compatible" =>
        /\ validate_contract([f \in DOMAIN required |->
               IF f = "tolerances" THEN required[f]
               ELSE IF required[f] = NoSection THEN NoSection ELSE Asked(provided[f], required[f])])
        /\ compatibility_with(required, wider) = "Compatible" =>
              compatibility_with(provided, wider) = "Compatible"
=============================================================================
