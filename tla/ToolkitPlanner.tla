--------------------------- MODULE ToolkitPlanner ---------------------------
(***************************************************************************)
(* The toolkit's planners (crates/genegis-toolkit/src/planner.rs): a       *)
(* question about the loaded layers becomes a plan, by rules or by a       *)
(* language model whose answers are validated.                             *)
(*                                                                         *)
(* A question is what the rules can tell apart in it: the word groups it   *)
(* contains, the spans where an alias of a layer occurs (in the order of   *)
(* the layers), where "from" stands (0: nowhere), whether it has a         *)
(* distance, a threshold and a place that is not loaded, and the layers    *)
(* one of whose numeric fields, or of whose features, it names.  A layer   *)
(* is its geometry kind, whether it is a stored result, whether it has a   *)
(* population field, and whether some of its polygons are invalid.         *)
(***************************************************************************)
EXTENDS ToolkitPlan

LayerIds == <<"L1", "L2", "L3">>                        \* in the order of the map

WordGroups ==
    {"here", "counting", "population", "density", "nearest", "area", "length", "clip", "inside",
     "outside", "except", "not_within", "negation", "per_polygon", "mean", "extremum", "sum",
     "summarize", "aggregate", "merge", "temporal", "epsg", "centroid"}

Says(q, groups) == q.words \cap groups # {}

\* The steps' identifiers, numbered in the order of the strings.
Id == [area |-> 1, area_km2 |-> 2, clipped |-> 3, filtered |-> 4, here |-> 5, limited |-> 6,
       mesh |-> 7, named |-> 8, named_area |-> 9, nearest |-> 10, population |-> 11,
       result |-> 12, selected |-> 13, valid |-> 14]

step(id, op, inputs, applies) ==
    [id |-> Id[id], op |-> op, inputs |-> inputs, applies |-> applies]

From(id) == StepRef(Id[id])

-----------------------------------------------------------------------------
(* Mentions                                                                *)

is_source(layer) == ~layer.derived /\ layer.kind # "None"

Overlap(s, t) == s.start < t.end /\ t.start < s.end

\* Longest first, then leftmost, then in the order they were found.
Before(s, t) ==
    \/ s.end - s.start > t.end - t.start
    \/ s.end - s.start = t.end - t.start /\ (s.start < t.start \/ (s.start = t.start /\ s.found < t.found))

Claim(claimed, span) ==
    IF \E i \in DOMAIN claimed : Overlap(claimed[i], span) THEN claimed ELSE Append(claimed, span)

(* Faulty variant: the leftmost match claims its text first.               *)
Claimed_leftmost(spans) ==
    FoldLeft(Claim, <<>>, SortSeq(spans, LAMBDA s, t : s.start < t.start \/ (s.start = t.start /\ s.end < t.end)))

Claimed(spans) == FoldLeft(Claim, <<>>, SortSeq(spans, Before))

\* Each layer at its first claimed position.
Firsts(claimed) ==
    SelectSeq(claimed, LAMBDA s : \A i \in DOMAIN claimed : claimed[i].layer = s.layer => s.start <= claimed[i].start)

mentions_in(spans, ids) ==
    LET firsts == SortSeq(Firsts(Claimed(SelectSeq(spans, LAMBDA s : s.layer \in ids))),
                          LAMBDA s, t : s.start < t.start)
    IN [i \in DOMAIN firsts |-> [pos |-> firsts[i].start, id |-> firsts[i].layer]]

FirstFound(found, otherwise) == IF found # <<>> THEN found ELSE otherwise

(* Faulty variant: stored results compete with the source layers.          *)
mentions_anyLayer(q, layers) ==
    mentions_in(q.spans, {id \in DOMAIN layers : layers[id].kind # "None"})

(* Source layers win; a stored result is named after the question that     *)
(* produced it.                                                            *)
mentions(q, layers) ==
    FirstFound(mentions_in(q.spans, {id \in DOMAIN layers : is_source(layers[id])}),
               mentions_in(q.spans, {id \in DOMAIN layers : layers[id].kind # "None"}))

-----------------------------------------------------------------------------
(* Conditions                                                              *)

Conditions == {"negation", "threshold", "statistic", "sum", "temporal", "named"}

named_values(q, id) == id \in q.named
numeric_field_mentioned(q, id) == id \in q.numeric

detect_signals(q) ==
    {c \in Conditions :
        CASE c = "negation" -> Says(q, {"negation", "except", "not_within"})
          [] c = "threshold" -> q.threshold
          [] c = "statistic" -> Says(q, {"mean", "extremum"})
          [] c = "sum" -> Says(q, {"sum", "summarize"})
          [] c = "temporal" -> Says(q, {"temporal"})
          [] OTHER -> FALSE}

signals(q, layers) ==
    detect_signals(q) \cup
    {c \in {"named"} : \E id \in DOMAIN layers : is_source(layers[id]) /\ named_values(q, id)}

-----------------------------------------------------------------------------
(* Rules.  A draft is the steps a rule writes and the conditions it says   *)
(* it applied; NoDraft when a rule that took the question cannot answer.   *)

Draft(steps, used) == [ok |-> TRUE, steps |-> steps, used |-> used]
NoDraft == [ok |-> FALSE, steps |-> <<>>, used |-> {}]

\* A sequence of steps with the last one renamed, and another after it.
Then(steps, id, next) == Append([steps EXCEPT ![Len(steps)].id = Id[id]], next)
Count(id) == step("result", "summarize", [layer |-> From(id)], {})

(* Faulty variant: the filter is written but its result is not read.       *)
apply_named_unread(draft, q, layers, ref, id) ==
    IF ref.node # NoNode \/ ~named_values(q, ref.port) THEN [draft |-> draft, ref |-> ref]
    ELSE [draft |-> Draft(Append(draft.steps, step(id, "filter", [layer |-> ref], {"named"})),
                          draft.used \cup {"named"}), ref |-> ref]

(* Restrict a loaded layer to the features the question names.             *)
apply_named(draft, q, layers, ref, id) ==
    IF ref.node # NoNode \/ ~named_values(q, ref.port) THEN [draft |-> draft, ref |-> ref]
    ELSE [draft |-> Draft(Append(draft.steps, step(id, "filter", [layer |-> ref], {"named"})),
                          draft.used \cup {"named"}), ref |-> From(id)]

Sources(layers) ==
    SelectSeq(LayerIds, LAMBDA id : id \in DOMAIN layers /\ layers[id].kind = "Polygon" /\ is_source(layers[id]))

Ids(found) == [i \in DOMAIN found |-> found[i].id]
Polygons(found, layers) == SelectSeq(Ids(found), LAMBDA id : layers[id].kind = "Polygon")

\* A mentioned polygon layer with a population field, then any loaded one.
population_source(found, layers) ==
    SelectSeq(Polygons(found, layers) \o Sources(layers), LAMBDA id : layers[id].population)

Density(area, from) ==
    <<step(area, "measure", [layer |-> from], {}), step("result", "calculate", [layer |-> From(area)], {})>>

\* 0. The population of a place that is not loaded.
PlaceRule(q) ==
    LET steps == <<step("area", "place", <<>>, {}), step("mesh", "census_mesh", [area |-> From("area")], {}),
                   step("population", "spatial_join", [target |-> From("area"), join |-> From("mesh")], {})>>
    IN Draft(IF Says(q, {"density"}) THEN steps \o Density("area_km2", From("population"))
             ELSE [steps EXCEPT ![3].id = Id.result], {})

\* 1. What is within a distance of the clicked point.
HereRule(q, found, layers, context) ==
    LET here == step("here", "make_points", <<>>, {})
        population == Says(q, {"population"})
        source == population_source(found, layers)
        target == SelectSeq(Ids(found), LAMBDA id : layers[id].kind # "Polygon" \/ ~population)
        select == step("result", "select_by_location",
                       [layer |-> LayerRef(target[1]), other |-> From("here")], {})
    IN IF ~context.point THEN NoDraft
       ELSE IF population THEN
            IF source = <<>> THEN NoDraft
            ELSE Draft(<<here, step("area", "buffer", [layer |-> From("here")], {}),
                         step("result", "spatial_join",
                              [target |-> From("area"), join |-> LayerRef(source[1])], {})>>, {})
       ELSE IF target = <<>> THEN Draft(<<here, step("result", "buffer", [layer |-> From("here")], {})>>, {})
       ELSE Draft(IF Says(q, {"counting"}) THEN Then(<<here, select>>, "selected", Count("selected"))
                  ELSE <<here, select>>, {})

\* The mentions on either side of "from", or else the first two.
Sides(q, found) ==
    LET before == SelectSeq(found, LAMBDA m : m.pos < q.from)
        after == SelectSeq(found, LAMBDA m : m.pos > q.from)
    IN IF q.from # 0 /\ before # <<>> /\ after # <<>>
       THEN [reference |-> before[Len(before)].id, subject |-> after[1].id]
       ELSE [reference |-> found[1].id, subject |-> found[2].id]

(* A threshold on a field of either side restricts that side first.        *)
Limit(q, sides) ==
    LET refs == [reference |-> LayerRef(sides.reference), subject |-> LayerRef(sides.subject)]
        limited == {side \in DOMAIN sides : q.threshold /\ numeric_field_mentioned(q, sides[side])}
        side == IF "reference" \in limited THEN "reference" ELSE "subject"
    IN IF limited = {} THEN [draft |-> Draft(<<>>, {}), refs |-> refs]
       ELSE [draft |-> Draft(<<step("limited", "filter", [layer |-> refs[side]], {"threshold"})>>, {"threshold"}),
             refs |-> [refs EXCEPT ![side] = From("limited")]]

\* 2. What is (or is not) within a distance of another layer.
DistanceRule(q, found, layers) ==
    LET limit == Limit(q, Sides(q, found))
        invert == {c \in {"negation"} : Says(q, {"not_within"})}
        named == apply_named(Draft(limit.draft.steps, limit.draft.used \cup invert), q, layers,
                             limit.refs.reference, "named")
        reference == named.ref
        subject == limit.refs.subject
        steps == named.draft.steps
    IN Draft(
         IF Says(q, {"population"}) /\ subject.node = NoNode /\ layers[subject.port].population
         THEN steps \o <<step("area", "buffer", [layer |-> reference], {}),
                         step("result", "spatial_join", [target |-> From("area"), join |-> subject], {})>>
         ELSE IF Says(q, {"per_polygon"}) /\ Says(q, {"counting"})
         THEN Append(steps, step("result", "spatial_join", [target |-> reference, join |-> subject], {}))
         ELSE LET select(id) == Append(steps, step(id, "select_by_location",
                                                   [layer |-> subject, other |-> reference], invert))
              IN IF Says(q, {"counting"}) THEN Append(select("selected"), Count("selected"))
                 ELSE select("result"),
         named.draft.used)

\* 3. The distance to the nearest feature of another layer.
NearestRule(q, found) ==
    LET nearest == <<step("result", "distance_to_nearest",
                          [layer |-> LayerRef(found[1].id), target |-> LayerRef(found[2].id)], {})>>
    IN IF Says(q, {"mean"})
       THEN Draft(Then(nearest, "nearest", step("result", "summarize", [layer |-> From("nearest")], {"statistic"})),
                  {"statistic"})
       ELSE Draft(nearest, {})

\* The first polygon layer and the first other layer of rules 4 and 5.
Other(found, polygon) == SelectSeq(Ids(found), LAMBDA id : id # polygon)[1]

\* 4. What each polygon contains.
CountRule(q, found, layers) ==
    LET polygon == Polygons(found, layers)[1]
        other == Other(found, polygon)
        sum == {c \in {"sum"} : numeric_field_mentioned(q, other)}
    IN Draft(<<step("result", "spatial_join",
                    [target |-> LayerRef(polygon), join |-> LayerRef(other)], sum)>>, sum)

(* Faulty variant: "outside" decides the operation, any negation counts.   *)
ClipRule_anyNegation(q, found, layers) ==
    LET polygon == Polygons(found, layers)[1]
        other == Other(found, polygon)
        named == apply_named(Draft(<<>>, {}), q, layers, LayerRef(polygon), "named_area")
        outside == Says(q, {"outside", "except"})
        negation == {c \in {"negation"} : Says(q, {"except"})}
        steps == Append(named.draft.steps,
                        step("result", IF outside THEN "erase" ELSE "clip",
                             [layer |-> LayerRef(other), mask |-> named.ref], negation))
    IN Draft(steps, named.draft.used \cup {"negation"})

\* 5. What is inside or outside the polygons of another layer.
ClipRule(q, found, layers) ==
    LET polygon == Polygons(found, layers)[1]
        other == Other(found, polygon)
        named == apply_named(Draft(<<>>, {}), q, layers, LayerRef(polygon), "named_area")
        outside == Says(q, {"outside", "except"})
        negation == {c \in {"negation"} : Says(q, {"except"})}
        sum == {c \in {"sum"} : Says(q, {"sum", "summarize"}) /\ numeric_field_mentioned(q, other)}
        steps == Append(named.draft.steps,
                        step("result", IF outside THEN "erase" ELSE "clip",
                             [layer |-> LayerRef(other), mask |-> named.ref], negation))
    IN Draft(IF Says(q, {"counting"}) \/ sum # {}
             THEN Then(steps, "clipped", step("result", "summarize", [layer |-> From("clipped")], sum))
             ELSE steps,
             named.draft.used \cup negation \cup sum)

\* The layer a question about one layer means: <<>> when there is none.
Single(found, layers, context) ==
    IF found # <<>> THEN <<found[1].id>>
    ELSE IF context.selected \in DOMAIN layers THEN <<context.selected>>
    ELSE IF Cardinality(DOMAIN layers) = 1 THEN SetToSeq(DOMAIN layers)
    ELSE <<>>

NumericField(q, layers, id) ==
    numeric_field_mentioned(q, id) \/ (Says(q, {"population"}) /\ layers[id].population)

\* 6a. The features of one layer past a threshold.
ThresholdRule(q, id) ==
    LET filter == <<step("result", "filter", [layer |-> LayerRef(id)], {"threshold"})>>
    IN Draft(IF Says(q, {"counting"}) THEN Then(filter, "filtered", Count("filtered")) ELSE filter, {"threshold"})

\* 6. The density of a polygon layer with a population field.
DensityRule(found, layers, single) ==
    LET own == SelectSeq(single, LAMBDA id : layers[id].kind = "Polygon" /\ layers[id].population)
        source == own \o population_source(found, layers)
    IN IF source = <<>> THEN NoDraft ELSE Draft(Density("area", LayerRef(source[1])), {})

\* 7 to 11. One operation on one layer.
OneLayerRule(q, layers, id) ==
    LET One(op, applies) == Draft(<<step("result", op, [layer |-> LayerRef(id)], applies)>>, applies)
        sum == {c \in {"sum"} : NumericField(q, layers, id)}
    IN IF q.distance THEN One("buffer", {})
       ELSE IF Says(q, {"epsg"}) THEN One("reproject", {})
       ELSE IF Says(q, {"area", "length"}) THEN One("measure", {})
       ELSE IF Says(q, {"centroid"}) THEN One("centroid", {})
       ELSE IF Says(q, {"per_polygon", "aggregate", "sum", "summarize", "merge"})
            THEN One(IF layers[id].kind = "Polygon" /\ Says(q, {"merge"}) THEN "dissolve" ELSE "summarize", sum)
       ELSE NoDraft

\* The first rule that takes the question, given the mentions in it and
\* the layer it is about if it is about one.
FirstRule(q, found, single, layers, context) ==
    LET two == Len(found) >= 2
        polygon == two /\ Polygons(found, layers) # <<>>
        inside == Says(q, {"inside", "outside"})
    IN IF q.place THEN PlaceRule(q)
       ELSE IF Says(q, {"here"}) /\ q.distance THEN HereRule(q, found, layers, context)
       ELSE IF q.distance /\ two THEN DistanceRule(q, found, layers)
       ELSE IF Says(q, {"nearest"}) /\ two THEN NearestRule(q, found)
       ELSE IF Says(q, {"counting"}) /\ polygon /\ (Says(q, {"per_polygon"}) \/ ~inside)
            THEN CountRule(q, found, layers)
       ELSE IF (Says(q, {"clip"}) \/ inside) /\ polygon THEN ClipRule(q, found, layers)
       ELSE IF q.threshold /\ single # <<>> /\ NumericField(q, layers, single[1]) THEN ThresholdRule(q, single[1])
       ELSE IF Says(q, {"density"}) THEN DensityRule(found, layers, single)
       ELSE IF single # <<>> THEN OneLayerRule(q, layers, single[1])
       ELSE NoDraft

Choose(q, found, layers, context) == FirstRule(q, found, Single(found, layers, context), layers, context)

-----------------------------------------------------------------------------
(* Repair, and the end of every rule                                       *)

(* Faulty variant: a new operation that was not added to the list.         *)
POLYGON_OPS_incomplete ==
    {"buffer", "clip", "erase", "intersect", "dissolve", "spatial_join", "select_by_location"}

POLYGON_OPS ==
    {"buffer", "clip", "erase", "intersect", "dissolve", "spatial_join", "select_by_location",
     "distance_to_nearest"}

Roles == <<"area", "join", "layer", "mask", "other", "overlay", "target">>

\* The references a step's polygons come from, in the order of the roles.
PolygonInputs(s) ==
    LET roles == SelectSeq(Roles, LAMBDA r : s.op \in POLYGON_OPS /\ r \in DOMAIN s.inputs)
    IN [i \in DOMAIN roles |-> s.inputs[roles[i]]]

Broken(ref, layers) == ref.node = NoNode /\ layers[ref.port].invalid

\* Each of the layers with invalid polygons once, as they are met.
Repaired(steps, layers) ==
    FoldLeft(LAMBDA seen, ref : IF \E i \in DOMAIN seen : seen[i] = ref THEN seen ELSE Append(seen, ref), <<>>,
             SelectSeq(FlattenSeq([i \in DOMAIN steps |-> PolygonInputs(steps[i])]), LAMBDA ref : Broken(ref, layers)))

\* A make_valid in front for each, which the polygon operations then read.
Rewire(steps, repaired) ==
    LET valid(i) == [step("valid", "make_valid", [layer |-> repaired[i]], {}) EXCEPT !.id = Id.valid + i - 1]
        Rewired(ref) ==
            IF \E i \in DOMAIN repaired : repaired[i] = ref
            THEN StepRef(Id.valid - 1 + CHOOSE i \in DOMAIN repaired : repaired[i] = ref) ELSE ref
    IN [i \in DOMAIN repaired |-> valid(i)] \o
       [i \in DOMAIN steps |->
            IF steps[i].op \notin POLYGON_OPS THEN steps[i]
            ELSE [steps[i] EXCEPT !.inputs = [r \in DOMAIN steps[i].inputs |-> Rewired(steps[i].inputs[r])]]]

repair_invalid_inputs(steps, layers) == Rewire(steps, Repaired(steps, layers))

PlanOf(steps) == [steps |-> steps, output |-> NoNode]
NoPlan(why) == [ok |-> FALSE, error |-> why]
Planned(plan, backend) == [ok |-> TRUE, plan |-> plan, backend |-> backend]

\* A plan that validates, with the backend that wrote it.
Validated(plan, layers, backend) ==
    IF ~validate_plan(plan, layers) THEN NoPlan("plan") ELSE Planned(plan, backend)

(* Faulty variant: the plan is returned although a condition is left over. *)
finish_unchecked(draft, q, layers) ==
    IF ~draft.ok THEN NoPlan("unresolved")
    ELSE Validated(PlanOf(repair_invalid_inputs(draft.steps, layers)), layers, "rule")

\* A question no rule could answer, or not all of whose conditions the rule
\* applied, is declined.
finish(draft, q, layers) ==
    IF ~draft.ok \/ ~(signals(q, layers) \subseteq draft.used) THEN NoPlan("unresolved")
    ELSE Validated(PlanOf(repair_invalid_inputs(draft.steps, layers)), layers, "rule")

plan_with_rules(q, layers, context) == finish(Choose(q, mentions(q, layers), layers, context), q, layers)

-----------------------------------------------------------------------------
(* The language model.  An answer is a transport failure, or a content     *)
(* that parses or not, whose text has a confidence beginning with 0 or     *)
(* not, and the confidence and the plan it parses to.                      *)

Attempts == 3

(* Faulty variant: the answer is trusted to name loaded layers and steps.  *)
parse_llm_plan_trusting(content, layers) ==
    IF ~content.json \/ content.confidence = 0 THEN NoPlan("unresolved") ELSE Planned(content.plan, "llm")

parse_llm_plan(content, layers) ==
    IF ~content.json \/ content.confidence = 0 THEN NoPlan("unresolved")
    ELSE Validated(content.plan, layers, "llm")

\* The first answer that is a plan, a refusal or a transport failure ends
\* the exchange; any other is sent back with the reason.
Decides(content, parsed) == ~content.sent \/ parsed.ok \/ (parsed.error = "unresolved" /\ content.zero)

Exchange(answers, parsed) ==
    LET deciding == {i \in 1..Attempts : Decides(answers[i], parsed[i])}
        i == Min(deciding)
    IN IF deciding = {} THEN NoPlan("unresolved") @@ [calls |-> Attempts]
       ELSE IF ~answers[i].sent THEN NoPlan("provider") @@ [calls |-> i]
       ELSE parsed[i] @@ [calls |-> i]

plan_with_llm(answers, layers) ==
    Exchange(answers, [i \in 1..Attempts |-> parse_llm_plan(answers[i], layers)])

\* What the caller gets, of the answers of the rules and of the model.
Select(mode, ready, rules, asked) ==
    IF mode = "llm" /\ ~ready THEN NoPlan("unresolved") @@ [calls |-> 0]
    ELSE IF mode = "rule" \/ ~ready THEN rules @@ [calls |-> 0]
    ELSE IF asked.ok \/ mode = "llm" THEN asked
    ELSE rules @@ [calls |-> asked.calls]

plan(q, layers, context, mode, ready, answers) ==
    Select(mode, ready, plan_with_rules(q, layers, context), plan_with_llm(answers, layers))

-----------------------------------------------------------------------------

(* A layer is mentioned wherever an alias of it is the longest match of    *)
(* its text, each mention is a match of the layer, mentions are in the     *)
(* order of the text, and a stored result is mentioned only when no source *)
(* layer is (mentions, mentions_in).                                       *)
MentionsAreMaximal(q, layers, found) ==
    LET Eligible(s) == layers[s.layer].kind # "None" /\
                       (is_source(layers[s.layer]) \/ ~\E i \in DOMAIN found : is_source(layers[found[i].id]))
        spans == {q.spans[i] : i \in {j \in DOMAIN q.spans : Eligible(q.spans[j])}}
    IN /\ \A i \in DOMAIN found : Eligible([layer |-> found[i].id])
       /\ \A i \in DOMAIN found : \E s \in spans : s.layer = found[i].id /\ s.start = found[i].pos
       /\ \A s \in spans :
             (\A t \in spans \ {s} : Overlap(s, t) => t.end - t.start < s.end - s.start) =>
                \E i \in DOMAIN found : found[i].id = s.layer /\ found[i].pos <= s.start
       /\ \A i, j \in DOMAIN found : i < j => found[i].pos < found[j].pos

(* Whatever rules a question meets, the plan they write is one the plan    *)
(* validator accepts: a question is answered or declined, never failed on  *)
(* a step that nothing reads or that reads a later one; and what runs is   *)
(* what the plan means.                                                    *)
RulePlansValidate(layers, result) ==
    IF ~result.ok THEN result.error # "plan"
    ELSE LET run == run_plan(result.plan, layers, layers, {})
         IN run # Failed /\ run.output = Meaning(result.plan, layers)

(* A plan applies every condition its question contains: a negation        *)
(* inverts a selection or erases, a threshold and a named feature filter,  *)
(* a statistic and a sum aggregate, and a comparison in time is declined.  *)
(* The one exception is a negated distance whose answer is a join, where   *)
(* the rule counts the negation as applied without applying it.            *)
PlansApplyTheirConditions(q, layers, result) ==
    LET applied == UNION {result.plan.steps[i].applies : i \in DOMAIN result.plan.steps}
        joins == q.distance /\ \E i \in DOMAIN result.plan.steps : result.plan.steps[i].op = "spatial_join"
    IN result.ok => \A c \in signals(q, layers) : c \in applied \/ (c = "negation" /\ joins)

\* The operations that begin with require_valid on each of their inputs.
require_valid ==
    {"buffer", "clip", "erase", "intersect", "dissolve", "spatial_join", "select_by_location",
     "distance_to_nearest"}

(* No operation that rejects invalid polygons reads a loaded layer that    *)
(* has some, each such layer is repaired once, and repairs apart the plan  *)
(* is the one the rule wrote.                                              *)
RepairsReachPolygonOps(layers, draft, result) ==
    LET steps == result.plan.steps
        repairs == {i \in DOMAIN steps : steps[i].op = "make_valid"}
        Origin(ref) == IF \E i \in repairs : steps[i].id = ref.node
                       THEN steps[CHOOSE i \in repairs : steps[i].id = ref.node].inputs["layer"] ELSE ref
        kept == SelectSeq(steps, LAMBDA s : s.op # "make_valid")
    IN result.ok =>
        /\ \A i \in DOMAIN steps : steps[i].op \in require_valid =>
              \A r \in DOMAIN steps[i].inputs : ~Broken(steps[i].inputs[r], layers)
        /\ \A i, j \in repairs : steps[i].inputs = steps[j].inputs => i = j
        /\ [i \in DOMAIN kept |-> [kept[i] EXCEPT !.inputs = [r \in DOMAIN kept[i].inputs |->
                                                                 Origin(kept[i].inputs[r])]]]
              = draft.steps

(* Whatever the model answers, a plan that reaches the user validates      *)
(* against the loaded layers, the model is asked at most three times and   *)
(* only when it is configured and allowed, and its failure in auto mode    *)
(* gives the answer of the rules.                                          *)
AskedPlansAreChecked(layers, mode, ready, answers, rules, result) ==
    /\ result.ok => validate_plan(result.plan, layers)
    /\ result.calls <= Attempts /\ (mode = "rule" \/ ~ready => result.calls = 0)
    /\ mode = "llm" => (result.ok => result.backend = "llm")
    /\ (mode = "auto" /\ ready /\ \A i \in 1..Attempts : ~parse_llm_plan(answers[i], layers).ok) =>
          (result.ok = rules.ok /\ (rules.ok => result.plan = rules.plan))
=============================================================================
