----------------------------- MODULE MCDecisions -----------------------------
(***************************************************************************)
(* Runs the pure decisions of the system on bounded families of inputs.    *)
(* A behaviour picks one case of one family; the invariants compare what   *)
(* the code decides about the case with what the decision means.           *)
(***************************************************************************)
EXTENDS WorkflowTemplates

CONSTANTS
    Families,   \* the families a behaviour may pick from
    MaxNodes    \* workflow graphs have up to this many steps

VARIABLES family, case

vars == <<family, case>>

Trust == INSTANCE TrustPolicy
Route == INSTANCE IntentRouting
Plans == INSTANCE ToolkitPlan
Planner == INSTANCE ToolkitPlanner
Ops == INSTANCE GisOps
Fed == INSTANCE Federation
Geo == INSTANCE GeoContracts
Capsule == INSTANCE ResultCapsule
Export == INSTANCE EvidenceExports
Adapt == INSTANCE Adapters
Store == INSTANCE RemoteStorage
Scenario == INSTANCE Scenarios
Walk == INSTANCE WalkRouting

NoCase == [none |-> TRUE]
Picked(f) == family = f /\ case # NoCase

-----------------------------------------------------------------------------
(* Workflow graphs                                                         *)

Named(n, deps, inputs, outputs) ==
    [stable_id |-> n, derived |-> n, depends_on |-> deps, inputs |-> inputs,
     outputs |-> outputs, output_contracts |-> << >>]

Result(n) == {DataRef(n, "result")}

WorkflowOf(steps, refs) ==
    [steps |-> steps, input_contracts |-> <<[name |-> "in", coherent |-> TRUE]>>,
     output_refs |-> refs]

\* N nodes with any dependency relation, nodes that do not exist included;
\* the steps are listed in descending order of their identifiers.
GraphShape(N, deps) ==
    WorkflowOf([i \in 1..N |-> LET n == N + 1 - i IN
                   Named(n, deps[n], {DataRef(d, "result") : d \in deps[n]}, Result(n))], {})

\* Two steps with every combination of references, exports and contracts.
Refs == {DataRef(NoNode, "in"), DataRef(NoNode, "other"), DataRef(1, "result"), DataRef(1, "extra")}

TwoSteps ==
    {[steps |-> <<Named(1, {}, {}, exports),
                  [stable_id |-> second, derived |-> 2, depends_on |-> deps, inputs |-> ins,
                   outputs |-> outs, output_contracts |-> contracts]>>,
      input_contracts |-> ic, output_refs |-> refs] :
        exports \in {{}, Result(1), Result(2)}, second \in {0, 1, 2},
        deps \in {{}, {1}}, ins \in {S \in SUBSET Refs : Cardinality(S) <= 1},
        outs \in {{}, Result(2)},
        contracts \in {<< >>, <<[port |-> "result", coherent |-> TRUE]>>,
                       <<[port |-> "extra", coherent |-> TRUE]>>},
        ic \in {<<[name |-> "in", coherent |-> c]>> : c \in BOOLEAN},
        refs \in {{}, Result(2), Result(3)}}

\* Steps of old JSON, with neither stable_ids nor references.
LegacySteps ==
    {WorkflowOf([i \in 1..N |-> [stable_id |-> 0, derived |-> ids[i], depends_on |-> {},
                                 inputs |-> {}, outputs |-> {}, output_contracts |-> << >>]], {}) :
        ids \in [1..3 -> 1..3], N \in 1..3}

Validated(w) == [workflow |-> w, verdict |-> topological_order(w)]

ValidateWorkflow ==
    /\ family = "workflow"
    /\ \/ \E w \in TwoSteps \cup LegacySteps \cup AllTemplates : case' = Validated(w)
       \/ \E N \in 0..MaxNodes : \E deps \in [1..N -> SUBSET (1..MaxNodes)] :
             case' = Validated(GraphShape(N, deps))

-----------------------------------------------------------------------------
(* Prompts                                                                 *)

PromptSets(n) == {words \in SUBSET Route!KeywordGroups : Cardinality(words) <= n}

NoAnswer == [ok |-> FALSE, workflow |-> "NagoyaDensity", confidence |-> 0, tools |-> <<>>]

Answers ==
    {[ok |-> ok, workflow |-> w, confidence |-> c, tools |-> tools] :
        ok \in BOOLEAN, w \in Route!WorkflowId, c \in 0..1,
        tools \in {<<>>, <<Route!Call("stac_bind", TRUE)>>, <<Route!Call("stac_bind", FALSE)>>,
                   <<Route!Call("plan_workflow", TRUE), Route!Call("run_copc_change", TRUE)>>}}

PlanPrompt ==
    /\ family = "prompt"
    /\ \/ \E words \in PromptSets(4), fetched \in BOOLEAN :
             case' = [words |-> words, config |-> [backend |-> "rule", fallback_to_rules |-> TRUE],
                      answer |-> NoAnswer, fetched |-> fetched]
       \/ \E words \in {{}, {"nagoya", "density"}, {"cog", "local"}}, answer \in Answers,
             fallback \in BOOLEAN :
             case' = [words |-> words, config |-> [backend |-> "llm", fallback_to_rules |-> fallback],
                      answer |-> answer, fetched |-> TRUE]

-----------------------------------------------------------------------------
(* Trust                                                                   *)

Oracle == {[code |-> 1, population |-> 2, area |-> 1000], [code |-> 2, population |-> 1, area |-> 1000]}

Ward(codes, populations, areas) == [code : codes, population : populations, area : areas]

WardLists ==
    {<<a, b>> : a \in Ward({1, 2}, 0..2, {0, 994, 995, 1000, 1005, 1006}),
                b \in Ward({1, 2}, 1..2, {995, 1000, 1005, 1006})}
    \cup {<<a, b, c>> : a \in Ward({1}, 1..2, {995, 1000}), b \in Ward({1, 2}, {1}, {1000, 1006}),
                        c \in Ward({1, 2}, 0..1, {0, 1000})}
    \cup {<<a>> : a \in Ward({1, 2}, {2}, {1000})} \cup {<<>>}

JudgeDensity ==
    /\ family = "density"
    /\ \E wards \in WardLists, verified \in BOOLEAN, duckdb \in BOOLEAN :
          case' = [wards |-> wards, verified |-> verified, duckdb |-> duckdb]

Policies ==
    {[schemas |-> TRUE, contracts |-> contracts, artifacts |-> 1, verified |-> verified,
      version |-> FALSE, license |-> FALSE, assurance |-> assurance, attesters |-> attesters,
      checks |-> checks] :
        contracts \in {{}, {"c"}}, verified \in BOOLEAN,
        assurance \in {{}, {[authorities |-> {}, max_age |-> -1, kinds |-> {"Schema"},
                             corroborations |-> 1, uncertainty |-> FALSE, limitations |-> FALSE,
                             disputes |-> TRUE]}},
        attesters \in {{}, {"a"}},
        checks \in {<<>>, <<Trust!Required("x", "Domain", 5)>>, <<Trust!Required("x", "Domain", 6)>>}}

Dossiers ==
    {{}} \cup {{[bound |-> bound, names_source |-> TRUE,
                 assurance |-> [identity |-> TRUE, authority |-> "p", age |-> -1,
                    checks |-> <<[id |-> 1, kind |-> "Schema", passed |-> passed, replayable |-> TRUE],
                                 [id |-> 2, kind |-> "Schema", passed |-> TRUE, replayable |-> TRUE]>>,
                    uncertainty |-> FALSE, limitations |-> FALSE, disputes |-> 1,
                    corroborations |-> <<[independent |-> TRUE, agrees |-> TRUE,
                                          digests |-> TRUE, own |-> ~passed]>>]]} :
                    bound \in BOOLEAN, passed \in BOOLEAN}

Evidence ==
    {[replay |-> [identities |-> TRUE, artifacts |-> artifacts],
      contracts |-> contracts, sources |-> sources, checks |-> checks, attestation |-> attestation] :
        artifacts \in 0..1, contracts \in {<<>>, <<[id |-> "c", compatible |-> TRUE]>>},
        sources \in {{[verified |-> TRUE, version |-> TRUE, license |-> FALSE, dossier |-> d]} : d \in Dossiers},
        checks \in {<<>>, <<[id |-> "x", passed |-> TRUE, class |-> "Domain", digest |-> TRUE, error |-> 6]>>},
        attestation \in {{}, {[signature_verified |-> TRUE, signer |-> "a"]}}}

(* Two policies over one body of evidence.                                 *)
AssessEvidence ==
    family = "levels" /\ \E p, q \in Policies, e \in Evidence :
        Trust!Stricter(p, q) /\ case' = [p |-> p, q |-> q, evidence |-> e]

GraphNodes ==
    [id : {1, 2}, class : {"Domain", "Oracle"}, max : {-1, 4, 5}, depends : {{}, {1}, {2}}]

CheckLists ==
    {<<>>} \cup {<<[id |-> i, classes |-> c, max |-> m]>> : i \in 1..2, c \in {{"Domain"}, {"Domain", "Oracle"}},
                                                            m \in {-1, 4}}

BindGraph ==
    family = "graph" /\ \E a, b \in GraphNodes, checks \in CheckLists :
        case' = [graph |-> <<a, b>>, policy |-> [checks |-> checks]]

-----------------------------------------------------------------------------
(* Toolkit plans                                                           *)

Layers == [L1 |-> Plans!Term("source", 1), L2 |-> Plans!Term("source", 2)]
Edited == [Layers EXCEPT !.L1 = Plans!Term("source", 3)]

PlanRefs(ids) == {Plans!LayerRef("L1"), Plans!LayerRef("L9")} \cup {Plans!StepRef(i) : i \in ids}
Making == [op |-> "make_points", inputs |-> <<>>]
Buffering(refs) == {[op |-> "buffer", inputs |-> [layer |-> r]] : r \in refs}
Clipping(refs) == {[op |-> "clip", inputs |-> [layer |-> r, mask |-> m]] : r, m \in refs}

PlanSteps(ids) ==
    {<<a, b, c>> : a \in {Making} \cup Buffering(PlanRefs({ids[3]})),
                   b \in {Making} \cup Buffering(PlanRefs({ids[1]})) \cup Clipping(PlanRefs({ids[1]})),
                   c \in {Making} \cup Buffering(PlanRefs({1, 2, 3})) \cup Clipping(PlanRefs({1, 2}))}

RunPlan ==
    /\ family = "plan"
    /\ \E ids \in {<<1, 2, 3>>, <<3, 1, 2>>, <<2, 2, 1>>}, output \in {NoNode, 1, 3} :
       \E steps \in PlanSteps(ids) :
          case' = [steps |-> [i \in 1..3 |-> [id |-> ids[i], op |-> steps[i].op,
                                             inputs |-> steps[i].inputs]],
                   output |-> output]

-----------------------------------------------------------------------------
(* Questions                                                               *)

Loaded(kind, derived, population, invalid) ==
    [kind |-> kind, derived |-> derived, population |-> population, invalid |-> invalid]

\* Points and two polygon layers; one layer alone; a stored result, a table
\* and points with invalid polygons beside them.
LayerSets ==
    {[L1 |-> Loaded("Point", FALSE, FALSE, FALSE), L2 |-> Loaded("Polygon", FALSE, broken, broken),
      L3 |-> Loaded("Polygon", FALSE, TRUE, TRUE)] : broken \in BOOLEAN} \cup
    {[L2 |-> Loaded("Polygon", FALSE, TRUE, TRUE)],
     [L1 |-> Loaded("None", FALSE, FALSE, FALSE), L2 |-> Loaded("Polygon", TRUE, TRUE, FALSE),
      L3 |-> Loaded("Point", FALSE, TRUE, FALSE)]}

Span(start, end, layer, found) == [start |-> start, end |-> end, layer |-> layer, found |-> found]

\* The spans a question may have, the longer ones over the shorter ones.
SpanLists ==
    {<<>>, <<Span(1, 2, "L2", 1)>>, <<Span(5, 7, "L1", 1), Span(1, 3, "L2", 2)>>,
     <<Span(1, 3, "L1", 1), Span(5, 7, "L2", 2)>>, <<Span(5, 7, "L2", 1), Span(1, 2, "L3", 2)>>,
     <<Span(1, 3, "L1", 1), Span(5, 6, "L2", 2), Span(4, 7, "L3", 3)>>}

Question(words, spans, conditions) ==
    [words |-> words, spans |-> spans, from |-> IF "from" \in conditions THEN 4 ELSE 0,
     distance |-> "distance" \in conditions, threshold |-> "threshold" \in conditions,
     place |-> "place" \in conditions /\ "population" \in words,
     named |-> IF "named" \in conditions THEN {"L2"} ELSE {},
     numeric |-> IF "numeric" \in conditions THEN {"L1", "L2"} ELSE {}]

ConditionSets ==
    {{}, {"distance"}, {"distance", "from"}, {"threshold", "numeric"}, {"named"}, {"numeric"}, {"place"},
     {"distance", "named"}, {"distance", "threshold", "numeric"}, {"distance", "threshold", "numeric", "named"}}

InLayers(spans, layers) == \A i \in DOMAIN spans : spans[i].layer \in DOMAIN layers

\* Two groups of words at most, of those that some rule tells apart.
Phrases ==
    {{}} \cup {{a, b} : a, b \in Planner!WordGroups \ {"length", "aggregate"}} \cup {{"length"}, {"aggregate"}} \cup
    {{"counting", "inside", "sum"}, {"counting", "per_polygon", "not_within"}, {"counting", "per_polygon", "inside"},
     {"here", "population", "counting"}, {"nearest", "mean", "extremum"}}

Questions ==
    {Question(words, spans, conditions) : words \in Phrases, spans \in SpanLists, conditions \in ConditionSets}

\* The clicked point and the selected layer, for the questions they matter to.
Contexts(q) ==
    {[point |-> TRUE, selected |-> "L2"]} \cup
    IF "here" \in q.words \/ q.spans = <<>> THEN {[point |-> FALSE, selected |-> "none"]} ELSE {}

\* Three matches anywhere in a short text.
ThreeSpans ==
    {<<Span(a, a + k, "L1", 1), Span(b, b + l, "L2", 2), Span(c, c + m, layer, 3)>> :
        a, b, c \in 1..4, k, l, m \in 1..3, layer \in {"L2", "L3"}}

AskQuestion ==
    /\ family = "question"
    /\ \/ \E q \in Questions, layers \in LayerSets : \E context \in Contexts(q) :
             InLayers(q.spans, layers) /\ case' = [q |-> q, layers |-> layers, context |-> context]
       \/ \E spans \in ThreeSpans, layers \in LayerSets :
             /\ InLayers(spans, layers)
             /\ case' = [q |-> Question({}, spans, {}), layers |-> layers, context |-> [point |-> FALSE, selected |-> "none"]]

Content(sent, json, zero, confidence, steps) ==
    [sent |-> sent, json |-> json, zero |-> zero, confidence |-> confidence, plan |-> Planner!PlanOf(steps)]

ModelPlans ==
    {<<Planner!step("result", "centroid", [layer |-> Plans!LayerRef(id)], {})>> : id \in {"L2", "L9"}}

\* A transport failure, text that is not JSON, a refusal, and plans.
ModelAnswers ==
    {Content(FALSE, FALSE, FALSE, 0, <<>>), Content(TRUE, TRUE, TRUE, 0, <<>>)} \cup
    {Content(TRUE, FALSE, zero, 0, <<>>) : zero \in BOOLEAN} \cup
    {Content(TRUE, TRUE, zero, 1, steps) : zero \in BOOLEAN, steps \in ModelPlans}

AskModel ==
    /\ family = "model"
    /\ \E answers \in [1..Planner!Attempts -> ModelAnswers], mode \in {"auto", "rule", "llm"}, ready \in BOOLEAN,
          words \in {{}, {"area"}} :
          case' = [q |-> Question(words, <<Span(1, 2, "L2", 1)>>, {}),
                   layers |-> [L2 |-> Loaded("Polygon", FALSE, TRUE, TRUE)],
                   context |-> [point |-> FALSE, selected |-> "none"],
                   mode |-> mode, ready |-> ready, answers |-> answers]

-----------------------------------------------------------------------------
(* Spatial operations and the grid index                                   *)

Cells == {{1}, {3}, {5}, {1, 3}, {3, 5}, {1, 5}, {1, 3, 5}}
Geometries == {Ops!NoGeometry} \cup {Ops!Polygon(s) : s \in Cells} \cup {Ops!PointAt(x) : x \in 0..3}
Second == {Ops!Polygon({1}), Ops!Polygon({3, 5}), Ops!PointAt(4), Ops!NoGeometry}
SecondOther == {Ops!Polygon({3, 5}), Ops!PointAt(4)}

Feature(i, g, v) == [id |-> i, geometry |-> g, value |-> v]

LayersOf(second, values, others) ==
    {<<Feature(1, g, v), Feature(2, h, w)>> : g \in Geometries, h \in second, v \in values, w \in others}

OverlayLayers ==
    family = "overlay" /\ \E a \in LayersOf(Second, {2, Ops!Missing}, {-1, 2}), b \in LayersOf(SecondOther, {2}, {2}) :
        case' = [a |-> a, b |-> b]

Predicates == {"intersects", "contains", "within", "disjoint", "within_distance"}

Box(x, y, w, h) == [x0 |-> x, y0 |-> y, x1 |-> x + w, y1 |-> y + h]
Boxes == {Box(x, y, 0, 0) : x \in {0, 1, 3, 4}, y \in {0, 2, 3}} \cup {Box(0, 0, 4, 0), Box(1, 1, 1, 2)}

SearchGrid ==
    family = "grid" /\ \E a, b \in Boxes, cell \in 1..3, px \in {-2, 0, 1, 2, 5}, py \in {-1, 1, 3} :
        case' = [boxes |-> <<Box(4, 3, 0, 0), a, b>>, cell |-> cell, px |-> px, py |-> py]

-----------------------------------------------------------------------------
(* Federated search and private catalogs                                   *)

ThreeEndpoints ==
    <<Fed!StacEndpoint(1, "u1", "anonymous"), Fed!StacEndpoint(2, "u2", "token"), Fed!StacEndpoint(3, "u3", "anonymous")>>

Parquet == [media |-> "parquet", data |-> TRUE]
Json(data) == [media |-> "json", data |-> data]
Everything == {"crs", "units", "license"}

StacItem(collection, id, from, metadata, assets) ==
    [collection |-> collection, id |-> id, bbox |-> <<from, from + 1>>, metadata |-> metadata, assets |-> assets]

\* The last item has the key of the first, written without a collection.
ItemPool ==
    <<StacItem(1, <<2>>, 0, Everything, <<Json(TRUE), Parquet>>),
      StacItem(2, <<1>>, 3, {"crs", "units"}, <<Parquet>>),
      StacItem(3, <<1>>, 1, Everything, <<Json(TRUE), Json(FALSE)>>),
      StacItem(0, <<1, 2>>, 2, {"crs"}, <<Parquet>>)>>

StacAnswers ==
    {[ok |-> FALSE, items |-> <<>>]} \cup
    {[ok |-> TRUE, items |-> items] :
        items \in {<<ItemPool[1]>>, <<ItemPool[3], ItemPool[1]>>, <<ItemPool[4]>>,
                   <<ItemPool[2], ItemPool[3], ItemPool[3]>>}}

SearchFederation ==
    /\ family = "federation"
    /\ \E answers \in [1..3 -> StacAnswers], environment \in {{}, {"token"}}, limit \in {Fed!NoLimit, 1},
          bbox \in {Fed!Anywhere, <<0, 1>>}, media \in {<<"parquet">>, <<"json", "parquet">>},
          required \in BOOLEAN :
          case' = [answers |-> answers, environment |-> environment,
                   request |-> Fed!StacSearchRequest(bbox, {}, limit),
                   requirements |-> Fed!AssetRequirements(media, bbox, required)]

AccessRules ==
    {Fed!CatalogAccessRule("Public", Fed!NoOrganization, {}, {}),
     Fed!CatalogAccessRule("Local", "A", {}, {}),
     Fed!CatalogAccessRule("Local", Fed!NoOrganization, {}, {})} \cup
    {Fed!CatalogAccessRule("OrganizationPrivate", "A", subjects, roles) :
        subjects \in {{}, {"s"}}, roles \in {{}, {"r"}}}

AdmitPrivate ==
    /\ family = "private"
    /\ \E rules \in [1..2 -> AccessRules], organization \in {"A", "B", Fed!NoOrganization},
          subject \in {"s", "t"}, roles \in {{}, {"r"}}, url \in {"u1", "u9"}, also \in {"u2", "u9"} :
          case' = [endpoints |-> <<ThreeEndpoints[2], ThreeEndpoints[1]>>,
                   others |-> <<Fed!StacEndpoint(2, also, "token"), Fed!StacEndpoint(1, url, "anonymous")>>,
                   policy |-> rules,
                   context |-> [subject |-> subject, organization |-> organization, roles |-> roles]]

-----------------------------------------------------------------------------
(* Contracts                                                               *)

Spatials == {Geo!NoSection} \cup
    {[geometry_kind |-> "Polygon", axis_order |-> axes, coordinate_unit |-> unit, crs |-> crs, extent |-> extent,
      resolution |-> Geo!None] :
        axes \in {"Xy", "Unknown"}, unit \in {"degree", "metre"}, crs \in {"geographic", "projected", Geo!None},
        extent \in {"inverted", Geo!None}}

Measures == {Geo!NoSection, Geo!simple("Count", "person", "Sum"), Geo!simple("Density", "person/km2", "RatioOfSums"),
             [Geo!simple("Density", "person/km2", "RatioOfSums") EXCEPT !.numerator = "person", !.denominator = "km2"]}

Coverages == {Geo!NoSection} \cup
    {[scope |-> "nagoya", expected_feature_count |-> count, join_keys |-> keys, key_uniqueness |-> "Unique",
      null_policy |-> policy] :
        count \in {"16", Geo!None}, keys \in {<<>>, <<"code">>, <<"code", "code">>}, policy \in {"Reject", "Unknown"}}

TemporalAndSource ==
    {[temporal |-> t, source |-> s, tolerances |-> q] :
        t \in {[reference_period |-> "2020", granularity |-> "Year", observed_at |-> o] : o \in {"Unknown", Geo!None}},
        s \in {Geo!NoSection, Geo!SourceContract_new("uri"),
               [Geo!SourceContract_new("uri") EXCEPT !.expected_checksum = "c"]},
        q \in {<<>>, <<[metric |-> "m", ppm |-> 5]>>, <<[metric |-> "m", ppm |-> 6]>>,
               <<[metric |-> "m", ppm |-> 5], [metric |-> "m", ppm |-> 6]>>}}

\* One section at a time, and what sections decide together.
ContractFamilies ==
    {{[Geo!new EXCEPT !.spatial = s, !.measure = m] : s \in {Geo!NoSection, Geo!known("Polygon", "projected", "Xy")}, m \in Measures},
     {[Geo!new EXCEPT !.spatial = s] : s \in Spatials},
     {[Geo!new EXCEPT !.coverage = c, !.measure = m] : c \in Coverages, m \in {Geo!NoSection, Geo!simple("Count", "person", "Sum")}},
     {[Geo!new EXCEPT !.temporal = r.temporal, !.source = r.source, !.tolerances = r.tolerances] : r \in TemporalAndSource}}

CompareContracts ==
    family = "contract" /\ \E contracts \in ContractFamilies : \E p, q, r \in contracts :
        case' = [provided |-> p, required |-> q, other |-> r]

-----------------------------------------------------------------------------
(* Capsules                                                                *)

Assured(id, assured, snapshot) == [id |-> id, assured |-> assured, snapshot |-> snapshot]

\* What one run of the density analysis hands to the capsule.
RunOf(p) ==
    LET workflow == [id |-> p.command, steps |-> p.steps]
        evidence(result) ==
            [passed |-> p.passed, sources |-> p.sources,
             replay |-> [workflow |-> Capsule!stable_digest(workflow), backend |-> p.engine, result |-> result,
                         artifacts |-> {Capsule!digest(p.map), Capsule!digest(<<"png", p.map>>)}]]
        analysis == [rows |-> p.rows, workflow |-> workflow]
        verified == p.policy \subseteq p.passed
        result == Capsule!canonical_digest(analysis, verified, p.map, <<"png", p.map>>, 1)
    IN [analysis |-> analysis, workflow |-> workflow, html |-> p.map, png |-> <<"png", p.map>>,
        command |-> [id |-> p.command, workflow_id |-> workflow.id, workflow_digest |-> Capsule!stable_digest(workflow)],
        receipt |-> [result_digest |-> result, workflow_id |-> workflow.id, command_id |-> p.command,
                     workflow_digest |-> Capsule!stable_digest(workflow), policy |-> p.policy, graph |-> Capsule!Checks,
                     graph_digest |-> Capsule!digest(Capsule!Checks), evidence |-> evidence(result),
                     trust |-> Capsule!assess(p.policy, evidence(result)), passed |-> verified, engine |-> p.engine,
                     stages |-> 1]]

Lists == {<<>>, <<Assured(1, FALSE, 1)>>, <<Assured(1, TRUE, 1)>>, <<Assured(1, TRUE, 1), Assured(2, TRUE, 1)>>,
          <<Assured(1, FALSE, 1), Assured(2, TRUE, 2)>>}

RunParameters(rows, maps, commands, engines, lists) ==
    [rows : rows, map : maps, command : commands, steps : {<<1>>, <<2>>}, sources : lists, engine : engines,
     passed : {Capsule!Checks, {"source_checksum"}}, policy : {{"density_oracle"}, Capsule!Checks}]

Rows(v, citations) == [value |-> v, citations |-> citations]

FirstRun == [rows |-> Rows(1, {"https"}), map |-> <<"map", 1>>, command |-> 1, steps |-> <<1>>, sources |-> <<Assured(1, TRUE, 1)>>,
             engine |-> "e1", passed |-> Capsule!Checks, policy |-> {"density_oracle"}]

Complete(id, kind) == Capsule!OperationalEvidence_new(id, kind, [complete |-> TRUE, of |-> id])
Envelopes ==
    {<<>>, <<Complete("a", "Adapter")>>,
     <<Complete("d", "TrustUx"), Complete("b", "Edit"), Complete("a", "Adapter"), Complete("c", "Io")>>,
     <<Complete("d", "TrustUx"), Complete("b", "Edit"), Complete("a", "Adapter"), Complete("d", "Io")>>}

SealResult ==
    family = "seal" /\ \E p \in RunParameters({Rows(1, {"https"})}, {<<"map", 1>>}, {1}, {"e1"}, Lists), evidence \in Envelopes :
        case' = [result |-> RunOf(p), evidence |-> evidence]

MixCapsules ==
    /\ family = "mix"
    /\ \E q \in RunParameters({Rows(1, {"https"}), Rows(2, {"https"})}, {<<"map", 1>>, <<"map", 2>>}, 1..2, {"e1"},
                                {<<Assured(1, TRUE, 1)>>, <<Assured(1, TRUE, 2)>>}) :
       \E from_b \in {S \in SUBSET Capsule!Required : Cardinality(S) <= 3} :
          case' = [a |-> FirstRun, b |-> q, from_b |-> from_b]

CapsuleA == Capsule!seal_capsule(RunOf(case.a), <<>>)
CapsuleB == Capsule!seal_capsule(RunOf(case.b), <<>>)

Values(inner) ==
    {Capsule!Leaf(1), Capsule!Leaf(2)} \cup
    {Capsule!Object(f) : f \in UNION {[keys -> inner] : keys \in SUBSET {"a", "id"}}} \cup
    {Capsule!Array(s) : s \in UNION {[1..n -> inner] : n \in 0..2}}

Documents == Values(Values({Capsule!Leaf(1)}))

CompareDocuments ==
    family = "document" /\ \E old, new \in Documents : case' = [old |-> old, new |-> new]

-----------------------------------------------------------------------------
(* Publications, bridges and narratives                                    *)

PublishRuns ==
    {[FirstRun EXCEPT !.rows = Rows(v, citations), !.command = command, !.policy = policy, !.passed = passed] :
        v \in 1..2, citations \in {{"https"}, {"https", "file"}, {"unix"}, {}}, command \in 1..2,
        policy \in {{"density_oracle"}, Capsule!Checks}, passed \in {Capsule!Checks, {"density_oracle"}}}

Publish ==
    family = "publish" /\ \E p \in PublishRuns, from_b \in SUBSET {"index", "embed", "publication", "capsule"},
                            weak \in BOOLEAN :
        case' = [a |-> FirstRun, b |-> p, from_b |-> from_b,
                 policy |-> [capsule_download |-> ~weak, reject_local_paths |-> TRUE]]

NamePaths ==
    family = "prov" /\ \E n, k \in 1..3 : \E p \in [1..n -> {"%", "/", "2", "F"}], q \in [1..k -> {"%", "/", "2", "F"}] :
        case' = [p |-> p, q |-> q]

Bytes == {[format |-> f, of |-> n] : f \in {"GeoJson", "Cog"}, n \in 1..2}
BridgeLayer(ids) == [id : ids, format : {"GeoJson", "Cog"}, crs_matches : BOOLEAN,
                     expected : {{}, {Capsule!digest([format |-> "GeoJson", of |-> 1])}}]

SealBridge ==
    family = "bridge" /\ \E a \in BridgeLayer({"", "l1"}), b \in BridgeLayer({"l1", "l2"}), first, second \in [1..2 -> Bytes],
                           n \in 1..2 :
        case' = [layers |-> SubSeq(<<a, b>>, 1, n), first |-> first, second |-> second]

FrameMaps == {<<>>, <<[layer |-> 1, result |-> 1]>>, <<[layer |-> 1, result |-> 1], [layer |-> 2, result |-> 2]>>,
              <<[layer |-> 1, result |-> 1], [layer |-> 1, result |-> 1]>>}
Frames == [id : 1..2, map : FrameMaps, dashboard : {{}, {1}, {2}}]

ComposeNarrative ==
    family = "narrative" /\ \E a, b \in Frames, result, source \in 1..2, n \in 0..2 :
        case' = [frames |-> SubSeq(<<a, b>>, 1, n), result |-> result, source |-> source]

-----------------------------------------------------------------------------
(* Adapters                                                                *)

ShippedManifests ==
    [qgis |-> Adapt!qgis_manifest, grass |-> Adapt!grass_manifest, postgis |-> Adapt!postgis_manifest,
     ogc |-> Adapt!ogc_web_service_manifest, geocoding |-> Adapt!geocoding_manifest]

ShippedPolicy(adapter) ==
    LET id == ShippedManifests[adapter].adapter_id
    IN CASE adapter = "qgis" -> Adapt!sandboxed_file_process(id)
         [] adapter = "grass" -> Adapt!sandboxed_process(id)
         [] adapter = "postgis" -> Adapt!read_only_database(id)
         [] OTHER -> Adapt!read_only_network(id)

\* The capabilities the adapter asks for when it executes the operation.
AskedCapabilities(adapter, id) ==
    CASE adapter = "qgis" -> Adapt!QgisCapabilities([op |-> id])
      [] adapter = "grass" -> {"ProcessSpawn"}
      [] adapter = "postgis" -> {"DatabaseRead"}
      [] adapter = "ogc" \/ id = "http_json" -> {"NetworkRead"}
      [] OTHER -> {}

Tightened(policy) ==
    {policy, [policy EXCEPT !.accepted_adapters = {}], [policy EXCEPT !.required_evidence_hooks = Adapt!EvidenceHook]}
    \cup {[policy EXCEPT !.allowed_capabilities = @ \ {c}] : c \in Adapt!Capability}

Drifted(i) ==
    {[i EXCEPT !.adapter_version = "0.2.0"], [i EXCEPT !.operation_id = "other"], [i EXCEPT !.operation_version = "2.0.0"],
     [i EXCEPT !.backend.engine_version = <<"0">>], [i EXCEPT !.backend.components = {}]}
    \cup {[i EXCEPT !.requested_capabilities = C] : C \in {D \in SUBSET Adapt!Capability : D # i.requested_capabilities}}

AdmissionCases ==
    UNION {{[adapter |-> a, operation |-> ShippedManifests[a].operations[k].operation_id] :
               k \in DOMAIN ShippedManifests[a].operations} : a \in DOMAIN ShippedManifests}

AdmitOperation == family = "admission" /\ case' \in AdmissionCases

GeoFile(features, kinds, crs, size, id) ==
    [valid |-> TRUE, features |-> features, kinds |-> kinds, crs |-> crs, size |-> size, id |-> id]

Polygons(id) == GeoFile(1, {"Polygon"}, "projected", 1, <<id>>)

QgisCases ==
    {[op |-> "create-grid", width |-> w, height |-> 1000, hspacing |-> h, vspacing |-> 1, srid |-> "projected"] :
        w \in {0, 1000, 1001}, h \in {0, 1}}
    \cup {[op |-> "buffer", distance |-> d, segments |-> 5] : d \in {0, 10000, 10001}}
    \cup {[op |-> "reproject-layer", target |-> t] : t \in {"geographic", "projected"}}
    \cup {[op |-> "centroids", all_parts |-> TRUE], [op |-> "fix-geometries", method |-> "structure"]}

\* What the container writes is made of the file it opens.
Written(op, read, crs, size) ==
    GeoFile(1, {"Polygon"}, crs, size, IF Adapt!QgisReads(op) THEN <<op.op>> \o read.id ELSE <<op.op>>)

Directories ==
    {[exists |-> TRUE, is_dir |-> d, sandbox_writable |-> w, delimiter |-> FALSE] : d, w \in BOOLEAN}

EngineCases ==
    {[op |-> op,
      w |-> [image |-> i, directory |-> d, exists |-> e, checked |-> c, read |-> r, status |-> TRUE, report |-> report,
             output |-> Written(op, r, crs, size)]] :
        op \in QgisCases, i \in BOOLEAN, d \in Directories, e \in BOOLEAN,
        c \in {Polygons("a"), GeoFile(0, {}, "projected", 1, <<"a">>), GeoFile(1, {"Point"}, "projected", 1, <<"a">>),
               GeoFile(1, {"Polygon"}, "geographic", 1, <<"a">>)},
        r \in {Polygons("a"), Polygons("b")}, report \in {"reviewed", "other"},
        crs \in {"projected", "geographic", "none"}, size \in {1, Adapt!MAX_BYTES + 1}}

GrassRuns ==
    {[op |-> "raster.constant-stats", rows |-> r, cols |-> c] : r, c \in {0, 1, 1000, 1001, 10000, 10001}}
    \cup {[op |-> "region.grid", srid |-> s, height |-> h, width |-> 10000, resolution |-> n] :
              s \in {"projected", "geographic"}, h \in {0, 10000, 10001}, n \in 0..1}
    \cup {[op |-> "vector.seeded-points", points |-> n, seed |-> s] : n \in {0, 100000, 100001}, s \in 0..1}
    \cup {[op |-> "transform.point", source |-> "geographic", target |-> "projected", longitude |-> x, latitude |-> 90] :
              x \in {180, 181}}

PostgisRuns ==
    {[op |-> "null-ordering", values |-> v] : v \in [1..3 -> {<<>>, <<1>>, <<2>>}]}
    \cup {[op |-> o, srid |-> s] : o \in {"area.projected", "intersects"}, s \in {"projected", "geographic"}}

Lines(keys) == [k \in DOMAIN keys |-> [key |-> keys[k], value |-> k]]

WorkCases ==
    {[engine |-> "grass", op |-> op,
      w |-> [image |-> TRUE, status |-> TRUE, printed |-> p, lines |-> Lines(keys)]] :
        op \in GrassRuns, p \in {{"grass", "gdal", "proj"}, {"grass", "banner"}},
        keys \in {<<>>, <<"n", "m", "n">>, <<"none", "none", "none">>}}
    \cup {[engine |-> "postgis", op |-> op,
           w |-> [connects |-> TRUE, status |-> TRUE,
                  versions |-> [postgresql |-> v, components |-> {"postgis", "geos", "proj"}]]] :
              op \in PostgisRuns, v \in {<<"1", "8", ".", "6">>, <<"1", "7">>}}

RunWork == family = "work" /\ case' \in WorkCases

RunEngine == family = "engine" /\ case' \in EngineCases

Body(is, markers) == [is |-> is, markers |-> markers, features |-> 1]

OgcRequests ==
    {[operation |-> "get_capabilities", service |-> s] : s \in {"WMS", "WFS", "WCS"}}
    \cup {[operation |-> "wms.get_map", version |-> "1.3.0", layers |-> l, width |-> w, height |-> 1, format |-> f,
           bbox |-> <<0, 0, x, 1>>, crs |-> c] :
              l \in {<<>>, <<"l">>}, w \in {0, 2}, f \in {"image/png", "image/jpeg", "image/gif"}, x \in {0, 1},
              c \in {"geographic", "unknown"}}
    \cup {[operation |-> "wfs.get_feature", version |-> v, type_names |-> <<"t">>, count |-> n, bbox |-> b,
           crs |-> "projected"] : v \in {"2.0.0", "1.1.0"}, n \in {<<>>, <<0>>, <<1>>}, b \in {<<>>, <<1, 0, 0, 1>>}}

ServiceCases ==
    {[request |-> r, fetched |-> [ok |-> TRUE, content_type |-> t, body |-> Body(is, m)]] :
        r \in OgcRequests, t \in {"xml", "json", "image/png", "image/jpeg"},
        is \in {"document", "collection", "image/png", "image/jpeg", "empty"},
        m \in SUBSET {"WMS", "WFS", "exception"}}

AskService == family = "service" /\ case' \in ServiceCases

Gazetteer(labels) ==
    [k \in 1..Len(labels) |-> Adapt!GazetteerEntry(Len(labels) + 1 - k, labels[k], {})]

Labelled == {Gazetteer(l) : l \in [1..3 -> {{"a"}, {"b"}, {"a", "b"}}]}

GeocodingRequests ==
    {[mode |-> mode, queries |-> q, max_candidates |-> n] :
        mode \in {"Interactive", "Batch"}, n \in 0..3,
        q \in {<<>>, <<[id |-> "q1", text |-> {"a"}]>>, <<[id |-> "q1", text |-> {"a", "b"}], [id |-> "q2", text |-> {"b"}]>>,
               <<[id |-> "q1", text |-> {"a"}], [id |-> "q1", text |-> {"b"}]>>}}

\* A remote provider answers the queries it likes, in the order it likes.
RemoteResults ==
    LET Of(id, n) == [query_id |-> id,
                      candidates |-> [k \in 1..n |-> Adapt!GeocodeCandidate(Adapt!GazetteerEntry(k, {id}, {}), TRUE)]]
    IN {<<Of(i, n)>> : i \in {"q1", "q2"}, n \in 0..2}
       \cup {<<Of(i, n), Of(j, 1)>> : i \in {"q1", "q2"}, j \in {"q1", "q2"}, n \in 0..2}

GeocodeCases ==
    {[request |-> r, provider |-> [remote |-> FALSE, entries |-> e], privacy |-> "LocalOnly",
      fetched |-> [ok |-> FALSE, content_type |-> "none", body |-> [results |-> <<>>]]] :
        r \in GeocodingRequests, e \in Labelled}
    \cup {[request |-> r, provider |-> [remote |-> TRUE, entries |-> <<>>], privacy |-> p,
           fetched |-> [ok |-> ok, content_type |-> "json", body |-> [results |-> res]]] :
              r \in GeocodingRequests, p \in Adapt!GeocodingPrivacyPolicy, ok \in BOOLEAN, res \in RemoteResults}

Geocode == family = "geocode" /\ case' \in GeocodeCases

-----------------------------------------------------------------------------
(* Remote objects: two reads of one object behind one server, archives of  *)
(* at most three tiles, benchmark receipts.                                *)

Object(length) == [k \in 1..length |-> k]
Listed == [scheme |-> "https", credentials |-> FALSE, host |-> <<"x", ".", "a">>]
Sibling == [Listed EXCEPT !.host = <<"x", "a">>]

RemoteObject(length, kind, limit, url) ==
    [object |-> Object(length), length |-> length, kind |-> kind, url |-> url,
     policy |-> Store!RemoteAccessPolicy({<<"*", ".", "a">>}, FALSE, limit)]

RangeCases ==
    {[source |-> RemoteObject(length, kind, limit, url), first |-> <<s, n>>, second |-> <<t, m>>] :
        length \in {2, 3, 7}, kind \in {"honours", "ignores", "short", "shifts"}, limit \in {2, 100},
        url \in {Listed, Sibling}, s \in {0, 2, 4}, n \in 0..4, t \in 0..6, m \in {1, 3, 4}}

ReadRanges == family = "ranges" /\ case' \in RangeCases

TilesOf(zooms) == {t \in [z : zooms, x : 0..3, y : 0..3] : t.x < 2^t.z /\ t.y < 2^t.z}

ArchivedTiles == TilesOf({0, 1}) \cup {t \in TilesOf({5}) : t.x = 3 /\ t.y \in {0, 3}}

\* Zoom 5 puts identifiers beyond 127, into two bytes.
ArchiveCases ==
    {[tiles |-> {[z |-> t.z, x |-> t.x, y |-> t.y, bytes |-> bytes[t]] : t \in picked}, compress |-> compress, kind |-> kind] :
        <<picked, bytes>> \in UNION {{<<P, b>> : b \in [P -> {<<7>>, <<8, 9>>}]} :
                                        P \in {P \in SUBSET ArchivedTiles : Cardinality(P) \in 1..3}},
        compress \in BOOLEAN, kind \in {"honours", "ignores", "short"}}

ArchiveTiles == family = "tiles" /\ case' \in ArchiveCases

WalkCurve == family = "curve" /\ case' \in [zoom : 0..3]

Reported(format, size, asks) == Store!benchmark_fixture(format, Object(size), [k \in 1..5 |-> asks]).receipt

AskLists == {<<>>, << <<[start |-> 0, end |-> 0]>> >>, << <<>> >>, << <<[start |-> 0, end |-> 9]>>, <<[start |-> 4, end |-> 4]>> >>}

ViewCases ==
    {[receipts |-> [k \in 1..4 |-> IF k = at THEN [Reported(Store!Formats[k], size, asks) EXCEPT !.peak_rss = rss]
                                  ELSE Reported(Store!Formats[k], 5, << <<[start |-> 0, end |-> 0]>> >>)],
      gpu |-> [first_frame |-> frame, fps |-> fps], wall |-> wall] :
        at \in 1..4, size \in {1, 5, 12}, asks \in AskLists, rss \in {0, 50}, frame \in {1, 3}, fps \in {0, 10, 60}, wall \in {1, 4}}

ReportView == family = "view" /\ case' \in ViewCases

ManagedCases ==
    {[source |-> RemoteObject(length, kind, limit, url), expected |-> expected,
      asks |-> [k \in 1..n |-> Store!ByteRange(from, from + k)]] :
        length \in 1..12, kind \in {"honours", "ignores", "short", "shifts"}, limit \in {1, 100}, url \in {Listed, Sibling},
        expected \in {10, 12}, n \in 1..2, from \in {0, 5}}

MeasureRemote == family = "remote" /\ case' \in ManagedCases

-----------------------------------------------------------------------------
\* A reviewed scenario over a base, and what is later sent to be merged: the
\* branch itself or another, sealed anew or under the reviewed branch's digest.
Partial(names, values) == UNION {[S -> values] : S \in SUBSET names}

Drafts(projects) ==
    {[branch_id |-> "b", project |-> p, workflow |-> "w", result |-> r, assumptions |-> a, outcomes |-> o] :
        p \in projects, r \in {"r1", "r2"}, a \in Partial({"rain", "tide"}, {"low", "high"}),
        o \in [{"depth"} -> {"1 m", "2 m"}]}

Bases ==
    {d \in Drafts({"p1"}) : /\ d.result = "r1" /\ d.outcomes["depth"] = "1 m"
                            /\ \A name \in DOMAIN d.assumptions : d.assumptions[name] = "low"}

ReviewScenario ==
    /\ family = "scenario"
    /\ \E base \in Bases, reviewed \in Drafts({"p1", "p2"}), later \in Drafts({"p1"}),
          resealed \in BOOLEAN, reviewer \in {"ann", ""} :
          /\ reviewer = "" => later = reviewed
          /\ case' = [base |-> base, reviewed |-> reviewed, later |-> later, resealed |-> resealed, reviewer |-> reviewer]

\* Streets between the corners of a rectangle, a corner written twice, a
\* street that returns to its node, one with declared minutes.
Corner == [a |-> <<0, 0>>, b |-> <<12, 0>>, c |-> <<12, 16>>, d |-> <<0, 16>>, near |-> <<1, 0>>]
Street(coords, minutes) == [coords |-> coords, walk_min |-> minutes]

Streets == <<
    Street(<<Corner.a, Corner.d>>, Walk!Undeclared), Street(<<Corner.a, Corner.c>>, Walk!Undeclared),
    Street(<<Corner.b, Corner.c, Corner.d>>, Walk!Undeclared), Street(<<Corner.b, Corner.d>>, Walk!Undeclared),
    Street(<<Corner.near, Corner.b>>, Walk!Undeclared), Street(<<Corner.near, Corner.near>>, Walk!Undeclared),
    Street(<<Corner.d, Corner.c, Corner.b>>, 2)>>

Networks == {SelectSeq(Streets, LAMBDA s : s \in S) : S \in SUBSET {Streets[i] : i \in DOMAIN Streets}} \ {<<>>}

Corridor(coords, line, wait, ride) == [coords |-> coords, line |-> line, wait |-> wait, ride |-> ride]
Corridors == {<<>>, <<Corridor(<<Corner.b, Corner.d>>, "rail", 1, Walk!Undeclared)>>,
              <<Corridor(<<Corner.a, Corner.d>>, "rail", 4, 1), Corridor(<<Corner.d, Corner.c, Corner.b>>, "rail", 4, 1)>>,
              <<Corridor(<<Corner.a, Corner.d>>, "bus", 2, 3), Corridor(<<Corner.d, Corner.c, Corner.b>>, "rail", 4, 1)>>}

WalkNetwork ==
    /\ family = "walk"
    /\ case' \in [lines : Networks, corridors : Corridors, deep : {0}, penalty : {1}]
                    \cup [lines : Networks, corridors : {<<>>}, deep : {2}, penalty : 1..2]

Init == family \in Families /\ case = NoCase

Next ==
    /\ case = NoCase
    /\ UNCHANGED family
    /\ \/ ValidateWorkflow
       \/ PlanPrompt
       \/ JudgeDensity
       \/ AssessEvidence
       \/ BindGraph
       \/ RunPlan
       \/ AskQuestion
       \/ AskModel
       \/ OverlayLayers
       \/ SearchGrid
       \/ SearchFederation
       \/ AdmitPrivate
       \/ CompareContracts
       \/ SealResult
       \/ MixCapsules
       \/ CompareDocuments
       \/ Publish
       \/ NamePaths
       \/ SealBridge
       \/ ComposeNarrative
       \/ AdmitOperation
       \/ RunEngine
       \/ RunWork
       \/ AskService
       \/ Geocode
       \/ ReadRanges
       \/ ArchiveTiles
       \/ WalkCurve
       \/ ReportView
       \/ MeasureRemote
       \/ ReviewScenario
       \/ WalkNetwork

Spec == Init /\ [][Next]_vars

-----------------------------------------------------------------------------
(* Properties of workflow validation                                       *)

Accepted == Picked("workflow") /\ case.verdict.error = "none"

(***************************************************************************)
(* The order an accepted workflow runs in places every step once, after    *)
(* all it depends on and after every node whose output it reads.           *)
(***************************************************************************)
OrderRespectsDependencies ==
    Accepted =>
        LET order == case.verdict.order
            workflow == case.workflow
            At(n) == CHOOSE k \in DOMAIN order : order[k] = n
        IN  /\ Len(order) = Len(workflow.steps) /\ Range(order) = NodeIds(workflow)
            /\ \A i \in DOMAIN workflow.steps :
                  \A d \in DependenciesOf(workflow, i) \cup
                           {r.node : r \in {x \in InputsOf(workflow, i) : x.node # NoNode}} :
                     At(d) < At(node_id(workflow.steps[i]))

(***************************************************************************)
(* Cycle is reported exactly when some set of nodes waits only on itself:  *)
(* the queue of ready nodes neither misses a cycle nor invents one.        *)
(***************************************************************************)
CycleIffClosedWait ==
    Picked("workflow") =>
        LET workflow == case.workflow
            Waiting(S) == \A n \in S : DependenciesOf(workflow, IndexOf(workflow, n)) \cap S # {}
            cyclic == \E S \in SUBSET NodeIds(workflow) \ {{}} : Waiting(S)
        IN  /\ case.verdict.error = "Cycle" => cyclic
            /\ case.verdict.error \in {"none", "DisconnectedNodes", "MissingOutputReferences",
                                       "UnresolvedOutputReference", "InvalidOutputContract"} => ~ cyclic

(***************************************************************************)
(* DisconnectedNodes is reported exactly when the nodes split in two parts *)
(* with no edge between them, so an accepted workflow is one workflow.     *)
(***************************************************************************)
DisconnectedIffSplit ==
    Picked("workflow") =>
        LET workflow == case.workflow
            Split(S) == \A e \in Edges(workflow) : e[1] \in S <=> e[2] \in S
            splits == \E S \in SUBSET NodeIds(workflow) \ {{}, NodeIds(workflow)} : Split(S)
        IN  /\ case.verdict.error = "DisconnectedNodes" => splits
            /\ case.verdict.error = "none" => ~ splits

(***************************************************************************)
(* The order is a function of the graph: exchanging two steps in the list  *)
(* of an accepted workflow that names its nodes changes nothing.           *)
(***************************************************************************)
OrderIgnoresListing ==
    Accepted /\ ~ is_legacy_linear(case.workflow) =>
        LET Swap(s, i, j) == [s EXCEPT ![i] = s[j], ![j] = s[i]]
        IN  \A i, j \in DOMAIN case.workflow.steps :
                topological_order([case.workflow EXCEPT !.steps = Swap(case.workflow.steps, i, j)])
                    = case.verdict

(***************************************************************************)
(* The reachability pass after the cycle check never rejects anything: in  *)
(* an acyclic graph every node is reached from a root, and the error       *)
(* UnreachableNodes cannot be observed.                                    *)
(***************************************************************************)
ReachabilityImpliedByOrder == Picked("workflow") => case.verdict.error # "UnreachableNodes"

(***************************************************************************)
(* Every graph the product builds is accepted, reads each of its inputs,   *)
(* and runs the step whose result it returns last, so that sources are     *)
(* attached, and receipts sealed, after everything they vouch for.         *)
(***************************************************************************)
TemplatesEndWithTheirOutput ==
    Picked("workflow") /\ case.workflow \in AllTemplates =>
        /\ case.verdict.error = "none"
        /\ case.workflow.output_refs = Result(case.verdict.order[Len(case.verdict.order)])
        /\ ContractNames(case.workflow) =
              UNION {{r.port : r \in {x \in InputsOf(case.workflow, i) : x.node = NoNode}} :
                        i \in DOMAIN case.workflow.steps}

-----------------------------------------------------------------------------
(* Properties of prompts and trust                                         *)

(* Keyword, resolution, tag, tool and verifier tables agree on every       *)
(* prompt, planned by rules or by a model (IntentRouting).                 *)
ResolvedPromptsRun ==
    Picked("prompt") => Route!ResolvedPromptsRun(case.words, case.config, case.answer, case.fetched)

(* The executor's flag and the trust policy never disagree on a density    *)
(* result, whatever its wards (TrustPolicy).                               *)
FlagAgreesWithPolicy == Picked("density") => Trust!FlagAgreesWithPolicy(Oracle, case)

(* A stricter policy never trusts the same evidence more (TrustPolicy).    *)
StricterPolicyTrustsLess ==
    Picked("levels") => Trust!StricterPolicyTrustsLess(case.p, case.q, case.evidence)

(* Evidence that meets a graph bound to a policy meets the policy.         *)
GraphCoversPolicy == Picked("graph") => Trust!GraphCoversPolicy(case.graph, case.policy)

-----------------------------------------------------------------------------
(* Properties of the toolkit                                               *)

(* An accepted plan compiles, runs, and yields what it means read from top *)
(* to bottom, with the output's receipt last (ToolkitPlan).                *)
PlansRunAsWritten == Picked("plan") => Plans!PlansRunAsWritten(case, Layers)

(* An import yields the layer its file decodes to, or the decoder's error. *)
ImportsYieldTheirFile ==
    (family = "plan" /\ case = NoCase) =>
        \A name \in DOMAIN Layers, error \in {"none", "crs required"} :
            Plans!ImportsYieldTheirFile(name, [error |-> error, layer |-> Layers[name]])

(* A plan whose layers changed after it was authorized, or one of whose    *)
(* checks fails, yields nothing.                                           *)
ChangedInputsStopPlans ==
    Picked("plan") => /\ Plans!ChangedInputsStopPlans(case, Layers, Edited, {})
                      /\ Plans!ChangedInputsStopPlans(case, Layers, Layers, {1})

(* A layer is mentioned where its alias is the longest match of the text,  *)
(* and a stored result only when no source layer is (ToolkitPlanner).      *)
MentionsAreMaximal ==
    Picked("question") => Planner!MentionsAreMaximal(case.q, case.layers, Planner!mentions(case.q, case.layers))

(* The rules answer a question with a plan that validates and runs as it   *)
(* reads, or decline it; a question with a condition the plan would not    *)
(* apply is declined, a negated distance that is answered by a join        *)
(* excepted; operations that reject invalid polygons read repaired layers, *)
(* and the repairs change nothing else of the plan.                        *)
RuleAnswersHold(q, layers, draft, result) ==
    /\ Planner!RulePlansValidate(layers, result)
    /\ Planner!PlansApplyTheirConditions(q, layers, result)
    /\ Planner!RepairsReachPolygonOps(layers, draft, result)

RulePlansAnswer ==
    Picked("question") =>
        RuleAnswersHold(case.q, case.layers,
            Planner!Choose(case.q, Planner!mentions(case.q, case.layers), case.layers, case.context),
            Planner!plan_with_rules(case.q, case.layers, case.context))

(* A model's plan is used only after it validates, in at most three calls, *)
(* and in auto mode its failure leaves the answer to the rules.            *)
AskedPlansAreChecked ==
    Picked("model") =>
        Planner!AskedPlansAreChecked(case.layers, case.mode, case.ready, case.answers,
            Planner!plan_with_rules(case.q, case.layers, case.context),
            Planner!plan(case.q, case.layers, case.context, case.mode, case.ready, case.answers))

(* Clip and erase by one mask split every polygon without loss (GisOps).   *)
ClipAndErasePartition == Picked("overlay") => Ops!ClipAndErasePartition(case.a, case.b)

(* The bounding-box index skips no pair the predicate accepts.             *)
IndexLosesNoMatch ==
    Picked("overlay") => \A p \in Predicates : Ops!IndexLosesNoMatch(case.a, case.b, p, 1)

(* The join's own cross-check stops a plan only for points on a boundary.  *)
ChecksStopOnlyBoundaryCases ==
    Picked("overlay") => \A p \in Predicates \ {"disjoint"} :
        Ops!ChecksStopOnlyBoundaryCases(case.a, case.b, p, 1)

(* Areal interpolation neither creates nor loses what it distributes.      *)
InterpolationConserves == Picked("overlay") => Ops!InterpolationConserves(case.a, case.b)

(* Selecting what meets and what is disjoint splits the layer.             *)
SelectionsAreComplementary == Picked("overlay") => Ops!SelectionsAreComplementary(case.a, case.b)

(* Dissolving and summarising keep every feature in exactly one group.     *)
GroupingConserves == Picked("overlay") => Ops!GroupingConserves(case.a)

(* The type of a field settles, whatever values are written and read again.*)
FieldTypesSettle == (family = "overlay" /\ case = NoCase) => Ops!FieldTypesSettle

(* A box query returns exactly the boxes that meet it (GisOps).         *)
QueryIsExact ==
    Picked("grid") => Ops!QueryIsExact(case.boxes, case.cell, Box(case.px, case.py, 1, 0), 1)

(* The ring search returns a nearest box, though it visits cells by rings. *)
NearestIsNearest == Picked("grid") => Ops!NearestIsNearest(case.boxes, case.cell, case.px, case.py)

-----------------------------------------------------------------------------
(* Properties of federated catalogs                                        *)

(* An endpoint that fails changes nothing about what the others yield.     *)
FailuresAreIsolated ==
    Picked("federation") =>
        Fed!FailuresAreIsolated(ThreeEndpoints, case.request, case.requirements, case.answers, case.environment)

(* Registration order decides nothing when the endpoints agree.            *)
EndpointOrderIsIrrelevant ==
    Picked("federation") =>
        Fed!EndpointOrderIsIrrelevant(ThreeEndpoints, case.request, case.requirements, case.answers,
                                      case.environment)

(* The bound asset declares what was required, is attributed to exactly    *)
(* the endpoints that returned it, and is of the preferred media type.     *)
BindingIsJustified ==
    Picked("federation") =>
        Fed!BindingIsJustified(ThreeEndpoints, case.request, case.requirements, case.answers, case.environment)

(* An admission is the same whatever the denied endpoints are.             *)
DeniedEndpointsDiscloseNothing ==
    Picked("private") =>
        Fed!DeniedEndpointsDiscloseNothing(case.endpoints, case.others, case.policy, case.context)

-----------------------------------------------------------------------------
(* Properties of contracts                                                 *)

(* Declaring more never changes a verdict that was reached (GeoContracts). *)
VerdictsAreFinal ==
    Picked("contract") => Geo!VerdictsAreFinal(case.provided, case.other, case.required)

(* Compatible means known, and holds along chains of contracts.            *)
CompatibleMeansKnown ==
    Picked("contract") => Geo!CompatibleMeansKnown(case.provided, case.required, case.other)

-----------------------------------------------------------------------------
(* Properties of result capsules                                           *)

(* What is sealed from a consistent result verifies (ResultCapsule).       *)
SealedCapsulesVerify == Picked("seal") => Capsule!SealedCapsulesVerify(case.result, case.evidence)

(* Every failure a review shows names a step of the workflow that was run. *)
FailuresNameSteps ==
    Picked("seal") => Capsule!FailuresNameSteps(Capsule!seal_capsule(case.result, case.evidence))

(* No capsule assembled from the files of two verifies as a third.         *)
MixedCapsulesFail == Picked("mix") => Capsule!MixedCapsulesFail(CapsuleA, CapsuleB, case.from_b)

(* An approval holds only for a capsule with the approved subjects.        *)
ApprovalPinsSubjects ==
    Picked("mix") => Capsule!ApprovalPinsSubjects(CapsuleA, Capsule!Mixed(CapsuleA, CapsuleB, case.from_b), 1)

(* No difference between sealed capsules is left unclassified.             *)
CapsuleDiffIsClassified ==
    Picked("seal") =>
        \A evidence \in Envelopes, p \in {FirstRun, [FirstRun EXCEPT !.command = 2], [FirstRun EXCEPT !.rows = Rows(2, {})]} :
            Capsule!CapsuleDiffIsClassified(Capsule!seal_capsule(case.result, case.evidence),
                                            Capsule!seal_capsule(RunOf(p), evidence))

(* The difference of two documents shows every difference and no other.    *)
DocumentDiffIsExact == Picked("document") => Capsule!DocumentDiffIsExact(case.old, case.new)

-----------------------------------------------------------------------------
(* Properties of what is exported                                          *)

(* No publication assembled from two verifies as a third                   *)
(* (EvidenceExports).                                                      *)
MixedPublicationsFail ==
    Picked("publish") => Export!MixedPublicationsFail(CapsuleA, CapsuleB, case.policy, case.from_b)

(* An export that was cut short or refused does not verify.                *)
PartialExportsFail ==
    Picked("publish") /\ case.from_b = {} => Export!PartialExportsFail(CapsuleB, case.policy)

(* A signed statement about one capsule holds only for the same outputs.   *)
AttestationPinsOutputs == Picked("mix") /\ case.from_b = {} => Export!AttestationPinsOutputs(CapsuleA, CapsuleB)

(* Whatever verifies can be exported in every open standard.               *)
VerifiedCapsulesExport ==
    Picked("seal") => Export!VerifiedCapsulesExport(Capsule!seal_capsule(case.result, case.evidence))

(* Two paths never share an identifier in the provenance document.         *)
ProvIdsAreDistinct == Picked("prov") => Export!ProvIdsAreDistinct(case.p, case.q)

(* A sealed bridge vouches for exactly the bytes it holds.                 *)
BridgeBindsOneReading ==
    Picked("bridge") => Export!BridgeBindsOneReading(case.layers, case.first, case.second)

(* A narrative view shows one result.                                      *)
ViewsShowOneResult == Picked("narrative") => Export!ViewsShowOneResult(case)

-----------------------------------------------------------------------------
(* Properties of adapters                                                  *)

(* The four tables that describe an adapter agree: what each operation     *)
(* asks for when it runs is what its manifest declares and what the        *)
(* adapter's own policy grants, and its contracts are valid.               *)
ReviewedOperationsRun ==
    Picked("admission") =>
        LET m == ShippedManifests[case.adapter]
            report == Adapt!admit(m, Adapt!AdapterInvocation(m, case.operation, AskedCapabilities(case.adapter, case.operation)),
                                  ShippedPolicy(case.adapter))
        IN report.admitted /\ report.verification_eligible

(* An adapter that differs from the reviewed one in anything is refused,   *)
(* and tightening a policy never admits what it refused before.            *)
DriftIsRefused ==
    Picked("admission") =>
        LET m == ShippedManifests[case.adapter]
            asked == Adapt!AdapterInvocation(m, case.operation, AskedCapabilities(case.adapter, case.operation))
        IN /\ \A i \in Drifted(asked) : ~Adapt!admit(m, i, ShippedPolicy(case.adapter)).admitted
           /\ \A p \in Tightened(ShippedPolicy(case.adapter)) : \A q \in Tightened(p) :
                Adapt!admit(m, asked, q).admitted => Adapt!admit(m, asked, p).admitted

(* A receipt of a QGIS run describes the run: its output is in the CRS the *)
(* manifest promises, no file was there before, its parameters are those   *)
(* the process was given, and, if the input was not replaced between its   *)
(* validation and the moment the container opened it, the output was made  *)
(* of the input whose digest the receipt holds.                            *)
ReceiptsDescribeTheRun ==
    Picked("engine") =>
        LET receipt == Adapt!QgisExecute(case.op, case.w)
            declared == CHOOSE o \in Range(Adapt!qgis_manifest.operations) : o.operation_id = case.op.op
        IN receipt.ok =>
             /\ receipt.output_crs = declared.outputs[1].spatial.crs
             /\ ~case.w.exists
             /\ \A f \in DOMAIN Adapt!process_args(case.op).options :
                   receipt.parameters[f] = Adapt!process_args(case.op).options[f]
             /\ Adapt!QgisReads(case.op) =>
                  /\ case.w.checked.crs = declared.inputs[1].spatial.crs
                  /\ case.w.checked = case.w.read => receipt.output_digest.id = <<case.op.op>> \o receipt.input_digest

(* Nobody gets a receipt for more work than the engine was reviewed for:   *)
(* at most 10^8 cells of a region, 10^7 of a raster, 10^5 points, and the  *)
(* points come with a seed that reproduces them.  A key printed twice is   *)
(* reported once, and PostGIS puts nulls last.                             *)
ReceiptedWorkIsBounded ==
    Picked("work") =>
        LET op == case.op
            receipt == IF case.engine = "grass" THEN Adapt!GrassExecute(op, case.w) ELSE Adapt!PostgisExecute(op, case.w)
        IN receipt.ok =>
             CASE op.op = "raster.constant-stats" ->
                    op.rows * op.cols \in 1..10000000 /\ IsInjective([k \in DOMAIN receipt.output |-> receipt.output[k].key])
               [] op.op = "region.grid" -> op.height * op.width <= 100000000 * op.resolution * op.resolution
               [] op.op = "vector.seeded-points" -> op.points <= 100000 /\ op.seed > 0
               [] op.op = "null-ordering" ->
                    \A i, j \in DOMAIN receipt.output :
                        i < j /\ receipt.output[j] # <<>> => receipt.output[i] # <<>> /\ receipt.output[i][1] <= receipt.output[j][1]
               [] OTHER -> TRUE

(* A service receipt is only given for an answer to the question asked: an *)
(* exception is never taken for a capabilities document, nor one image     *)
(* type or one service for another, and the URL asked for a real extent.   *)
ServiceAnswersFit ==
    Picked("service") =>
        LET r == case.request
            receipt == Adapt!OgcExecute(r, case.fetched)
        IN receipt.ok =>
             CASE r.operation = "get_capabilities" ->
                    "exception" \notin case.fetched.body.markers /\ r.service \in case.fetched.body.markers
               [] r.operation = "wms.get_map" ->
                    /\ case.fetched.body.is = receipt.request_url.format
                    /\ receipt.decoded_items > 0 /\ receipt.crs # "unknown"
               [] OTHER -> case.fetched.body.is = "collection"

(* The text of a query leaves the process only under the policy that       *)
(* permits full text, whatever becomes of the request afterwards.          *)
QueriesStayPrivate ==
    Picked("geocode") =>
        LET out == Adapt!GeocodingExecute(case.request, case.provider, case.privacy, Adapt!GeocodingRatePolicy_default, case.fetched)
        IN out.sent => case.privacy = "AllowRemoteFull" /\ case.provider.remote

(* A candidate is reported under the query it answers, and the counts of   *)
(* the receipt add up to the queries asked.                                *)
AnswersKeepTheirQuery ==
    Picked("geocode") =>
        LET out == Adapt!GeocodingExecute(case.request, case.provider, case.privacy, Adapt!GeocodingRatePolicy_default, case.fetched)
        IN out.ok =>
             /\ \A k \in DOMAIN out.results :
                  /\ out.results[k].query_id = case.request.queries[k].id
                  /\ Len(out.results[k].candidates) <= case.request.max_candidates
             /\ out.matched_queries + out.unmatched_queries = Len(case.request.queries)
             /\ out.ambiguous_queries <= out.matched_queries

(* The limit on candidates never hides a better one: no entry left out of  *)
(* a local answer ranks above one in it.                                   *)
LimitKeepsTheBest ==
    Picked("geocode") /\ ~case.provider.remote =>
        LET out == Adapt!GeocodingExecute(case.request, case.provider, case.privacy, Adapt!GeocodingRatePolicy_default, case.fetched)
        IN out.ok =>
             \A k \in DOMAIN out.results :
                LET kept == out.results[k].candidates
                    all == Range(Adapt!CandidatesFor(case.request.queries[k], case.provider.entries))
                IN \A c \in all \ Range(kept), j \in DOMAIN kept :
                     /\ Len(kept) = case.request.max_candidates
                     /\ kept[j].confidence >= c.confidence
                     /\ kept[j].confidence = c.confidence => kept[j].feature_id < c.feature_id

-----------------------------------------------------------------------------
(* Properties of remote objects                                            *)

(* Blocks kept from an earlier read never change what a later one returns: *)
(* behind a server that honours, ignores or cuts ranges short, a read that *)
(* succeeds returns exactly its bytes of the object, whether its blocks    *)
(* come from the cache or not, and no host outside the policy is asked.    *)
RangesReturnTheirBytes ==
    Picked("ranges") /\ case.source.kind # "shifts" =>
        LET one == Store!HttpRangeFetch(case.source, << >>, case.first[1], case.first[2])
            two == Store!HttpRangeFetch(case.source, one.cache, case.second[1], case.second[2])
            Exact(read, at) == read.ok => read.bytes = SubSeq(case.source.object, at[1] + 1, at[1] + at[2])
        IN /\ Exact(one, case.first) /\ Exact(two, case.second)
           /\ case.source.url = Sibling => DOMAIN two.cache = {}
           /\ LET at == case.second
                  part == Store!ByteRange(at[1], at[1] + at[2] - 1)
              IN /\ Exact(Store!read_local_range(case.source.object, part), at)
                 /\ case.source.kind = "honours" => Exact(Store!CopcReadRange(case.source, at[1], at[2]), at)
           /\ LET whole == Store!fetch_http_bytes_with_policy(case.source)
              IN whole.ok => whole.bytes = case.source.object
           /\ case.source.url = Sibling =>
                /\ ~ Store!fetch_http_bytes_with_policy(case.source).ok
                /\ Store!post_http_json_bytes_with_policy(case.source, <<1>>).sent = <<>>
                /\ \A head \in BOOLEAN : ~ Store!probe_http_content_length(case.source, head).ok
           /\ \A b \in DOMAIN two.cache : two.cache[b] = SubSeq(case.source.object, b + 1, Min({b + 3, case.source.length}))

(* An archive gives back every tile it was written with and no other one,  *)
(* with any number of bytes per identifier, and a server that ignores or   *)
(* cuts ranges never makes a reader return a wrong tile.                   *)
TileRoundTrips(archive, read, t) ==
    LET stored == {c \in case.tiles : c.z = t.z /\ c.x = t.x /\ c.y = t.y}
    IN /\ read.ok => /\ stored # {}
                     /\ \A c \in stored : Store!decode_tile_payload(read.bytes, archive.header.tile_compression) = c.bytes
       /\ case.kind = "honours" => read.ok = (stored # {})

ArchiveRoundTrips(archive) ==
    /\ archive.ok
    /\ \A t \in TilesOf({0, 1}) \cup {u \in TilesOf({2}) : u.x = 3} \cup case.tiles :
          TileRoundTrips(archive, Store!read_pmtiles_tile(archive, case.kind, t.z, t.x, t.y), t)

TilesRoundTrip ==
    Picked("tiles") => ArchiveRoundTrips(Store!write_pmtiles_archive(case.tiles, case.compress, <<1>>))

(* Tile identifiers number the tiles of a zoom without a gap, after those  *)
(* of the zooms above, and along a curve: two tiles next to one another in *)
(* the numbering share an edge.                                            *)
TileIdsFollowTheCurve ==
    Picked("curve") =>
        LET tiles == (0..(2^case.zoom - 1)) \X (0..(2^case.zoom - 1))
            Id(t) == Store!zxy_to_tile_id(case.zoom, t[1], t[2])
            base == MapThenSumSet(LAMBDA z : 4^z, 0..(case.zoom - 1))
        IN /\ {Id(t) : t \in tiles} = base..(base + 4^case.zoom - 1)
           /\ \A s, t \in tiles :
                Id(t) = Id(s) + 1 => <<s[1] - t[1], s[2] - t[2]>> \in {<<0, 1>>, <<1, 0>>, <<0, -1>>, <<-1, 0>>}

(* The report of a selected view is what its receipts say: it validates as *)
(* it was written, does not when one of its numbers or its receipts is     *)
(* replaced, and passes only if no format read its whole object.           *)
BenchmarkReportsRecompute ==
    Picked("view") =>
        LET v == Store!selected_view(case.receipts, case.gpu, case.wall)
        IN /\ Store!validate_view(v)
           /\ ~Store!validate_view([v EXCEPT !.total_transferred_bytes = @ + 1])
           /\ ~Store!validate_view([v EXCEPT !.failed_gates = @ + 1])
           /\ ~Store!validate_view([v EXCEPT !.receipts = Tail(@)])
           /\ ~Store!validate_view([v EXCEPT !.receipts[1] = v.receipts[2], !.receipts[2] = v.receipts[1]])
           /\ LET formats == [k \in DOMAIN v.receipts |-> [budget_failures |-> Store!validate(v.receipts[k], Store!ci(FALSE))]]
              IN /\ Store!run_cloud_io_benchmark(formats, case.gpu).failed_gates = v.failed_gates
                 /\ Store!run_full_cloud_io_benchmark(formats, case.gpu, FALSE).failed_gates > 0
           /\ v.status = "pass" =>
                \A k \in DOMAIN v.receipts : ~v.receipts[k].whole_object_fallback
                                            /\ 5 * v.receipts[k].transferred_bytes <= v.receipts[k].object_bytes

(* Evidence collected from a deployment is of the ranges it names: every   *)
(* response recorded is that slice of the object, whichever of its ways a  *)
(* server has with ranges, and an object measured as the published one has *)
(* its length and was never read as a whole.                               *)
ManagedReceiptsAreExact ==
    Picked("remote") =>
        LET managed == Store!collect_managed_cloud_range_receipt(case.source)
            measured == Store!benchmark_remote(case.source, case.expected, "Cog", case.asks)
        IN /\ managed.ok =>
                \A k \in DOMAIN managed.receipt.requests :
                    LET q == managed.receipt.requests[k]
                    IN q.digest = SubSeq(case.source.object, q.start + 1, q.end + 1)
           /\ measured.ok =>
                /\ measured.receipt.object_bytes = case.expected /\ ~measured.receipt.whole_object_fallback
                /\ "MalformedRequestEvidence" \notin measured.budget_failures

-----------------------------------------------------------------------------
(* Properties of scenarios                                                 *)

Reviewed == Scenario!create_scenario_branch(case.reviewed).branch
Base == Scenario!create_scenario_branch(case.base).branch

\* What is sent to be merged.
Sent == IF case.resealed THEN Scenario!seal_branch(case.later) ELSE [Reviewed EXCEPT !.draft = case.later]

Approval ==
    [reviewer |-> case.reviewer, approved_at |-> "t", scenario |-> Reviewed.digest,
     diff_digest |-> Scenario!compare(Base, Reviewed).diff_digest]

\* Both branches could be created, and the caller has compared them.
Comparable ==
    /\ Picked("scenario")
    /\ Scenario!create_scenario_branch(case.base).ok /\ Scenario!create_scenario_branch(case.reviewed).ok
    /\ Scenario!compare_scenarios(Base, Reviewed).ok

(* Applying the changes of a comparison to the base gives the scenario,    *)
(* and only what differs is listed (diff_maps).                            *)
ScenarioDiffIsExact ==
    Comparable =>
        LET changes == Scenario!compare_scenarios(Base, Reviewed).diff.changes
            Of(category, name) == {c \in changes : c.category = category /\ c.name = name}
            Applied(category, map, name) ==
                IF Of(category, name) = {} THEN Scenario!Value(map, name) ELSE (CHOOSE c \in Of(category, name) : TRUE).scenario
        IN /\ \A n \in {"rain", "tide"} :
                 Applied("assumption", case.base.assumptions, n) = Scenario!Value(case.reviewed.assumptions, n)
           /\ Applied("outcome", case.base.outcomes, "depth") = Scenario!Value(case.reviewed.outcomes, "depth")
           /\ \A c \in changes : c.base # c.scenario

(* A merge takes exactly what was reviewed: with an approval of one        *)
(* comparison, whatever is sent under whatever digest, only the reviewed   *)
(* branch is merged, and that one is unless nobody signed                  *)
(* (merge_reviewed_scenario, verify_branch).                               *)
MergesAreReviewed ==
    Comparable =>
        LET out == Scenario!merge_reviewed_scenario(Base, Sent, Approval)
        IN /\ out.ok <=> (Sent = Reviewed /\ case.reviewer # "")
           /\ out.ok => out.merged.result = case.reviewed.result /\ out.merged.diff = Approval.diff_digest

-----------------------------------------------------------------------------
(* Properties of routing                                                   *)

\* The times of all walks that meet no node twice, over each node's cheapest street to another.
RECURSIVE WalkTime(_, _, _, _)
WalkTime(g, at, goal, unvisited) ==
    IF at = goal THEN 0
    ELSE LET slots == {k \in DOMAIN g.adjacency[at] : g.adjacency[at][k].to \in unvisited}
             Via(k) == g.adjacency[at][k].cost + WalkTime(g, g.adjacency[at][k].to, goal, unvisited \ {g.adjacency[at][k].to})
         IN Walk!Min({Via(k) : k \in slots} \cup {Walk!Unreached})

(* Travel times are the shortest over all walks, and a walk back takes as  *)
(* long as the way there (travel_times_from).                              *)
TravelTimesAreShortest(g, times) ==
    \A o, n \in DOMAIN g.nodes :
        times[o][n] = WalkTime(g, o, n, DOMAIN g.nodes \ {o}) /\ times[o][n] = times[n][o]

(* Where no street declares its minutes, no route is shorter than the      *)
(* straight line between its nodes, however their coordinates are written: *)
(* run_nagoya_accessibility_with_threshold never stops at its assertion.   *)
RoutesRespectStraightLine(report) ==
    case.deep = 0 /\ (\A i \in DOMAIN case.lines : case.lines[i].walk_min = Walk!Undeclared) =>
        report.asserted /\ report.threshold_monotonicity

\* The best journey when every line of arrival is told apart: one step more than the times before.
Further(before, steps) ==
    [at \in DOMAIN before |->
        Walk!Min({before[at]} \cup {e.cost : e \in {f \in steps : <<f.node, f.line>> = at}})]

RECURSIVE Journeys(_, _, _, _)
Journeys(g, rides, before, k) ==
    IF k = 0 THEN before
    ELSE Journeys(g, rides,
             Further(before,
                     UNION {Range(Walk!Onward(g, rides, [cost |-> before[at], node |-> at[1], line |-> at[2]])) :
                                at \in {b \in DOMAIN before : before[b] < Walk!Unreached}}),
             k - 1)

Setting(g, rides, origin) ==
    [at \in (DOMAIN g.nodes) \X ({"foot"} \cup {rides[i].line : i \in DOMAIN rides}) |->
        IF at = <<origin, "foot">> THEN 0 ELSE Walk!Unreached]

TimesOfJourneys(times, walked, best) ==
    \A n \in DOMAIN times :
        /\ times[n] <= walked[n]
        /\ times[n] >= Walk!Min({best[at] : at \in {b \in DOMAIN best : b[1] = n}})

(* Transit never makes a place harder to reach than on foot, so no ward    *)
(* reaches less with it, and it promises no time that no journey has       *)
(* (TransitGraph::travel_times_from, whose one time for each node is not   *)
(* always the best; run_nagoya_accessibility_with_transit).                *)
TransitTimesAreJourneys(g, rides, walking, riding) ==
    /\ \A n \in DOMAIN g.nodes : riding.features[n].reachable >= walking.features[n].reachable
    /\ \A o \in DOMAIN g.nodes :
          TimesOfJourneys(Walk!transit_times_from(g, rides, o), Walk!travel_times_from(g, o),
                          Journeys(g, rides, Setting(g, rides, o), 6))

(* An isochrone holds every node that is reached in time, its corners are  *)
(* such nodes, and a longer walk's isochrone holds it (isochrone,          *)
(* convex_hull).                                                           *)
IsochronesNest(reach, hull) ==
    \A short, long \in DOMAIN reach : short <= long =>
        /\ \A p \in reach[short] : Walk!Inside(p, hull[long])
        /\ Range(hull[long]) \subseteq reach[long]

(* Flooding never brings a shelter closer, and deeper water or a higher    *)
(* penalty never does either; the shelter that is named is a nearest one;  *)
(* the report's own checks hold (run_nagoya_evacuation_access_with_penalty).*)
EvacuationReportsHold(times, report, worse, wards, shelters) ==
    report.ok =>
        /\ report.penalty_monotonicity /\ report.route_sanity_triangle
        /\ \A n \in DOMAIN wards :
              /\ worse.features[n].wet.minutes >= report.features[n].wet.minutes
              /\ report.features[n].wet.minutes = Walk!Min({times[wards[n]][shelters[i]] : i \in DOMAIN shelters})

\* The wards are all nodes, or all but the first, which is a shelter like the last.
All(g) == [n \in DOMAIN g.nodes |-> n]
Wards(g) == [k \in 1..(Len(g.nodes) - 1) |-> k + 1]
Shelters(g) == <<1, Len(g.nodes)>>
Deep(d) == [e \in {{1, 2}} |-> d]
Thresholds == {4, 12, 16, 20, 40}

(* What holds of a network of streets, by the times over it when some of   *)
(* them are flooded.                                                       *)
StreetsHold(g, wet, times) ==
    /\ TravelTimesAreShortest(wet, times)
    /\ RoutesRespectStraightLine(Walk!run_nagoya_accessibility_with_threshold(g, All(g), All(g), 24))
    /\ \A dry \in {Walk!Probed(g, Wards(g), Shelters(g))}, flooded \in {Walk!Probed(wet, Wards(g), Shelters(g))},
          worse \in {Walk!Probed(Walk!Flooded(g, Deep(case.deep + 1), case.penalty + 1), Wards(g), Shelters(g))} :
          EvacuationReportsHold(times,
              Walk!run_nagoya_evacuation_access_with_penalty(dry, flooded, Wards(g), Shelters(g)),
              Walk!run_nagoya_evacuation_access_with_penalty(dry, worse, Wards(g), Shelters(g)), Wards(g), Shelters(g))
    /\ (case.deep = 0 /\ case.penalty = 1) =>
          \A o \in DOMAIN g.nodes :
              \A reach \in {[t \in Thresholds |-> Walk!Reach(g, times[o], t)]},
                 hull \in {[t \in Thresholds |-> Walk!isochrone(g, o, t)]} : IsochronesNest(reach, hull)

RidesHold(g, rides) ==
    \A riding \in {Walk!run_nagoya_accessibility_with_transit(g, case.corridors, All(g), All(g), 12)},
       walking \in {Walk!run_nagoya_accessibility_with_threshold(g, All(g), All(g), 12)} :
        TransitTimesAreJourneys(g, rides, walking, riding)

NetworkHolds(g) ==
    IF case.corridors = <<>>
    THEN \A wet \in {Walk!Flooded(g, Deep(case.deep), case.penalty)} :
         \A times \in {[o \in DOMAIN wet.nodes |-> Walk!travel_times_from(wet, o)]} : StreetsHold(g, wet, times)
    ELSE \A rides \in {Walk!load_transit_corridors(g, case.corridors)} : RidesHold(g, rides)

-----------------------------------------------------------------------------
(* What the run checks of each group of families                           *)

(* Workflow validation accepts exactly the connected acyclic graphs, orders*)
(* them after their dependencies whatever the listing, and the product's   *)
(* own graphs end with their output (validate, topological_order).         *)
WorkflowVerdictsExact ==
    /\ OrderRespectsDependencies
    /\ CycleIffClosedWait
    /\ DisconnectedIffSplit
    /\ OrderIgnoresListing
    /\ ReachabilityImpliedByOrder
    /\ TemplatesEndWithTheirOutput

(* Trust: flag, policy, verification graph and contract verdicts agree with*)
(* each other, and more requirements or less knowledge never earn more     *)
(* trust (assess, validate_against_policy, compatibility_with).            *)
TrustIsMonotone ==
    /\ FlagAgreesWithPolicy
    /\ StricterPolicyTrustsLess
    /\ GraphCoversPolicy
    /\ VerdictsAreFinal
    /\ CompatibleMeansKnown

(* Toolkit plans: whether rules, a model or a caller wrote it, a plan that *)
(* is accepted reads the layers and applies the conditions that were asked *)
(* for, and runs as it is written on the inputs it was authorized for      *)
(* (plan, validate_plan, run_plan).                                        *)
PlansAnswerTheQuestion ==
    /\ PlansRunAsWritten
    /\ ImportsYieldTheirFile
    /\ ChangedInputsStopPlans
    /\ MentionsAreMaximal
    /\ RulePlansAnswer
    /\ AskedPlansAreChecked

(* Layer operations split, select, group and interpolate without loss,     *)
(* their checks stop only what touches a boundary, and the index they use  *)
(* finds every candidate and the nearest one (ops.rs, index.rs).           *)
OperationsConserve ==
    /\ ClipAndErasePartition
    /\ IndexLosesNoMatch
    /\ ChecksStopOnlyBoundaryCases
    /\ InterpolationConserves
    /\ SelectionsAreComplementary
    /\ GroupingConserves
    /\ FieldTypesSettle
    /\ QueryIsExact
    /\ NearestIsNearest

(* Federated search: a failing endpoint changes nothing of the others'     *)
(* answers, the order of the endpoints does not matter, a binding is       *)
(* justified by what was found, and a denied endpoint leaves no trace.     *)
SearchesAreIsolated ==
    /\ FailuresAreIsolated
    /\ EndpointOrderIsIrrelevant
    /\ BindingIsJustified
    /\ DeniedEndpointsDiscloseNothing

(* Capsules: what is sealed verifies, what mixes two results fails with the*)
(* step it breaks, approvals pin their subjects, and a diff names exactly  *)
(* what changed and its class (seal_capsule, verify_nagoya_capsule).       *)
CapsulesBindOneResult ==
    /\ SealedCapsulesVerify
    /\ FailuresNameSteps
    /\ MixedCapsulesFail
    /\ ApprovalPinsSubjects
    /\ CapsuleDiffIsClassified
    /\ DocumentDiffIsExact

(* Exports: every publication, attestation, lineage document, bridge and   *)
(* narrative of a capsule is about one result and complete, or it is       *)
(* refused.                                                                *)
ExportsBindOneResult ==
    /\ MixedPublicationsFail
    /\ PartialExportsFail
    /\ AttestationPinsOutputs
    /\ VerifiedCapsulesExport
    /\ ProvIdsAreDistinct
    /\ BridgeBindsOneReading
    /\ ViewsShowOneResult

(* Adapters: an operation runs as its reviewed manifest says or not at all,*)
(* its receipt describes the run, its work is bounded, and services and    *)
(* geocoders answer the query they were given without disclosing it.       *)
AdaptersRunAsReviewed ==
    /\ ReviewedOperationsRun
    /\ DriftIsRefused
    /\ ReceiptsDescribeTheRun
    /\ ReceiptedWorkIsBounded
    /\ ServiceAnswersFit
    /\ QueriesStayPrivate
    /\ AnswersKeepTheirQuery
    /\ LimitKeepsTheBest

(* Remote storage: merged ranges return the bytes that were asked for,     *)
(* tiles are found under their identifiers, and the reports and receipts of*)
(* the reads can be computed again from them.                              *)
RemoteReadsAreExact ==
    /\ RangesReturnTheirBytes
    /\ TilesRoundTrip
    /\ TileIdsFollowTheCurve
    /\ BenchmarkReportsRecompute
    /\ ManagedReceiptsAreExact

(* Scenarios: a comparison lists exactly what differs, and only the branch *)
(* that was reviewed is merged.                                            *)
ScenarioMergesAreReviewed ==
    /\ ScenarioDiffIsExact
    /\ MergesAreReviewed

(* Routing: times are the shortest, symmetric, never below the straight    *)
(* line, never raised by transit nor lowered by water, and isochrones nest.*)
RoutesAreShortest ==
    Picked("walk") => \A g \in {Walk!from_geojson_str(case.lines)} : NetworkHolds(g)
=============================================================================
