--------------------------- MODULE IntentRouting ---------------------------
(***************************************************************************)
(* From a prompt to a runnable plan: keyword intent, workflow resolution,  *)
(* dataset binding, planner tools (crates/genegis-ai, genegis-catalog) and *)
(* the agent's tables of executor and verifier tools (crates/genegis-      *)
(* agent).  A prompt is the set of keyword groups it contains; an http URL *)
(* and a file or repository path are words of their own.                   *)
(***************************************************************************)
EXTENDS Naturals, Sequences, FiniteSets, SequencesExt

KeywordGroups ==
    {"nagoya", "parquet", "density", "pmtiles", "cog", "local", "remote", "stac", "fetch",
     "httpUrl", "pathUrl", "pointcloud", "ndvi", "shelter", "walkable", "flood", "map"}

extract_catalog_url(words) == words \cap {"httpUrl", "pathUrl"} # {}

contains_any(words, needles) == words \cap needles # {}

-----------------------------------------------------------------------------
(* Intent: the first rule that matches gives the metric.  A URL contains   *)
(* the letters "http", which is one of the words for a remote raster.      *)

RasterRules(words) ==
    << [metric |-> "pmtiles_export", when |-> "pmtiles" \in words, score |-> 45],
       [metric |-> "local_cog", when |-> {"cog", "local"} \subseteq words, score |-> 40],
       [metric |-> "remote_cog",
        when |-> "cog" \in words /\ contains_any(words, {"remote", "httpUrl"}), score |-> 40],
       [metric |-> "external_stac",
        when |-> {"stac", "fetch"} \subseteq words /\ extract_catalog_url(words), score |-> 45] >>

TopicRules(words) ==
    << [metric |-> "change_detect", when |-> "pointcloud" \in words, score |-> 45],
       [metric |-> "ndvi_timeseries", when |-> "ndvi" \in words, score |-> 45],
       [metric |-> "evacuation_access", when |-> "shelter" \in words, score |-> 45],
       [metric |-> "xmin_city", when |-> "walkable" \in words, score |-> 45],
       [metric |-> "flood_exposure", when |-> "flood" \in words, score |-> 45] >>

DensityRules(words) ==
    << [metric |-> "geoparquet_density", when |-> {"parquet", "density"} \subseteq words, score |-> 55],
       [metric |-> "geoparquet", when |-> "parquet" \in words, score |-> 35],
       [metric |-> "population_density", when |-> "density" \in words, score |-> 35] >>

FirstOf(rules, otherwise) ==
    LET firing == SelectSeq(rules, LAMBDA r : r.when)
    IN IF firing = <<>> THEN otherwise ELSE Head(firing)

ParsedIntent_parse(words) ==
    LET hit == FirstOf(RasterRules(words) \o TopicRules(words) \o DensityRules(words),
                       [metric |-> "none", when |-> TRUE, score |-> 0])
        score == (IF "nagoya" \in words THEN 45 ELSE 0) + hit.score
                     + (IF "map" \in words THEN 20 ELSE 0)
    IN [raw_prompt |-> words, nagoya |-> "nagoya" \in words, metric |-> hit.metric,
        confidence |-> IF score > 100 THEN 100 ELSE score]

-----------------------------------------------------------------------------
(* The bundled catalog.                                                    *)

DatasetFormat(kind, tags) == [kind |-> kind, tags |-> tags]

nagoya_flood_zones == DatasetFormat("geojson", {"nagoya", "flood", "hazard", "demo"})
nagoya_walk_network == DatasetFormat("geojson", {"nagoya", "walk", "network", "demo"})
nagoya_pois == DatasetFormat("geojson", {"nagoya", "poi", "walkability", "demo"})
nagoya_shelters == DatasetFormat("geojson", {"nagoya", "shelter", "evacuation", "demo"})
nagoya_population_mesh == DatasetFormat("geojson", {"nagoya", "population", "mesh", "demo"})
nagoya_transit == DatasetFormat("geojson", {"nagoya", "transit", "rail", "accessibility", "demo"})
sentinel_ndvi_demo == DatasetFormat("geojson", {"ndvi", "sentinel", "timeseries", "demo"})
pointcloud_change == DatasetFormat("las", {"pointcloud", "change", "demo"})
nagoya_wards_density == DatasetFormat("geojson", {"nagoya", "population", "density", "wards"})
remote_cog_demo == DatasetFormat("cog", {"cog", "remote", "demo", "raster"})
nagoya_geoparquet ==
    DatasetFormat("geoparquet", {"nagoya", "geoparquet", "density", "wards", "demo"})
external_stac_demo == DatasetFormat("geojson", {"stac", "external", "demo"})
local_cog_demo == DatasetFormat("cog", {"cog", "local", "demo", "raster"})

alpha_catalog ==
    [nagoya_wards_density |-> nagoya_wards_density, remote_cog_demo |-> remote_cog_demo,
     local_cog_demo |-> local_cog_demo, nagoya_geoparquet |-> nagoya_geoparquet,
     external_stac_demo |-> external_stac_demo, nagoya_flood_zones |-> nagoya_flood_zones,
     nagoya_walk_network |-> nagoya_walk_network, nagoya_pois |-> nagoya_pois,
     nagoya_shelters |-> nagoya_shelters, nagoya_population_mesh |-> nagoya_population_mesh,
     nagoya_transit |-> nagoya_transit, sentinel_ndvi_demo |-> sentinel_ndvi_demo,
     pointcloud_change |-> pointcloud_change]

(* Every required tag must be present, so all matches have the same score  *)
(* and two matches are ambiguous.                                          *)
score_record(record, required) == required \subseteq record.tags

match_dataset(catalog, required) ==
    LET matches == {id \in DOMAIN catalog : score_record(catalog[id], required)}
    IN IF required = {} \/ matches = {} THEN "unresolved"
       ELSE IF Cardinality(matches) > 1 THEN "ambiguous"
       ELSE CHOOSE id \in matches : TRUE

-----------------------------------------------------------------------------
(* Workflows, the tags their dataset must carry, and the resolution order. *)

WorkflowId ==
    {"NagoyaDensity", "RemoteCogDemo", "LocalCogDemo", "NagoyaGeoparquet",
     "NagoyaGeoparquetDensity", "ExternalStacDemo", "DashboardExportDemo", "NagoyaFloodExposure",
     "NagoyaXminCity", "NagoyaEvacuationAccess", "SentinelNdviTimeseries", "CopcChangeDetect"}

(* Faulty variant: the GeoParquet density asks for ward density only.      *)
dataset_tags_loose ==
    [NagoyaDensity |-> {"nagoya", "density", "population"},
     RemoteCogDemo |-> {"cog", "remote", "demo"}, LocalCogDemo |-> {"cog", "local", "demo"},
     NagoyaGeoparquet |-> {"nagoya", "geoparquet", "demo"},
     NagoyaGeoparquetDensity |-> {"nagoya", "density"},
     ExternalStacDemo |-> {"stac", "external", "demo"},
     DashboardExportDemo |-> {"nagoya", "density", "population"},
     NagoyaFloodExposure |-> {"nagoya", "flood", "hazard"},
     NagoyaXminCity |-> {"nagoya", "walk", "network"},
     NagoyaEvacuationAccess |-> {"nagoya", "shelter", "evacuation"},
     SentinelNdviTimeseries |-> {"ndvi", "sentinel", "timeseries"},
     CopcChangeDetect |-> {"pointcloud", "change", "demo"}]

dataset_tags ==
    [NagoyaDensity |-> {"nagoya", "density", "population"},
     RemoteCogDemo |-> {"cog", "remote", "demo"}, LocalCogDemo |-> {"cog", "local", "demo"},
     NagoyaGeoparquet |-> {"nagoya", "geoparquet", "demo"},
     NagoyaGeoparquetDensity |-> {"nagoya", "geoparquet", "density"},
     ExternalStacDemo |-> {"stac", "external", "demo"},
     DashboardExportDemo |-> {"nagoya", "density", "population"},
     NagoyaFloodExposure |-> {"nagoya", "flood", "hazard"},
     NagoyaXminCity |-> {"nagoya", "walk", "network"},
     NagoyaEvacuationAccess |-> {"nagoya", "shelter", "evacuation"},
     SentinelNdviTimeseries |-> {"ndvi", "sentinel", "timeseries"},
     CopcChangeDetect |-> {"pointcloud", "change", "demo"}]

Anywhere(intent) ==
    << [workflow |-> "CopcChangeDetect", when |-> intent.metric = "change_detect"],
       [workflow |-> "SentinelNdviTimeseries", when |-> intent.metric = "ndvi_timeseries"],
       [workflow |-> "NagoyaEvacuationAccess", when |-> intent.metric = "evacuation_access"],
       [workflow |-> "NagoyaXminCity", when |-> intent.metric = "xmin_city"],
       [workflow |-> "NagoyaFloodExposure", when |-> intent.metric = "flood_exposure"] >>

Exports(intent) ==
    << [workflow |-> "DashboardExportDemo", when |-> intent.metric = "pmtiles_export"],
       [workflow |-> "ExternalStacDemo", when |-> intent.metric = "external_stac"] >>

OnlyNagoya(intent) ==
    << [workflow |-> "NagoyaGeoparquetDensity",
        when |-> intent.nagoya /\ intent.metric = "geoparquet_density"],
       [workflow |-> "NagoyaGeoparquet", when |-> intent.nagoya /\ intent.metric = "geoparquet"],
       [workflow |-> "NagoyaDensity",
        when |-> intent.nagoya /\ intent.metric = "population_density"] >>

Rasters(intent) ==
    << [workflow |-> "RemoteCogDemo", when |-> intent.metric = "remote_cog"],
       [workflow |-> "LocalCogDemo", when |-> intent.metric = "local_cog"] >>

Refusal(intent) ==
    IF \/ intent.nagoya /\ intent.metric = "none"
       \/ ~intent.nagoya /\ intent.metric = "population_density"
       \/ extract_catalog_url(intent.raw_prompt)
    THEN "ambiguous" ELSE "unresolved"

bind_catalog_dataset(catalog, workflow) == match_dataset(catalog, dataset_tags[workflow])

resolve_workflow_with_catalog(intent, catalog) ==
    LET rules == Anywhere(intent) \o Exports(intent) \o OnlyNagoya(intent) \o Rasters(intent)
        hit == FirstOf(rules, [workflow |-> "none", when |-> TRUE])
    IN IF intent.raw_prompt = {} \/ hit.workflow = "none"
       THEN [workflow |-> "none", dataset |-> Refusal(intent)]
       ELSE [workflow |-> hit.workflow, dataset |-> bind_catalog_dataset(catalog, hit.workflow)]

Resolved(r) == r.workflow # "none" /\ r.dataset \in DOMAIN alpha_catalog

-----------------------------------------------------------------------------
(* Planner tool calls.  A URL in the prompt is fetched while planning,     *)
(* whatever the workflow; a failed fetch is recorded as a call that is not *)
(* ok.                                                                     *)

Call(tool, ok) == [tool |-> tool, ok |-> ok]

rule_based_tool_calls(intent, resolved, fetched) ==
    << Call("parse_intent", TRUE), Call("resolve_workflow", TRUE), Call("stac_browse", TRUE),
       Call("stac_bind", resolved.dataset \in DOMAIN alpha_catalog) >>
    \o (IF extract_catalog_url(intent.raw_prompt) THEN << Call("stac_fetch", fetched) >> ELSE <<>>)

llm_synthetic_tool_calls(resolved) ==
    << Call("llm_plan_workflow", TRUE), Call("stac_browse", TRUE),
       Call("stac_bind", resolved.dataset \in DOMAIN alpha_catalog) >>

llm_tool_calls(resolved, raw) == IF raw = <<>> THEN llm_synthetic_tool_calls(resolved) ELSE raw

NoPlan == [mode |-> "none", workflow |-> "none", dataset |-> "unresolved", tool_calls |-> <<>>]

Plan(mode, resolved, calls) ==
    IF Resolved(resolved)
    THEN [mode |-> mode, workflow |-> resolved.workflow, dataset |-> resolved.dataset,
          tool_calls |-> calls]
    ELSE NoPlan

plan_rule_based(words, fetched) ==
    LET intent == ParsedIntent_parse(words)
        resolved == resolve_workflow_with_catalog(intent, alpha_catalog)
    IN Plan("rule_based_mvp", resolved, rule_based_tool_calls(intent, resolved, fetched))

(* A model's answer is [ok, workflow, confidence, tools]; ok is FALSE for  *)
(* every transport, status or JSON error and for a missing key.            *)
parse_llm_plan(answer) == answer.ok /\ answer.confidence > 0

plan_with_config(words, config, answer, fetched) ==
    CASE config.backend = "rule" -> plan_rule_based(words, fetched)
      [] config.backend = "llm" /\ parse_llm_plan(answer) ->
            LET resolved == [workflow |-> answer.workflow,
                             dataset |-> bind_catalog_dataset(alpha_catalog, answer.workflow)]
            IN Plan("llm_openai_compatible", resolved, llm_tool_calls(resolved, answer.tools))
      [] OTHER -> IF config.fallback_to_rules THEN plan_rule_based(words, fetched) ELSE NoPlan

-----------------------------------------------------------------------------
(* The agent's allowlists and its table from (workflow, kind of output) to *)
(* a tool; the executor's kind of output and the formats it reads.         *)

PLANNER_TOOLS ==
    {"parse_intent", "resolve_workflow", "stac_browse", "stac_bind", "stac_fetch", "catalog_bind",
     "llm_plan_workflow", "plan_workflow"}

EXECUTOR_TOOLS ==
    {"catalog_resolve", "run_nagoya_density", "run_remote_cog_metadata", "run_local_cog_metadata",
     "run_geoparquet_read", "run_geoparquet_density", "run_stac_fetch", "run_pmtiles_export",
     "run_flood_exposure", "run_accessibility_score", "run_evacuation_access",
     "run_index_timeseries", "run_copc_change", "verify_retry"}

VERIFIER_TOOLS ==
    {"duckdb_verify", "cog_metadata_verify", "geoparquet_feature_verify", "stac_collection_verify",
     "tile_roundtrip_verify", "route_sanity_verify", "index_range_verify", "volume_delta_verify"}

validate_planner_tools(calls) ==
    \A i \in DOMAIN calls : calls[i].tool \in PLANNER_TOOLS /\ calls[i].ok

OutputKind(workflow) ==
    CASE workflow \in {"NagoyaDensity", "NagoyaGeoparquetDensity"} -> "NagoyaDensity"
      [] workflow = "DashboardExportDemo" -> "DashboardExport"
      [] workflow = "NagoyaFloodExposure" -> "FloodExposure"
      [] workflow = "NagoyaXminCity" -> "Accessibility"
      [] workflow = "NagoyaEvacuationAccess" -> "Evacuation"
      [] workflow = "SentinelNdviTimeseries" -> "NdviTimeseries"
      [] workflow = "CopcChangeDetect" -> "PointCloudChange"
      [] workflow \in {"RemoteCogDemo", "LocalCogDemo"} -> "CogMetadata"
      [] workflow = "NagoyaGeoparquet" -> "Geoparquet"
      [] workflow = "ExternalStacDemo" -> "StacCollection"

(* The readers: the density kernel chooses by the record's format, every   *)
(* other executor has one reader.                                          *)
Reads(workflow) ==
    CASE OutputKind(workflow) = "NagoyaDensity" -> {"geojson", "geoparquet"}
      [] OutputKind(workflow) = "CogMetadata" -> {"cog"}
      [] OutputKind(workflow) = "Geoparquet" -> {"geoparquet"}
      [] OutputKind(workflow) = "PointCloudChange" -> {"las"}
      [] OTHER -> {"geojson"}

(* The verifier the pipeline names in the receipt.                         *)
ReceiptVerifier(kind) ==
    CASE kind \in {"NagoyaDensity", "FloodExposure"} -> "duckdb_verify"
      [] kind = "CogMetadata" -> "cog_metadata_verify"
      [] kind = "Geoparquet" -> "geoparquet_feature_verify"
      [] kind = "StacCollection" -> "stac_collection_verify"
      [] kind = "DashboardExport" -> "tile_roundtrip_verify"
      [] kind \in {"Accessibility", "Evacuation"} -> "route_sanity_verify"
      [] kind = "NdviTimeseries" -> "index_range_verify"
      [] kind = "PointCloudChange" -> "volume_delta_verify"

ExecuteTool(workflow, kind) ==
    CASE workflow = "NagoyaDensity" /\ kind = "NagoyaDensity" -> "run_nagoya_density"
      [] workflow = "NagoyaGeoparquetDensity" /\ kind = "NagoyaDensity" -> "run_geoparquet_density"
      [] workflow = "RemoteCogDemo" /\ kind = "CogMetadata" -> "run_remote_cog_metadata"
      [] workflow = "LocalCogDemo" /\ kind = "CogMetadata" -> "run_local_cog_metadata"
      [] workflow = "NagoyaGeoparquet" /\ kind = "Geoparquet" -> "run_geoparquet_read"
      [] workflow = "ExternalStacDemo" /\ kind = "StacCollection" -> "run_stac_fetch"
      [] workflow = "NagoyaFloodExposure" /\ kind = "FloodExposure" -> "run_flood_exposure"
      [] workflow = "NagoyaXminCity" /\ kind = "Accessibility" -> "run_accessibility_score"
      [] workflow = "NagoyaEvacuationAccess" /\ kind = "Evacuation" -> "run_evacuation_access"
      [] workflow = "SentinelNdviTimeseries" /\ kind = "NdviTimeseries" -> "run_index_timeseries"
      [] workflow = "CopcChangeDetect" /\ kind = "PointCloudChange" -> "run_copc_change"
      [] workflow = "DashboardExportDemo" /\ kind = "DashboardExport" -> "run_pmtiles_export"
      [] OTHER -> "workflow mismatch"

VerifyTool(workflow) ==
    CASE workflow \in {"NagoyaDensity", "NagoyaGeoparquetDensity", "NagoyaFloodExposure"} -> "duckdb_verify"
      [] workflow \in {"RemoteCogDemo", "LocalCogDemo"} -> "cog_metadata_verify"
      [] workflow = "NagoyaGeoparquet" -> "geoparquet_feature_verify"
      [] workflow = "ExternalStacDemo" -> "stac_collection_verify"
      [] workflow = "DashboardExportDemo" -> "tile_roundtrip_verify"
      [] workflow \in {"NagoyaXminCity", "NagoyaEvacuationAccess"} -> "route_sanity_verify"
      [] workflow = "SentinelNdviTimeseries" -> "index_range_verify"
      [] workflow = "CopcChangeDetect" -> "volume_delta_verify"

(* AgentOrchestrator::run and execute_plan: only a model's tool calls are  *)
(* held to the allowlist.                                                  *)
Admitted(plan) ==
    plan.workflow # "none" /\ (plan.mode = "llm_openai_compatible" => validate_planner_tools(plan.tool_calls))

-----------------------------------------------------------------------------
(* Five hand-kept tables (keywords, resolution order, tags, tools,         *)
(* verifiers) agree: every prompt whose intent resolves to a workflow gets *)
(* a plan, planned by rules or by a model, and an admitted plan binds a    *)
(* dataset its executor reads, runs an allowlisted tool and is verified    *)
(* by the verifier its receipt names.                                      *)
ResolvedPromptsRun(words, config, answer, fetched) ==
    LET plan == plan_with_config(words, config, answer, fetched)
        intent == ParsedIntent_parse(words)
        kind == OutputKind(plan.workflow)
    IN /\ config.backend = "rule" =>
             (plan = NoPlan <=> resolve_workflow_with_catalog(intent, alpha_catalog).workflow = "none")
       /\ config.backend = "llm" /\ parse_llm_plan(answer) => plan # NoPlan
       /\ Admitted(plan) =>
             /\ alpha_catalog[plan.dataset].kind \in Reads(plan.workflow)
             /\ ExecuteTool(plan.workflow, kind) \in EXECUTOR_TOOLS
             /\ VerifyTool(plan.workflow) \in VERIFIER_TOOLS
             /\ VerifyTool(plan.workflow) = ReceiptVerifier(kind)
             /\ config.backend = "llm" /\ plan.mode # "rule_based_mvp" =>
                   \A i \in DOMAIN plan.tool_calls : plan.tool_calls[i].ok
=============================================================================
