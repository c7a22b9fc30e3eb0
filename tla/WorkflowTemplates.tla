-------------------------- MODULE WorkflowTemplates --------------------------
(***************************************************************************)
(* The workflow graphs the product builds: one operator for every template *)
(* of crates/genegis-workflow/src/graph.rs.  Operations and parameters are *)
(* what the template gives its node; contracts are the ones the templates  *)
(* write, taken as coherent.                                               *)
(***************************************************************************)
EXTENDS WorkflowGraph

\* Every node name, in the lexicographic order the code compares names in.
NodeNames ==
    <<"admit-alert-policy", "admit-geocoding-provider", "admit-live-feed",
      "admit-ogc-adapter", "append-alert-acknowledgement",
      "append-governance-audit", "apply-catalog-command",
      "apply-city-stream-budget", "apply-geocoding-policy",
      "apply-plugin-registry-operation", "apply-scenario-merge",
      "attach-geocoding-receipts", "attach-io-receipt", "attach-sources",
      "bind-narrative-dashboards", "bind-operational-alert-history",
      "bind-operational-map", "bind-operational-status",
      "bind-operational-widgets", "bind-scenario-assumptions",
      "bind-scenario-outcomes", "bind-shared-spatial-view", "bind-stac-asset",
      "build-project-capsule", "build-walk-graph", "calculate-area-km2",
      "calculate-density", "classify-changes", "classify-depth-bands",
      "classify-flooded-segments", "commit-live-feed-cursor",
      "compare-asset-candidates", "compose-narrative-frames", "compose-scene",
      "compute-accessibility-scores", "compute-ndvi",
      "copy-content-addressed-assets", "decode-geoparquet",
      "deduplicate-stac-items", "diff-scenario-assumptions",
      "diff-scenario-outcomes", "encode-vector-tiles",
      "enforce-remote-access-policy", "epoch-difference",
      "evaluate-alert-rule", "evaluate-governance-operation",
      "evaluate-performance-budgets", "execute-geocoding-queries",
      "execute-ogc-request", "fetch-stac-collection", "fetch-stac-items",
      "filter-private-catalogs", "find-boundary", "find-dataset",
      "find-flood-dataset", "find-ndvi-collection", "find-network-dataset",
      "find-pointcloud-dataset", "find-population", "find-shelter-dataset",
      "generate-choropleth", "grid-height-statistics", "grid-sample-exposure",
      "join-population-to-geometry", "load-boundary", "load-buildings",
      "load-copc", "load-epoch-clouds", "load-geoparquet", "load-population",
      "load-ward-population", "normalize-schema", "probe-geoparquet-metadata",
      "probe-raster-metadata", "range-read-band-assets",
      "read-geoparquet-ranges", "read-live-feed-window", "record-performance",
      "record-provenance", "render-map", "render-webgpu",
      "reproject-for-area", "resolve-place", "resolve-solution-pack-plugins",
      "resolve-solution-pack-templates", "resolve-stac-endpoints",
      "route-centroids-to-shelters", "run-density-analysis",
      "seal-alert-acknowledgement", "seal-alert-record",
      "seal-city-frame-plan", "seal-governance-receipt",
      "seal-narrative-view", "seal-observation-snapshots",
      "seal-operational-view", "seal-performance-matrix",
      "seal-plugin-registry", "seal-private-catalog-admission",
      "seal-scenario-branch", "seal-scenario-diff", "seal-scenario-merge",
      "seal-solution-pack-admission", "search-stac-items",
      "select-city-stream-frontier", "select-row-groups",
      "snap-pois-and-centroids", "summarize-cog-info", "summarize-collection",
      "validate-alert-chain", "validate-alert-window", "validate-city-scene",
      "validate-geocoding-candidates", "validate-governance-policy",
      "validate-layer-declarations", "validate-live-feed-window",
      "validate-narrative-media", "validate-narrative-result",
      "validate-ogc-response", "validate-operational-result",
      "validate-performance-matrix", "validate-private-catalog-policy",
      "validate-scenario-approval", "validate-scenario-base",
      "validate-scenario-branches", "validate-solution-pack",
      "validate-stac-endpoint", "verify-alert-evaluation",
      "verify-asset-metadata", "verify-bridge-inventory", "verify-evacuation",
      "verify-execution", "verify-exposure", "verify-feature-count",
      "verify-geoparquet", "verify-index-range",
      "verify-plugin-registry-operation", "verify-roundtrip",
      "verify-route-sanity", "verify-units", "verify-volume-delta",
      "write-pmtiles-archive", "zonal-mean-per-ward">>

NodeNumber == [name \in Range(NodeNames) |-> CHOOSE i \in DOMAIN NodeNames : NodeNames[i] = name]
Node(name) == NodeNumber[name]

dag_step(name, dependencies) ==
    [stable_id |-> Node(name), derived |-> Node(name), parameters |-> "reviewed",
     depends_on |-> {Node(d) : d \in dependencies},
     inputs |-> {DataRef(Node(d), "result") : d \in dependencies},
     outputs |-> {DataRef(Node(name), "result")}, output_contracts |-> << >>]

\* The step reads these graph inputs besides the results it depends on.
Reading(step, contracts) ==
    [step EXCEPT !.inputs = @ \cup {DataRef(NoNode, c) : c \in contracts}]

WithContract(step, port) ==
    [step EXCEPT !.output_contracts = <<[port |-> port, coherent |-> TRUE]>>]

finish_dag(name) == {DataRef(Node(name), "result")}

Template(contracts, steps, last) ==
    [goal |-> "reviewed", steps |-> steps, output_refs |-> finish_dag(last),
     input_contracts |-> [i \in DOMAIN contracts |-> [name |-> contracts[i], coherent |-> TRUE]]]

\* Most templates are chains in which one step reads the graph inputs.
Chain(contracts, reader, names) ==
    Template(contracts,
        [i \in DOMAIN names |->
            LET step == dag_step(names[i], IF i = 1 THEN {} ELSE {names[i - 1]})
            IN  IF names[i] = reader THEN Reading(step, Range(contracts)) ELSE step],
        names[Len(names)])

-----------------------------------------------------------------------------
stac_endpoint_registry_template ==
    Chain(<<"search">>, "validate-stac-endpoint",
        <<"validate-stac-endpoint", "apply-catalog-command",
          "record-provenance">>)

federated_stac_search_template ==
    Chain(<<"search">>, "resolve-stac-endpoints",
        <<"resolve-stac-endpoints", "search-stac-items",
          "deduplicate-stac-items", "record-provenance">>)

remote_geoparquet_range_template ==
    Chain(<<"asset">>, "probe-geoparquet-metadata",
        <<"probe-geoparquet-metadata", "select-row-groups",
          "decode-geoparquet", "verify-geoparquet", "record-provenance">>)

federated_asset_execution_template ==
    Chain(<<"search", "asset">>, "enforce-remote-access-policy",
        <<"enforce-remote-access-policy", "search-stac-items",
          "compare-asset-candidates", "verify-asset-metadata",
          "bind-stac-asset", "read-geoparquet-ranges", "verify-execution",
          "record-provenance">>)

nagoya_population_density_template ==
    Template(<<"boundary", "population">>,
        <<dag_step("resolve-place", {}),
          dag_step("find-boundary", {"resolve-place"}),
          dag_step("find-population", {"resolve-place"}),
          Reading(dag_step("load-boundary", {"find-boundary"}), {"boundary"}),
          Reading(dag_step("load-population", {"find-population"}), {"population"}),
          dag_step("normalize-schema", {"load-boundary", "load-population"}),
          dag_step("reproject-for-area", {"normalize-schema"}),
          dag_step("calculate-area-km2", {"reproject-for-area"}),
          dag_step("join-population-to-geometry", {"calculate-area-km2", "load-population"}),
          WithContract(dag_step("calculate-density", {"join-population-to-geometry"}), "result"),
          dag_step("generate-choropleth", {"calculate-density"}),
          dag_step("verify-units", {"generate-choropleth"}),
          dag_step("render-map", {"verify-units"}),
          dag_step("attach-sources", {"render-map"})>>,
        "attach-sources")

remote_cog_metadata_template ==
    Chain(<<>>, "",
        <<"find-dataset", "probe-raster-metadata", "summarize-cog-info",
          "attach-sources">>)

local_cog_metadata_template ==
    Chain(<<>>, "",
        <<"find-dataset", "probe-raster-metadata", "summarize-cog-info",
          "attach-sources">>)

nagoya_geoparquet_template ==
    Chain(<<"wards">>, "load-geoparquet",
        <<"find-dataset", "load-geoparquet", "verify-feature-count",
          "attach-sources">>)

scene3d_copc_lod1_template ==
    Template(<<"copc", "buildings">>,
        <<Reading(dag_step("load-copc", {}), {"copc"}),
          Reading(dag_step("load-buildings", {}), {"buildings"}),
          dag_step("compose-scene", {"load-copc", "load-buildings"}),
          dag_step("render-webgpu", {"compose-scene"}),
          dag_step("record-performance", {"render-webgpu"})>>,
        "record-performance")

ogc_service_read_template ==
    Chain(<<"service">>, "admit-ogc-adapter",
        <<"admit-ogc-adapter", "execute-ogc-request", "validate-ogc-response",
          "attach-io-receipt">>)

geocoding_template ==
    Chain(<<"queries">>, "admit-geocoding-provider",
        <<"admit-geocoding-provider", "apply-geocoding-policy",
          "execute-geocoding-queries", "validate-geocoding-candidates",
          "attach-geocoding-receipts">>)

narrative_project_view_template ==
    Chain(<<"verified-result">>, "validate-narrative-result",
        <<"validate-narrative-result", "compose-narrative-frames",
          "validate-narrative-media", "bind-narrative-dashboards",
          "seal-narrative-view">>)

live_feed_ingest_template ==
    Chain(<<"live-feed">>, "admit-live-feed",
        <<"admit-live-feed", "read-live-feed-window",
          "validate-live-feed-window", "seal-observation-snapshots",
          "commit-live-feed-cursor">>)

operational_dashboard_view_template ==
    Chain(<<"operational-result">>, "validate-operational-result",
        <<"validate-operational-result", "bind-operational-map",
          "bind-operational-widgets", "bind-operational-status",
          "bind-operational-alert-history", "seal-operational-view">>)

verified_alert_evaluation_template ==
    Chain(<<"alert-window">>, "validate-alert-window",
        <<"validate-alert-window", "admit-alert-policy",
          "evaluate-alert-rule", "verify-alert-evaluation",
          "seal-alert-record">>)

alert_acknowledgement_template ==
    Chain(<<"verified-alert">>, "validate-alert-chain",
        <<"validate-alert-chain", "append-alert-acknowledgement",
          "seal-alert-acknowledgement">>)

scenario_branch_template ==
    Chain(<<"scenario-base">>, "validate-scenario-base",
        <<"validate-scenario-base", "bind-scenario-assumptions",
          "bind-scenario-outcomes", "seal-scenario-branch">>)

scenario_comparison_template ==
    Chain(<<"scenario-comparison">>, "validate-scenario-branches",
        <<"validate-scenario-branches", "diff-scenario-assumptions",
          "diff-scenario-outcomes", "seal-scenario-diff">>)

scenario_merge_template ==
    Chain(<<"scenario-merge">>, "validate-scenario-approval",
        <<"validate-scenario-approval", "apply-scenario-merge",
          "seal-scenario-merge">>)

city_scene_stream_template ==
    Chain(<<"city-scene">>, "validate-city-scene",
        <<"validate-city-scene", "bind-shared-spatial-view",
          "select-city-stream-frontier", "apply-city-stream-budget",
          "seal-city-frame-plan">>)

organization_governance_template ==
    Chain(<<"organization-governance">>, "validate-governance-policy",
        <<"validate-governance-policy", "evaluate-governance-operation",
          "append-governance-audit", "seal-governance-receipt">>)

private_federated_catalog_template ==
    Chain(<<"catalog-policy">>, "validate-private-catalog-policy",
        <<"validate-private-catalog-policy", "filter-private-catalogs",
          "seal-private-catalog-admission">>)

plugin_registry_operation_template ==
    Chain(<<"plugin-registry">>, "verify-plugin-registry-operation",
        <<"verify-plugin-registry-operation",
          "apply-plugin-registry-operation", "seal-plugin-registry">>)

solution_pack_admission_template ==
    Template(<<"solution-pack">>,
        <<Reading(dag_step("validate-solution-pack", {}), {"solution-pack"}),
          dag_step("resolve-solution-pack-templates", {"validate-solution-pack"}),
          dag_step("resolve-solution-pack-plugins", {"validate-solution-pack"}),
          dag_step("seal-solution-pack-admission",
                   {"resolve-solution-pack-templates", "resolve-solution-pack-plugins"})>>,
        "seal-solution-pack-admission")

performance_matrix_evaluation_template ==
    Chain(<<"performance-matrix">>, "validate-performance-matrix",
        <<"validate-performance-matrix", "evaluate-performance-budgets",
          "seal-performance-matrix">>)

desktop_layer_bridge_template(layer_ids) ==
    Chain(layer_ids, "validate-layer-declarations",
        <<"validate-layer-declarations", "copy-content-addressed-assets",
          "build-project-capsule", "verify-bridge-inventory">>)

nagoya_geoparquet_density_template ==
    Chain(<<"wards">>, "load-geoparquet",
        <<"find-dataset", "load-geoparquet", "calculate-area-km2",
          "calculate-density", "generate-choropleth", "verify-units",
          "render-map", "attach-sources">>)

external_stac_fetch_template ==
    Chain(<<>>, "",
        <<"find-dataset", "fetch-stac-collection", "summarize-collection",
          "attach-sources">>)

dashboard_export_template ==
    Chain(<<>>, "",
        <<"find-dataset", "run-density-analysis", "encode-vector-tiles",
          "write-pmtiles-archive", "verify-roundtrip", "attach-sources">>)

nagoya_flood_exposure_template ==
    Chain(<<>>, "",
        <<"find-flood-dataset", "load-ward-population",
          "grid-sample-exposure", "classify-depth-bands", "verify-exposure",
          "attach-sources">>)

nagoya_xmin_city_template ==
    Template(<<>>,
        <<dag_step("find-network-dataset", {}),
          dag_step("load-ward-population", {"find-network-dataset"}),
          dag_step("build-walk-graph", {"find-network-dataset"}),
          dag_step("snap-pois-and-centroids", {"build-walk-graph"}),
          dag_step("compute-accessibility-scores", {"snap-pois-and-centroids"}),
          dag_step("verify-route-sanity", {"compute-accessibility-scores"}),
          dag_step("attach-sources", {"verify-route-sanity"})>>,
        "attach-sources")

\* Faulty variant: the sources are attached without waiting for the verification.
nagoya_evacuation_template_unverified ==
    Template(<<>>,
        <<dag_step("find-shelter-dataset", {}),
          dag_step("load-ward-population", {"find-shelter-dataset"}),
          dag_step("build-walk-graph", {"find-shelter-dataset"}),
          dag_step("classify-flooded-segments", {"build-walk-graph"}),
          dag_step("route-centroids-to-shelters", {"classify-flooded-segments"}),
          dag_step("verify-evacuation", {"route-centroids-to-shelters"}),
          dag_step("attach-sources", {"route-centroids-to-shelters"})>>,
        "attach-sources")

nagoya_evacuation_template ==
    Template(<<>>,
        <<dag_step("find-shelter-dataset", {}),
          dag_step("load-ward-population", {"find-shelter-dataset"}),
          dag_step("build-walk-graph", {"find-shelter-dataset"}),
          dag_step("classify-flooded-segments", {"build-walk-graph"}),
          dag_step("route-centroids-to-shelters", {"classify-flooded-segments"}),
          dag_step("verify-evacuation", {"route-centroids-to-shelters"}),
          dag_step("attach-sources", {"verify-evacuation"})>>,
        "attach-sources")

sentinel_ndvi_timeseries_template ==
    Chain(<<>>, "",
        <<"find-ndvi-collection", "fetch-stac-items",
          "range-read-band-assets", "compute-ndvi", "zonal-mean-per-ward",
          "verify-index-range", "attach-sources">>)

copc_change_detect_template ==
    Chain(<<>>, "",
        <<"find-pointcloud-dataset", "load-epoch-clouds",
          "grid-height-statistics", "epoch-difference", "classify-changes",
          "verify-volume-delta", "attach-sources">>)

-----------------------------------------------------------------------------
\* All of them, the bridge over two layers.
AllTemplates ==
    {stac_endpoint_registry_template, federated_stac_search_template,
     remote_geoparquet_range_template, federated_asset_execution_template,
     nagoya_population_density_template, remote_cog_metadata_template,
     local_cog_metadata_template, nagoya_geoparquet_template,
     scene3d_copc_lod1_template, ogc_service_read_template,
     geocoding_template, narrative_project_view_template,
     live_feed_ingest_template, operational_dashboard_view_template,
     verified_alert_evaluation_template, alert_acknowledgement_template,
     scenario_branch_template, scenario_comparison_template,
     scenario_merge_template, city_scene_stream_template,
     organization_governance_template, private_federated_catalog_template,
     plugin_registry_operation_template, solution_pack_admission_template,
     performance_matrix_evaluation_template,
     desktop_layer_bridge_template(<<"layer-1", "layer-2">>),
     nagoya_geoparquet_density_template, external_stac_fetch_template,
     dashboard_export_template, nagoya_flood_exposure_template,
     nagoya_xmin_city_template, nagoya_evacuation_template,
     sentinel_ndvi_timeseries_template, copc_change_detect_template}
=============================================================================
