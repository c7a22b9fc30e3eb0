------------------------------ MODULE Adapters ------------------------------
(***************************************************************************)
(* Reviewed adapters for external engines (crates/genegis-adapter/src):    *)
(* the admission of an operation against its manifest and a capability     *)
(* policy (lib.rs), and the execution of the QGIS, GRASS and PostGIS       *)
(* adapters.  What the engine and the file system do during an execution   *)
(* is the parameter w, a record of what each step of it finds.  A digest   *)
(* is the value it digests; a version is the sequence of its characters;   *)
(* a GeoJSON file is [valid, features, kinds, crs, size, id].              *)
(***************************************************************************)
EXTENDS GeoContracts, FiniteSetsExt

Capability == {"ProcessSpawn", "FileRead", "FileWrite", "NetworkRead", "DatabaseRead"}
EvidenceHook == {"InputDigests", "OutputDigests", "Parameters", "QueryPlanDigest", "Warnings",
                 "ComponentIdentity", "EnvironmentDigest", "TransactionContext", "IoMetrics"}
Determinism == {"Deterministic", "Seeded", "ToleranceBounded", "Unknown"}

BackendIdentity(family, version, components) ==
    [family |-> family, engine_version |-> version, build_digest |-> family, components |-> components]

AdapterOperation(id, inputs, outputs, capabilities, determinism, hooks) ==
    [operation_id |-> id, operation_version |-> "1.0.0", inputs |-> inputs, outputs |-> outputs,
     capabilities |-> capabilities, determinism |-> determinism, evidence_hooks |-> hooks, opaque |-> FALSE]

AdapterManifest(id, backend, license, operations) ==
    [schema_version |-> "current", adapter_id |-> id, adapter_version |-> "0.1.0", backend |-> backend,
     license |-> license, operations |-> operations]

(* What an adapter asks for: its own manifest's identities, always.        *)
AdapterInvocation(manifest, id, capabilities) ==
    [adapter_id |-> manifest.adapter_id, adapter_version |-> manifest.adapter_version, operation_id |-> id,
     operation_version |-> "1.0.0", backend |-> manifest.backend, requested_capabilities |-> capabilities]

EveryRun == {"InputDigests", "OutputDigests", "Parameters", "ComponentIdentity", "EnvironmentDigest"}

CapabilityPolicy(adapter, capabilities, hook) ==
    [accepted_adapters |-> {adapter}, allowed_capabilities |-> capabilities,
     required_evidence_hooks |-> EveryRun \cup {hook}, reject_opaque |-> TRUE,
     reject_unknown_determinism |-> TRUE]

read_only_database(adapter) == CapabilityPolicy(adapter, {"DatabaseRead"}, "TransactionContext")
sandboxed_process(adapter) == CapabilityPolicy(adapter, {"ProcessSpawn"}, "Warnings")
sandboxed_file_process(adapter) ==
    LET base == sandboxed_process(adapter)
    IN [base EXCEPT !.allowed_capabilities = @ \cup {"FileRead", "FileWrite"}]
read_only_network(adapter) == CapabilityPolicy(adapter, {"NetworkRead"}, "IoMetrics")

-----------------------------------------------------------------------------
(* Admission                                                               *)

admission_report(failures, eligible) ==
    [admitted |-> failures = {}, verification_eligible |-> failures = {} /\ eligible, failures |-> failures]

validate_manifest(m) ==
    LET ops == m.operations
        Contracts(k) == Range(ops[k].inputs) \cup Range(ops[k].outputs)
        Duplicate(k) == \E j \in 1..(k - 1) : ops[j].operation_id = ops[k].operation_id
    IN {f \in {"unsupported_manifest_schema", "missing_adapter_id", "missing_adapter_version",
               "missing_backend_version", "invalid_backend_digest", "missing_license", "missing_operations",
               "invalid_operation_identity", "missing_operation_contract", "invalid_operation_contract"} :
          CASE f = "unsupported_manifest_schema" -> m.schema_version # "current"
            [] f = "missing_adapter_id" -> m.adapter_id = ""
            [] f = "missing_adapter_version" -> m.adapter_version = ""
            [] f = "missing_backend_version" -> m.backend.engine_version = <<>>
            [] f = "invalid_backend_digest" -> m.backend.build_digest = ""
            [] f = "missing_license" -> m.license = ""
            [] f = "missing_operations" -> ops = <<>>
            [] f = "invalid_operation_identity" ->
                  \E k \in DOMAIN ops : "" \in {ops[k].operation_id, ops[k].operation_version} \/ Duplicate(k)
            [] f = "missing_operation_contract" -> \E k \in DOMAIN ops : <<>> \in {ops[k].inputs, ops[k].outputs}
            [] OTHER -> \E k \in DOMAIN ops : \E c \in Contracts(k) : ~validate_contract(c)}

(* Faulty variant: an operation may use less than it declares.             *)
admit_subset(manifest, invocation, policy) ==
    LET at == {k \in DOMAIN manifest.operations : manifest.operations[k].operation_id = invocation.operation_id}
        op == manifest.operations[Min(at)]
        failures ==
          validate_manifest(manifest)
          \cup (IF at # {} /\ invocation.requested_capabilities \subseteq op.capabilities THEN {} ELSE {"capability"})
          \cup (IF invocation.requested_capabilities \subseteq policy.allowed_capabilities THEN {} ELSE {"denied"})
    IN admission_report(failures, at # {})

(* Every requirement is checked and reported; only an operation that the   *)
(* manifest does not declare ends the admission early.                     *)
admit(manifest, invocation, policy) ==
    LET at == {k \in DOMAIN manifest.operations : manifest.operations[k].operation_id = invocation.operation_id}
        op == manifest.operations[Min(at)]
        Failed(code, condition) == IF condition THEN {code} ELSE {}
        common ==
          validate_manifest(manifest)
          \cup Failed("adapter_identity_mismatch",
                 \/ invocation.adapter_id # manifest.adapter_id
                 \/ invocation.adapter_version # manifest.adapter_version)
          \cup Failed("adapter_not_accepted", manifest.adapter_id \notin policy.accepted_adapters)
          \cup Failed("backend_identity_mismatch", invocation.backend # manifest.backend)
    IN IF at = {} THEN admission_report(common \cup {"operation_not_declared"}, FALSE)
       ELSE admission_report(
              common
              \cup Failed("operation_version_mismatch", op.operation_version # invocation.operation_version)
              \cup Failed("capability_declaration_mismatch", invocation.requested_capabilities # op.capabilities)
              \cup Failed("capability_denied",
                     ~(invocation.requested_capabilities \subseteq policy.allowed_capabilities))
              \cup Failed("required_evidence_hook_missing",
                     ~(policy.required_evidence_hooks \subseteq op.evidence_hooks))
              \cup Failed("opaque_operation_denied", policy.reject_opaque /\ op.opaque)
              \cup Failed("unknown_determinism_denied",
                     policy.reject_unknown_determinism /\ op.determinism = "Unknown"),
              ~op.opaque /\ op.determinism # "Unknown")

-----------------------------------------------------------------------------
(* The contracts the manifests declare: what a section leaves open is the  *)
(* same for all adapters, but QGIS gives every point the axes Xy.          *)

geometry_contract(kind, crs, axes) ==
    [new EXCEPT !.spatial = known(kind, crs, axes), !.measure = simple("Geometry", "geometry", "None")]
LocalAxes(crs) == IF crs = "geographic" THEN "LongitudeLatitude" ELSE "Xy"
polygon_contract(crs) == geometry_contract("Polygon", crs, LocalAxes(crs))
point_contract(crs) == geometry_contract("Point", crs, LocalAxes(crs))
raster_contract ==
    [new EXCEPT !.spatial = known("Raster", "projected", "Xy"), !.measure = simple("Count", "integer", "None")]
measure_contract(kind, unit) == [new EXCEPT !.measure = simple(kind, unit, "None")]

-----------------------------------------------------------------------------
(* QGIS: an operation is a record whose field op names it; the file it     *)
(* reads, if it has one, is w.checked when validated and w.read when the   *)
(* container opens it, since only its directory is mounted.                *)

MAX_BYTES == 64

QgisOperations == {"create-grid", "buffer", "reproject-layer", "centroids", "fix-geometries"}
QgisReads(op) == op.op # "create-grid"

(* Faulty variant: the input is read without being asked for.              *)
QgisCapabilities_noRead(op) == {"ProcessSpawn", "FileWrite"}

QgisCapabilities(op) == {"ProcessSpawn", "FileWrite"} \cup IF QgisReads(op) THEN {"FileRead"} ELSE {}

(* A path never reaches the receipt: the digest stands for the input.      *)
sanitized_parameters(op, digest) ==
    [f \in DOMAIN op \ {"op"} |-> op[f]] @@ IF QgisReads(op) THEN "input_digest" :> digest ELSE <<>>

(* The arguments name the mounted file and the CRSs of the contract.       *)
process_args(op) == [algorithm |-> op.op, reads |-> QgisReads(op), options |-> [f \in DOMAIN op \ {"op"} |-> op[f]]]

(* Extents and spacings are integers here; the cell count is their ratio.  *)
QgisContract(op) ==
    CASE op.op = "create-grid" ->
           /\ op.srid = "projected" /\ op.width > 0 /\ op.height > 0 /\ op.hspacing > 0 /\ op.vspacing > 0
           /\ op.width * op.height <= 1000000 * op.hspacing * op.vspacing
      [] op.op = "buffer" -> op.distance \in 1..10000 /\ op.segments \in 1..100
      [] op.op = "reproject-layer" -> op.target = "geographic"
      [] OTHER -> TRUE

validate_output_directory(d) == d.exists /\ d.is_dir /\ d.sandbox_writable /\ ~d.delimiter

(* A collection without a CRS name has no summary.                         *)
summarize_geojson(file) == file.valid /\ file.crs # None

QgisInput(file) ==
    /\ file.size <= MAX_BYTES /\ summarize_geojson(file)
    /\ file.features > 0 /\ file.kinds \subseteq {"Polygon", "MultiPolygon"}
    /\ file.crs = "projected"

(* The whole report is compared: versions, revision and the provider.      *)
validate_runtime_report(report) == report = "reviewed"

qgis_manifest ==
    LET Op(id, output, capabilities) ==
          AdapterOperation(id, <<polygon_contract("projected")>>, <<output>>, capabilities, "ToleranceBounded",
                           EveryRun \cup {"Warnings"})
        all == {"FileRead", "FileWrite", "ProcessSpawn"}
    IN AdapterManifest("genegis.adapter.qgis", BackendIdentity("qgis", <<"3">>, {"gdal", "proj", "geos", "code"}), "GPL",
         <<Op("create-grid", polygon_contract("projected"), {"ProcessSpawn", "FileWrite"}),
           Op("buffer", polygon_contract("projected"), all),
           Op("reproject-layer", polygon_contract("geographic"), all),
           Op("centroids", geometry_contract("Point", "projected", "Xy"), all),
           Op("fix-geometries", polygon_contract("projected"), all)>>)

Refused(why) == [ok |-> FALSE, why |-> why]

QgisReceipt(op, input, w) ==
    [ok |-> TRUE, operation_id |-> op.op, input_digest |-> input,
     parameters |-> sanitized_parameters(op, input), output_digest |-> w.output,
     output_crs |-> w.output.crs, manifest |-> qgis_manifest.adapter_id]

ExpectedSrid(op) == IF op.op = "reproject-layer" THEN "geographic" ELSE "projected"

(* Faulty variant: the output's CRS is taken as it comes.                  *)
QgisExecute_anyCrs(op, w) ==
    CASE ~QgisContract(op) -> Refused("Contract")
      [] ~validate_output_directory(w.directory) \/ w.exists -> Refused("FileBoundary")
      [] QgisReads(op) /\ ~QgisInput(w.checked) -> Refused("FileBoundary")
      [] OTHER -> QgisReceipt(op, IF QgisReads(op) THEN w.checked.id ELSE None, w)

QgisExecute(op, w) ==
    LET invocation == AdapterInvocation(qgis_manifest, op.op, QgisCapabilities(op))
        admission == admit(qgis_manifest, invocation, sandboxed_file_process(qgis_manifest.adapter_id))
    IN CASE ~QgisContract(op) -> Refused("Contract")
         [] ~admission.admitted \/ ~admission.verification_eligible -> Refused("Admission")
         [] ~w.image -> Refused("RuntimeIdentity")
         [] ~validate_output_directory(w.directory) \/ w.exists -> Refused("FileBoundary")
         [] QgisReads(op) /\ ~QgisInput(w.checked) -> Refused("FileBoundary")
         [] ~w.status -> Refused("Processing")
         [] ~validate_runtime_report(w.report) -> Refused("RuntimeIdentity")
         [] w.output.size > MAX_BYTES -> Refused("FileBoundary")
         [] ~summarize_geojson(w.output) \/ w.output.crs # ExpectedSrid(op) -> Refused("Output")
         [] OTHER -> QgisReceipt(op, IF QgisReads(op) THEN w.checked.id ELSE None, w)

-----------------------------------------------------------------------------
(* GRASS: no file enters or leaves the container; the answer is the lines  *)
(* of its output, each a value or a key with a value.                      *)

GrassOperations == {"region.grid", "projection.info", "transform.point", "measure.geodesic",
                    "raster.constant-stats", "vector.seeded-points"}

(* The commands an operation runs inside the one process.                  *)
grass_args(op) ==
    CASE op.op = "raster.constant-stats" -> <<"g.region", "r.mapcalc", "r.univar">>
      [] op.op = "vector.seeded-points" -> <<"v.random", "v.info">>
      [] op.op = "region.grid" -> <<"g.region">>
      [] op.op = "projection.info" -> <<"g.proj">>
      [] op.op = "transform.point" -> <<"m.proj">>
      [] OTHER -> <<"m.measure">>

(* Faulty variant: the sides of a raster are bounded, its cells are not.   *)
GrassContract_sides(op) ==
    CASE op.op = "region.grid" -> op.height <= 10000 * op.resolution /\ op.width <= 10000 * op.resolution
      [] op.op = "raster.constant-stats" -> op.rows \in 1..10000 /\ op.cols \in 1..10000
      [] OTHER -> TRUE

GrassContract(op) ==
    CASE op.op = "region.grid" ->
           /\ op.srid = "projected" /\ op.height > 0 /\ op.width > 0 /\ op.resolution > 0
           /\ op.height <= 10000 * op.resolution /\ op.width <= 10000 * op.resolution
      [] op.op = "projection.info" -> op.srid = "projected"
      [] op.op = "transform.point" ->
           /\ op.source = "geographic" /\ op.target = "projected"
           /\ op.longitude \in -180..180 /\ op.latitude \in -90..90
      [] op.op = "measure.geodesic" -> op.longitude \in -180..180 /\ op.latitude \in -90..90
      [] op.op = "raster.constant-stats" ->
           /\ op.rows \in 1..10000 /\ op.cols \in 1..10000 /\ op.rows * op.cols <= 10000000
      [] OTHER -> op.points \in 1..100000 /\ op.seed > 0

(* Every component's version must appear in what the engine prints; the    *)
(* rest of what it prints, its banner aside, is kept as warnings.          *)
validate_runtime_versions(printed) == {"grass", "gdal", "proj"} \subseteq printed
runtime_warnings(printed) == printed \ {"grass", "gdal", "proj", "banner"}

(* A key printed twice keeps its last value.                               *)
parse_output(op, lines) ==
    IF op.op = "transform.point"
    THEN IF Len(lines) = 3 /\ \A k \in 1..3 : lines[k].key = None THEN [ok |-> TRUE, values |-> lines]
         ELSE [ok |-> FALSE, values |-> <<>>]
    ELSE LET last == SelectSeq([k \in DOMAIN lines |->
                         IF \E j \in (k + 1)..Len(lines) : lines[j].key = lines[k].key
                         THEN [key |-> None, value |-> 0] ELSE lines[k]], LAMBDA l : l.key # None)
         IN [ok |-> last # <<>> /\ \A k \in DOMAIN lines : lines[k].key # None, values |-> last]

grass_manifest ==
    LET Op(id, input, output, determinism) ==
          AdapterOperation(id, <<input>>, <<output>>, {"ProcessSpawn"}, determinism, EveryRun \cup {"Warnings"})
    IN AdapterManifest("genegis.adapter.grass", BackendIdentity("grass", <<"8", "5">>, {"gdal", "proj"}), "GPL",
         <<Op("region.grid", polygon_contract("projected"), raster_contract, "Deterministic"),
           Op("projection.info", polygon_contract("projected"), measure_contract("Identifier", "crs-definition"),
              "Deterministic"),
           Op("transform.point", point_contract("geographic"), point_contract("projected"), "ToleranceBounded"),
           Op("measure.geodesic", point_contract("geographic"), measure_contract("Length", "m"), "ToleranceBounded"),
           Op("raster.constant-stats", measure_contract("Count", "integer"), raster_contract, "Deterministic"),
           Op("vector.seeded-points", measure_contract("Count", "points"), point_contract("projected"), "Seeded")>>)

GrassExecute(op, w) ==
    LET invocation == AdapterInvocation(grass_manifest, op.op, {"ProcessSpawn"})
        admission == admit(grass_manifest, invocation, sandboxed_process(grass_manifest.adapter_id))
        parsed == parse_output(op, w.lines)
    IN CASE ~GrassContract(op) -> Refused("Contract")
         [] ~admission.admitted \/ ~admission.verification_eligible -> Refused("Admission")
         [] ~w.image -> Refused("RuntimeIdentity")
         [] ~w.status -> Refused("Module")
         [] ~validate_runtime_versions(w.printed) -> Refused("RuntimeIdentity")
         [] ~parsed.ok -> Refused("Output")
         [] OTHER -> [ok |-> TRUE, operation_id |-> op.op, modules |-> grass_args(op), output |-> parsed.values,
                      warnings |-> runtime_warnings(w.printed), manifest |-> grass_manifest.adapter_id]

-----------------------------------------------------------------------------
(* PostGIS: one read-only, repeatable-read transaction holds the identity  *)
(* query, the operation and its plan.                                      *)

PostgisOperations == {"area.projected", "transform.point", "intersects", "multipart.part-count", "null-ordering"}

PostgisContract(op) ==
    CASE op.op = "transform.point" -> op.source = "geographic" /\ op.target = "projected"
      [] op.op = "null-ordering" -> TRUE
      [] OTHER -> op.srid = "projected"

(* What the server computes: a name of its answer, or the values in order, *)
(* each <<>> for null or <<n>>; null sorts after every value.              *)
execute_operation(op) ==
    IF op.op # "null-ordering" THEN <<op.op>>
    ELSE SortSeq(op.values, LAMBDA a, b : a # <<>> /\ (b = <<>> \/ a[1] < b[1]))

(* Versions are compared by prefix, so 18.60 passes for 18.6; a component  *)
(* that is none of the three is not looked at.                             *)
validate_runtime_identity(backend, versions) ==
    /\ IsPrefix(backend.engine_version, versions.postgresql)
    /\ (backend.components \cap {"postgis", "geos", "proj"}) \subseteq versions.components

postgis_manifest ==
    LET Op(id, inputs, output) ==
          AdapterOperation(id, inputs, <<output>>, {"DatabaseRead"}, "ToleranceBounded",
                           EveryRun \cup {"QueryPlanDigest", "TransactionContext"})
        polygon == polygon_contract("projected")
    IN AdapterManifest("genegis.adapter.postgis",
         BackendIdentity("postgis", <<"1", "8", ".", "6">>, {"postgis", "geos", "proj"}), "PostgreSQL AND GPL",
         <<Op("area.projected", <<polygon>>, measure_contract("Area", "m2")),
           Op("transform.point", <<point_contract("geographic")>>, point_contract("projected")),
           Op("intersects", <<polygon, polygon>>, measure_contract("Category", "boolean")),
           Op("multipart.part-count", <<polygon>>, measure_contract("Count", "parts")),
           Op("null-ordering", <<measure_contract("Count", "integer")>>, measure_contract("Count", "integer"))>>)

PostgisExecute(op, w) ==
    LET invocation == AdapterInvocation(postgis_manifest, op.op, {"DatabaseRead"})
        admission == admit(postgis_manifest, invocation, read_only_database(postgis_manifest.adapter_id))
    IN CASE ~PostgisContract(op) -> Refused("Contract")
         [] ~admission.admitted \/ ~admission.verification_eligible -> Refused("Admission")
         [] ~w.connects -> Refused("Database")
         [] ~validate_runtime_identity(postgis_manifest.backend, w.versions) -> Refused("RuntimeIdentity")
         [] ~w.status -> Refused("Database")
         [] OTHER -> [ok |-> TRUE, operation_id |-> op.op, output |-> execute_operation(op), transaction_read_only |-> TRUE,
                      isolation_level |-> "repeatable_read", manifest |-> postgis_manifest.adapter_id]

-----------------------------------------------------------------------------
(***************************************************************************)
(* The adapters that talk to remote services (crates/genegis-adapter/src): *)
(* OGC map and feature services (ogc.rs) and geocoding providers           *)
(* (geocoding.rs).  What the transport returns is a parameter: a fetch is  *)
(* [ok, content_type, body]; a body is a record of what a parser finds in  *)
(* it.  Texts of queries and labels are sets of words, so that one text    *)
(* contains another when its words do.                                     *)
(***************************************************************************)

NetworkHooks == EveryRun \cup {"IoMetrics"}

ServiceOperation(id, capabilities, determinism) ==
    AdapterOperation(id, <<new>>, <<new>>, capabilities, determinism, NetworkHooks)

-----------------------------------------------------------------------------
(* OGC services                                                            *)

OgcOperation == {"get_capabilities", "wms.get_map", "wfs.get_feature"}

ogc_web_service_manifest ==
    AdapterManifest("genegis.adapter.ogc", BackendIdentity("ogc", <<"1">>, {"http-client"}), "Apache-2.0 OR MIT",
        [k \in 1..3 |-> ServiceOperation(<<"get_capabilities", "wms.get_map", "wfs.get_feature">>[k],
                                         {"NetworkRead"}, "ToleranceBounded")])

validate_bbox(b) == b[1] < b[3] /\ b[2] < b[4]

prepare_wms_map(r) ==
    /\ r.version = "1.3.0" /\ r.layers # <<>> /\ r.width > 0 /\ r.height > 0
    /\ r.format \in {"image/png", "image/jpeg"} /\ validate_bbox(r.bbox) /\ CrsUnit(r.crs) # "Unknown"

(* An extent and a limit are optional; <<>> stands for none.               *)
prepare_wfs_feature(r) ==
    /\ r.version = "2.0.0" /\ r.type_names # <<>> /\ r.count # <<0>>
    /\ CrsUnit(r.crs) # "Unknown" /\ (r.bbox # <<>> => validate_bbox(r.bbox))

(* The URL carries every parameter of the request, the receipt's selection *)
(* the same ones again.                                                    *)
prepare_request(r) ==
    CASE r.operation = "get_capabilities" -> r.service \in {"WMS", "WFS"}
      [] r.operation = "wms.get_map" -> prepare_wms_map(r)
      [] OTHER -> prepare_wfs_feature(r)

request_url(r) == [f \in DOMAIN r |-> r[f]]

(* Faulty variant: the declared type of a map is enough.                   *)
validate_response_declared(r, content_type, body) ==
    CASE r.operation = "get_capabilities" -> content_type = "xml" /\ r.service \in body.markers
      [] r.operation = "wms.get_map" -> content_type = r.format
      [] OTHER -> content_type = "json" /\ body.is = "collection"

(* A service reports its errors in documents of the type asked for, so the *)
(* content is looked at: an exception anywhere in a capabilities document  *)
(* refuses it, and an image must begin like its type.                      *)
validate_response(r, content_type, body) ==
    CASE r.operation = "get_capabilities" ->
           content_type = "xml" /\ "exception" \notin body.markers /\ r.service \in body.markers
      [] r.operation = "wms.get_map" -> content_type = r.format /\ body.is = r.format
      [] OTHER -> content_type = "json" /\ body.is = "collection"

DecodedItems(r, body) ==
    CASE r.operation = "get_capabilities" -> 1
      [] r.operation = "wms.get_map" -> r.width * r.height
      [] OTHER -> body.features

OgcServiceReceipt(r, fetched) ==
    [ok |-> TRUE, operation |-> r.operation, request_url |-> request_url(r), output_digest |-> fetched.body,
     crs |-> IF r.operation = "get_capabilities" THEN None ELSE r.crs,
     decoded_items |-> DecodedItems(r, fetched.body)]

OgcExecute(r, fetched) ==
    LET invocation == AdapterInvocation(ogc_web_service_manifest, r.operation, {"NetworkRead"})
        admission == admit(ogc_web_service_manifest, invocation,
                           read_only_network(ogc_web_service_manifest.adapter_id))
    IN CASE ~admission.admitted -> Refused("Admission")
         [] ~prepare_request(r) -> Refused("Request")
         [] ~fetched.ok -> Refused("Transport")
         [] fetched.body.is = "empty" -> Refused("Response")
         [] ~validate_response(r, fetched.content_type, fetched.body) -> Refused("Response")
         [] OTHER -> OgcServiceReceipt(r, fetched)

-----------------------------------------------------------------------------
(* Geocoding: a request is [mode, queries, max_candidates]; a query is     *)
(* [id, text]; a provider is [remote, entries].  Nobody waits between two  *)
(* remote requests: the interval of the rate policy is only recorded.      *)

GeocodingPrivacyPolicy == {"LocalOnly", "AllowRemoteRedacted", "AllowRemoteFull"}

GeocodingRatePolicy_default == [max_batch_size |-> 100, max_candidates_per_query |-> 5]

GazetteerEntry(id, label, aliases) == [feature_id |-> id, label |-> label, aliases |-> aliases]

GeocodeCandidate(entry, exact) ==
    [feature_id |-> entry.feature_id, label |-> entry.label, confidence |-> IF exact THEN 100 ELSE 75,
     match_kind |-> IF exact THEN "Exact" ELSE "Partial", valid |-> TRUE]

geocoding_manifest ==
    AdapterManifest("genegis.adapter.geocoding", BackendIdentity("geocoding", <<"1">>, {"http-client", "output-crs"}),
        "Apache-2.0 OR MIT",
        <<ServiceOperation("offline_gazetteer", {}, "Deterministic"),
          ServiceOperation("http_json", {"NetworkRead"}, "ToleranceBounded")>>)

GeocodingPolicy == read_only_network(geocoding_manifest.adapter_id)

validate_request(r, rate) ==
    /\ r.queries # <<>>
    /\ r.mode = "Interactive" => Len(r.queries) = 1
    /\ Len(r.queries) <= rate.max_batch_size
    /\ r.max_candidates \in 1..rate.max_candidates_per_query
    /\ \A k \in DOMAIN r.queries : r.queries[k].id # "" /\ r.queries[k].text # {}
    /\ IsInjective([k \in DOMAIN r.queries |-> r.queries[k].id])

Take(s, n) == SubSeq(s, 1, IF Len(s) < n THEN Len(s) ELSE n)

Ranked(candidates) ==
    SortSeq(candidates, LAMBDA a, b : \/ a.confidence > b.confidence
                                      \/ a.confidence = b.confidence /\ a.feature_id < b.feature_id)

CandidatesFor(query, entries) ==
    LET Labels(e) == {e.label} \cup e.aliases
        found == SelectSeq(entries, LAMBDA e : \E l \in Labels(e) : query.text \subseteq l)
    IN [k \in DOMAIN found |-> GeocodeCandidate(found[k], query.text \in Labels(found[k]))]

(* Faulty variant: the first entries that match, then ranked.              *)
offline_results_firstFound(r, entries) ==
    [k \in DOMAIN r.queries |->
       [query_id |-> r.queries[k].id,
        candidates |-> Ranked(Take(CandidatesFor(r.queries[k], entries), r.max_candidates))]]

(* Exact matches first, then by identity; the limit cuts the ranked list.  *)
offline_results(r, entries) ==
    [k \in DOMAIN r.queries |->
       [query_id |-> r.queries[k].id,
        candidates |-> Take(Ranked(CandidatesFor(r.queries[k], entries)), r.max_candidates)]]

(* Faulty variant: the answers belong to the queries in any order.         *)
normalize_and_validate_results_unordered(r, results) ==
    /\ Len(results) = Len(r.queries)
    /\ {results[k].query_id : k \in DOMAIN results} = {r.queries[k].id : k \in DOMAIN r.queries}
    /\ \A k \in DOMAIN results : Len(results[k].candidates) <= r.max_candidates

(* One answer for each query, in the order of the queries; a candidate     *)
(* needs an identity, a label, WGS84 coordinates and a confidence.         *)
normalize_and_validate_results(r, results) ==
    /\ Len(results) = Len(r.queries)
    /\ \A k \in DOMAIN results :
         /\ results[k].query_id = r.queries[k].id
         /\ Len(results[k].candidates) <= r.max_candidates
         /\ \A j \in DOMAIN results[k].candidates : results[k].candidates[j].valid

Counted(results, Test(_)) == Cardinality({k \in DOMAIN results : Test(results[k])})

GeocodingReceipt(r, privacy, sent, results) ==
    [ok |-> TRUE, results |-> results, privacy_policy |-> privacy, sent |-> sent,
     query_digests |-> [k \in DOMAIN r.queries |-> r.queries[k].text],
     matched_queries |-> Counted(results, LAMBDA q : q.candidates # <<>>),
     ambiguous_queries |-> Counted(results, LAMBDA q : Len(q.candidates) > 1),
     unmatched_queries |-> Len(r.queries) - Counted(results, LAMBDA q : q.candidates # <<>>)]

(* Faulty variant: redacted transport counts as permission.                *)
GeocodingExecute_redacted(r, provider, privacy, rate, fetched) ==
    CASE ~validate_request(r, rate) -> Refused("Request") @@ [sent |-> FALSE]
      [] provider.remote /\ privacy = "LocalOnly" -> Refused("Privacy") @@ [sent |-> FALSE]
      [] provider.remote /\ ~fetched.ok -> Refused("Transport") @@ [sent |-> TRUE]
      [] OTHER -> GeocodingReceipt(r, privacy, provider.remote,
                     IF provider.remote THEN fetched.body.results ELSE offline_results(r, provider.entries))

(* sent says whether the text of the queries left the process.             *)
GeocodingExecute(r, provider, privacy, rate, fetched) ==
    LET operation == IF provider.remote THEN "http_json" ELSE "offline_gazetteer"
        capabilities == IF provider.remote THEN {"NetworkRead"} ELSE {}
        admission == admit(geocoding_manifest, AdapterInvocation(geocoding_manifest, operation, capabilities),
                           GeocodingPolicy)
        results == IF provider.remote THEN fetched.body.results ELSE offline_results(r, provider.entries)
        Fail(why, sent) == Refused(why) @@ [sent |-> sent]
    IN CASE ~validate_request(r, rate) -> Fail("Request", FALSE)
         [] provider.remote /\ privacy # "AllowRemoteFull" -> Fail("Privacy", FALSE)
         [] ~admission.admitted -> Fail("Admission", FALSE)
         [] provider.remote /\ ~fetched.ok -> Fail("Transport", TRUE)
         [] provider.remote /\ fetched.content_type # "json" -> Fail("Response", TRUE)
         [] ~normalize_and_validate_results(r, results) -> Fail("Response", provider.remote)
         [] OTHER -> GeocodingReceipt(r, privacy, provider.remote, results)
=============================================================================
