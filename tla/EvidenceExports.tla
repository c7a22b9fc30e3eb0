--------------------------- MODULE EvidenceExports ---------------------------
(***************************************************************************)
(* What leaves the system with a capsule: portable publications            *)
(* (crates/genegis-capsule/src/publication.rs), open-standard documents    *)
(* and attestations (standards.rs), desktop bridge capsules (bridge.rs)    *)
(* and narrative views (narrative.rs).  A published directory is a         *)
(* function from file names to contents, the capsule's files included;     *)
(* a text is reduced to the kind of path it contains.                      *)
(***************************************************************************)
EXTENDS ResultCapsule

-----------------------------------------------------------------------------
(* Publications                                                            *)

validate_policy(policy) == policy.capsule_download /\ policy.reject_local_paths

(* A URL with file:// or a drive letter; absolute Unix paths pass.         *)
contains_local_path(texts) == texts \cap {"file", "drive"} # {}

parse_attribution(analysis) == analysis.rows.citations

semantic_digest(p) == digest([f \in DOMAIN p \ {"digest", "entries"} |-> p[f]])

render_view(p, png, embed) ==
    [image |-> png, result |-> p.result, workflow |-> p.workflow, publication |-> p.digest,
     credits |-> IF embed THEN {} ELSE p.attribution]

PublicationOf(c, policy) ==
    LET draft == [attribution |-> parse_attribution(c.files["analysis"]), result |-> c.manifest.result,
                  workflow |-> c.files["receipt"].workflow_digest, graph |-> digest(c.files["graph"]),
                  verification_policy |-> digest(c.files["policy"]), capsule |-> digest(c.manifest),
                  trust |-> assess(c.files["policy"], c.files["receipt"].evidence).verified, policy |-> policy,
                  digest |-> {}, entries |-> <<>>]
    IN [draft EXCEPT !.digest = semantic_digest(draft)]

copy_capsule(c) ==
    <<[name |-> "capsule", bytes |-> c.manifest]>>
    \o [i \in DOMAIN c.manifest.entries |->
           [name |-> c.manifest.entries[i].path, bytes |-> c.files[c.manifest.entries[i].path]]]

(* The two pages, the publication and then the capsule, file by file.      *)
PublicationWrites(c, policy) ==
    LET p == PublicationOf(c, policy)
        index == render_view(p, c.files["png"], FALSE)
        embed == render_view(p, c.files["png"], TRUE)
    IN <<[name |-> "index", bytes |-> index], [name |-> "embed", bytes |-> embed],
         [name |-> "publication",
          bytes |-> [p EXCEPT !.entries = <<[path |-> "index", sha256 |-> digest(index)],
                                           [path |-> "embed", sha256 |-> digest(embed)]>>]]>>
       \o copy_capsule(c)

Written(writes) ==
    [n \in {writes[i].name : i \in DOMAIN writes} |->
        writes[CHOOSE i \in DOMAIN writes : writes[i].name = n].bytes]

DownloadOf(dir) == [manifest |-> dir["capsule"], files |-> [n \in DOMAIN dir \ {"index", "embed", "publication", "capsule"} |-> dir[n]]]

(* Faulty variant: the capsule beside the pages is taken by its result.    *)
DownloadHolds_byResult(dir) ==
    /\ "capsule" \in DOMAIN dir
    /\ verify_nagoya_capsule(DownloadOf(dir), {})
    /\ dir["capsule"].result = dir["publication"].result

(* Faulty variant: a publication without its capsule is accepted.          *)
DownloadHolds_ifPresent(dir) ==
    "capsule" \in DOMAIN dir =>
        /\ digest(dir["capsule"]) = dir["publication"].capsule
        /\ verify_nagoya_capsule(DownloadOf(dir), {})
        /\ dir["capsule"].result = dir["publication"].result

DownloadHolds(dir) ==
    /\ "capsule" \in DOMAIN dir
    /\ digest(dir["capsule"]) = dir["publication"].capsule
    /\ verify_nagoya_capsule(DownloadOf(dir), {})
    /\ dir["capsule"].result = dir["publication"].result

verify_portable_publication(dir) ==
    /\ "publication" \in DOMAIN dir
    /\ LET p == dir["publication"]
       IN /\ validate_policy(p.policy)
          /\ semantic_digest(p) = p.digest
          /\ p.attribution # {}
          /\ \A i \in DOMAIN p.entries : /\ p.entries[i].path \in DOMAIN dir
                                         /\ p.entries[i].sha256 = digest(dir[p.entries[i].path])
                                         /\ ~contains_local_path(dir[p.entries[i].path].credits)
          /\ ~contains_local_path(p.attribution)
    /\ DownloadHolds(dir)

(* The directory is verified only after it was written: a refusal leaves   *)
(* the files behind.                                                       *)
export_portable_publication(c, policy) ==
    LET dir == Written(PublicationWrites(c, policy))
        started == validate_policy(policy) /\ verify_nagoya_capsule(c, {}) /\ parse_attribution(c.files["analysis"]) # {}
    IN [ok |-> started /\ verify_portable_publication(dir), started |-> started,
        dir |-> IF started THEN dir ELSE << >>]

-----------------------------------------------------------------------------
(* Open standards                                                          *)

is_standard_output_role(r) == r \in {"map-artifact", "analysis-result"} \/ operational_kinds_for_role(r) # {}

OutputEntries(manifest) == SelectSeq(manifest.entries, LAMBDA e : is_standard_output_role(e.role))

intoto_statement(c) ==
    [subjects |-> [i \in DOMAIN OutputEntries(c.manifest) |->
                      [name |-> OutputEntries(c.manifest)[i].path, sha256 |-> OutputEntries(c.manifest)[i].sha256]],
     result |-> c.files["receipt"].result_digest, trust |-> c.files["receipt"].trust.verified]

(* Faulty variant: only the subjects' number is compared.                  *)
validate_intoto_statement_count(statement, manifest) ==
    Len(statement.subjects) = Len(OutputEntries(manifest)) /\ statement.subjects # <<>>

validate_intoto_statement(statement, manifest) ==
    /\ Len(statement.subjects) = Len(OutputEntries(manifest)) /\ statement.subjects # <<>>
    /\ \A i \in DOMAIN statement.subjects :
          \E j \in DOMAIN manifest.entries : /\ manifest.entries[j].path = statement.subjects[i].name
                                             /\ manifest.entries[j].sha256 = statement.subjects[i].sha256

(* A signature binds the payload and its type to a key.                    *)
dsse_pae(payload) == <<"DSSEv1", "in-toto", payload>>
Sign(key, message) == [key |-> key, message |-> message]

create_dsse_attestation(c, key) ==
    LET statement == intoto_statement(c)
    IN [payload |-> statement, signatures |-> {Sign(key, dsse_pae(statement))}]

verify_dsse_attestation(c, envelope, key) ==
    /\ Sign(key, dsse_pae(envelope.payload)) \in envelope.signatures
    /\ validate_intoto_statement(envelope.payload, c.manifest)

(* Identifiers of PROV entities: "%" and "/" are written as escapes.       *)
Escaped(ch) == CASE ch = "%" -> <<"%", "2", "5">> [] ch = "/" -> <<"%", "2", "F">> [] OTHER -> <<ch>>

(* Faulty variant: a percent sign stays as it is.                          *)
prov_subject_id_once(path) ==
    FlattenSeq([i \in DOMAIN path |-> IF path[i] = "/" THEN <<"%", "2", "F">> ELSE <<path[i]>>])

prov_subject_id(path) == FlattenSeq([i \in DOMAIN path |-> Escaped(path[i])])

(* PROV and RO-Crate list every subject, OpenLineage the outputs.          *)
prov_json(manifest) == [p \in {manifest.entries[i].path : i \in DOMAIN manifest.entries} |->
    manifest.entries[CHOOSE i \in DOMAIN manifest.entries : manifest.entries[i].path = p].sha256]
ro_crate_json(manifest) == prov_json(manifest)

(* Faulty variant: operational evidence is not among the outputs.          *)
openlineage_json_maps(c) ==
    LET outputs == SelectSeq(c.manifest.entries, LAMBDA e : e.role \in {"map-artifact", "analysis-result"})
    IN [run |-> c.files["receipt"].command_id, result |-> c.files["receipt"].result_digest,
        workflow |-> c.files["receipt"].workflow_digest, inputs |-> Len(c.files["receipt"].evidence.sources),
        outputs |-> [i \in DOMAIN outputs |-> outputs[i].path]]

openlineage_json(c) ==
    [run |-> c.files["receipt"].command_id, result |-> c.files["receipt"].result_digest,
     workflow |-> c.files["receipt"].workflow_digest, inputs |-> Len(c.files["receipt"].evidence.sources),
     outputs |-> [i \in DOMAIN OutputEntries(c.manifest) |-> OutputEntries(c.manifest)[i].path]]

Lists(document, manifest) ==
    \A i \in DOMAIN manifest.entries : /\ manifest.entries[i].path \in DOMAIN document
                                       /\ document[manifest.entries[i].path] = manifest.entries[i].sha256

validate_openlineage(document, c) ==
    /\ document.run = c.files["receipt"].command_id
    /\ Len(document.outputs) = Len(OutputEntries(c.manifest))
    /\ document.inputs = Len(c.files["receipt"].evidence.sources)
    /\ document.result = c.files["receipt"].result_digest /\ document.workflow = c.files["receipt"].workflow_digest
    /\ \A i \in DOMAIN document.outputs :
          document.outputs[i] \in {OutputEntries(c.manifest)[j].path : j \in DOMAIN OutputEntries(c.manifest)}

export_standard_bundle(c) ==
    /\ verify_nagoya_capsule(c, {})
    /\ Lists(prov_json(c.manifest), c.manifest) /\ Lists(ro_crate_json(c.manifest), c.manifest)
    /\ validate_openlineage(openlineage_json(c), c)
    /\ validate_intoto_statement(intoto_statement(c), c.manifest)

-----------------------------------------------------------------------------
(* Desktop bridge capsules                                                 *)

(* A layer is [id, format, crs_matches, expected]; its source file has one *)
(* content when it is read and maybe another when it is hashed again for   *)
(* the source snapshot.  Formats are told apart by their first bytes.      *)
validate_request(layers) ==
    /\ layers # <<>>
    /\ IsInjective([i \in DOMAIN layers |-> layers[i].id])
    /\ \A i \in DOMAIN layers : layers[i].id # "" /\ layers[i].crs_matches

validate_asset(layer, bytes) == bytes.format = layer.format

AssetOf(id) == CASE id = "l1" -> "asset/l1" [] id = "l2" -> "asset/l2" [] OTHER -> "asset/"

AssetChecked(layer, first) ==
    /\ validate_asset(layer, first)
    /\ layer.expected # {} => digest(first) \in layer.expected

(* Faulty variant: the snapshot is not compared with the bytes in hand.    *)
SnapshotChecked_trusted(first, second) == TRUE

SnapshotChecked(first, second) == digest(second) = digest(first)

project_digest(layers, entries) == digest(<<layers, SelectSeq(entries, LAMBDA e : e.role = "desktop-layer-asset")>>)

seal_desktop_bridge_capsule(layers, first, second) ==
    LET normalized == [i \in DOMAIN layers |-> [layers[i] EXCEPT !.expected = {digest(first[i])}]]
        workflow == [id |-> 1, steps |-> [i \in DOMAIN layers |-> digest(second[i])]]
        command == [workflow_id |-> 1, workflow_digest |-> stable_digest(workflow),
                    snapshots |-> [i \in DOMAIN layers |-> digest(second[i])]]
        subjects == [i \in DOMAIN layers |-> json_subject(AssetOf(layers[i].id), "desktop-layer-asset", first[i])]
                    \o <<json_subject("request", "desktop-bridge-request", normalized),
                         json_subject("workflow", "workflow", workflow), json_subject("command", "command", command)>>
        packed == Packed(subjects, stable_digest(workflow))
    IN [ok |-> /\ validate_request(layers)
               /\ \A i \in DOMAIN layers : AssetChecked(layers[i], first[i]) /\ SnapshotChecked(first[i], second[i]),
        files |-> packed.files,
        manifest |-> [packed.manifest EXCEPT !.result = <<@, project_digest(normalized, packed.manifest.entries)>>]]

verify_desktop_bridge_capsule(b) ==
    LET layers == b.files["request"]
        workflow == b.files["workflow"]
        command == b.files["command"]
    IN /\ \A i \in DOMAIN b.manifest.entries :
             b.manifest.entries[i].sha256 = digest(b.files[b.manifest.entries[i].path])
       /\ validate_request(layers)
       /\ stable_digest(workflow) = b.manifest.result[1]
       /\ command.workflow_digest = b.manifest.result[1] /\ command.workflow_id = workflow.id
       /\ \A i \in DOMAIN layers : LET bytes == b.files[AssetOf(layers[i].id)]
                                   IN validate_asset(layers[i], bytes) /\ layers[i].expected = {digest(bytes)}
       /\ project_digest(layers, b.manifest.entries) = b.manifest.result[2]

-----------------------------------------------------------------------------
(* Narrative views                                                         *)

validate_map(map, result) == IsInjective([i \in DOMAIN map |-> map[i].layer]) /\ \A i \in DOMAIN map : map[i].result = result

(* Faulty variant: a dashboard of another result is accepted.              *)
validate_draft_anyDashboard(draft) ==
    /\ draft.frames # <<>> /\ draft.source = draft.result
    /\ IsInjective([i \in DOMAIN draft.frames |-> draft.frames[i].id])
    /\ \A i \in DOMAIN draft.frames : validate_map(draft.frames[i].map, draft.result)

(* dashboard: at most one.                                                 *)
validate_draft(draft) ==
    /\ draft.frames # <<>> /\ draft.source = draft.result
    /\ IsInjective([i \in DOMAIN draft.frames |-> draft.frames[i].id])
    /\ \A i \in DOMAIN draft.frames : /\ validate_map(draft.frames[i].map, draft.result)
                                      /\ draft.frames[i].dashboard \subseteq {draft.result}

canonical_view_digest(view) == digest([f \in DOMAIN view \ {"digest"} |-> view[f]])

seal_narrative_project_view(draft) ==
    LET view == [result |-> draft.result, source |-> draft.source, frames |-> draft.frames, digest |-> {}]
    IN [view EXCEPT !.digest = canonical_view_digest(view)]

verify_narrative_project_view(view) == validate_draft(view) /\ canonical_view_digest(view) = view.digest

(* The workflow is built from the source, the result and the number of     *)
(* frames; the bus runs it and reports the digest of the view.             *)
compose_narrative_project_view(draft) ==
    LET view == seal_narrative_project_view(draft)
    IN [ok |-> validate_draft(draft) /\ verify_narrative_project_view(view), view |-> view,
        workflow |-> digest(<<draft.source, draft.result, Len(draft.frames)>>)]

-----------------------------------------------------------------------------
(* A publication assembled from the files of two verifies only as one of   *)
(* them: pages, publication and capsule belong together, though the        *)
(* verification compares only digests with each other                      *)
(* (verify_portable_publication).                                          *)
MixedPublicationsFail(a, b, policy, from_b) ==
    LET dirA == Written(PublicationWrites(a, policy))
        dirB == Written(PublicationWrites(b, policy))
        FromB(n) == n \in from_b \/ (n \in DOMAIN a.files /\ "capsule" \in from_b)
        mixed == [n \in DOMAIN dirA |-> IF FromB(n) THEN dirB[n] ELSE dirA[n]]
    IN verify_portable_publication(mixed) => mixed \in {dirA, dirB}

(* An export cut short, at any file, leaves a directory that does not      *)
(* verify, and so does one whose final check refuses it; a verified export *)
(* carries no local path in what it credits.                               *)
PartialExportsFail(c, policy) ==
    LET writes == PublicationWrites(c, policy)
        export == export_portable_publication(c, policy)
    IN /\ \A n \in 0..(Len(writes) - 1) : ~verify_portable_publication(Written(SubSeq(writes, 1, n)))
       /\ export.started /\ ~export.ok => ~verify_portable_publication(export.dir)
       /\ export.ok => parse_attribution(c.files["analysis"]) \cap {"file", "drive"} = {}

(* A signed attestation of one capsule holds for another one that verifies *)
(* only if both have the same outputs (verify_dsse_attestation compares    *)
(* neither the result digest nor the trust the statement asserts).         *)
AttestationPinsOutputs(a, b) ==
    verify_nagoya_capsule(b, {}) /\ verify_dsse_attestation(b, create_dsse_attestation(a, "k"), "k") =>
        \A p \in {"analysis", "html", "png"} : a.files[p] = b.files[p]

(* Two paths never share a PROV identifier.                                *)
ProvIdsAreDistinct(p, q) == prov_subject_id(p) = prov_subject_id(q) => p = q

(* Whatever verifies can be exported in every standard.                    *)
VerifiedCapsulesExport(c) == verify_nagoya_capsule(c, {}) => export_standard_bundle(c)

(* A bridge capsule is sealed only if every asset it holds is the content  *)
(* its request and its command vouch for, even when a source file is       *)
(* replaced between the two times it is read, and then it verifies.        *)
BridgeBindsOneReading(layers, first, second) ==
    LET bridge == seal_desktop_bridge_capsule(layers, first, second)
    IN bridge.ok =>
          /\ verify_desktop_bridge_capsule(bridge)
          /\ \A i \in DOMAIN layers :
                /\ digest(bridge.files[AssetOf(layers[i].id)]) = bridge.files["command"].snapshots[i]
                /\ layers[i].expected # {} => bridge.files["command"].snapshots[i] \in layers[i].expected

(* Frames collected while results changed compose into a view only if      *)
(* everything they show is of the one result the view is anchored to.      *)
ViewsShowOneResult(draft) ==
    compose_narrative_project_view(draft).ok =>
        \A i \in DOMAIN draft.frames :
            /\ draft.frames[i].dashboard \subseteq {draft.source}
            /\ \A j \in DOMAIN draft.frames[i].map : draft.frames[i].map[j].result = draft.source
=============================================================================
