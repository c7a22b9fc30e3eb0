---------------------------- MODULE ResultCapsule ----------------------------
(***************************************************************************)
(* Sealing, verifying, comparing, reviewing and approving result capsules  *)
(* (crates/genegis-capsule/src/lib.rs).  A capsule is [manifest, files]:   *)
(* the files of its directory by path and the inventory that lists them.   *)
(* digest is injective; a policy is the set of checks it requires; what a  *)
(* policy concludes from evidence is recomputed by assess, as in           *)
(* TrustPolicy, and is reduced here to the required checks that failed.    *)
(***************************************************************************)
EXTENDS Integers, Sequences, FiniteSets, SequencesExt, FiniteSetsExt

digest(bytes) == [sha256 |-> bytes]
Checks == {"source_checksum", "population_total_oracle", "ward_coverage_oracle", "area_oracle_relative_error",
           "density_oracle"}

(* The identifier of a workflow is not part of its digest.                 *)
stable_digest(workflow) == digest(workflow.steps)

assess(policy, evidence) ==
    [policy |-> policy, failures |-> policy \ evidence.passed, verified |-> policy \subseteq evidence.passed]

canonical_digest(analysis, passed, html, png, stages) ==
    digest(<<analysis.rows, passed, html, png, stages>>)

-----------------------------------------------------------------------------
(* Operational evidence                                                    *)

OperationalEvidenceKind == {"Adapter", "Edit", "Io", "TrustUx"}
role(kind) == CASE kind = "Adapter" -> "adapter-receipt" [] kind = "Edit" -> "edit-receipt"
                [] kind = "Io" -> "io-receipt" [] kind = "TrustUx" -> "trust-ux-report"

operational_kinds_for_role(r) == {k \in OperationalEvidenceKind : role(k) = r}

(* complete: the payload has every field its kind requires.                *)
OperationalEvidence_new(id, kind, payload) ==
    [id |-> id, kind |-> kind, payload |-> payload, payload_digest |-> digest(payload)]

ValidEvidence(e) == e.id # "" /\ e.payload_digest = digest(e.payload) /\ e.payload.complete

validate_operational_evidence_set(evidence, require_complete) ==
    IF evidence = <<>> THEN ~require_complete
    ELSE /\ \A i \in DOMAIN evidence : ValidEvidence(evidence[i])
         /\ IsInjective([i \in DOMAIN evidence |-> evidence[i].id])
         /\ {evidence[i].kind : i \in DOMAIN evidence} = OperationalEvidenceKind

-----------------------------------------------------------------------------
(* Sealing                                                                 *)

json_subject(path, r, value) == [path |-> path, role |-> r, json |-> TRUE, bytes |-> value]
Subject(path, r, value) == [path |-> path, role |-> r, json |-> FALSE, bytes |-> value]

entry(subject) ==
    [path |-> subject.path, role |-> subject.role, json |-> subject.json, sha256 |-> digest(subject.bytes)]

trust_report_html(trust, identities) == [level |-> trust.verified, policy |-> trust.policy, of |-> identities]

DigestIdentities(result_digest, workflow, policy, graph, html, png) ==
    <<result_digest, stable_digest(workflow), digest(policy), digest(graph), digest(html), digest(png)>>

Required == {"analysis", "command", "workflow", "receipt", "policy", "graph", "html", "png", "report"}

(* Numbered files of the two evidence directories.                         *)
AssurancePath == <<"assurance/000", "assurance/001">>
EvidencePath == <<"evidence/000", "evidence/001", "evidence/002", "evidence/003">>

AssuranceSubjects(sources) ==
    [k \in 1..Cardinality({i \in DOMAIN sources : sources[i].assured}) |->
        LET i == SetToSortSeq({j \in DOMAIN sources : sources[j].assured}, <)[k]
        IN json_subject(AssurancePath[i], "source-assurance", sources[i])]

(* The envelopes are sorted by kind and identifier and numbered.           *)
KindOrder == [Adapter |-> 1, Edit |-> 2, Io |-> 3, TrustUx |-> 4]
EvidenceSubjects(evidence) ==
    LET sorted == SortSeq(evidence, LAMBDA a, b : KindOrder[a.kind] < KindOrder[b.kind])
    IN [i \in DOMAIN sorted |-> json_subject(EvidencePath[i], role(sorted[i].kind), sorted[i])]

Subjects(result, evidence) ==
    LET r == result.receipt
    IN <<json_subject("analysis", "analysis-result", result.analysis),
         json_subject("command", "command", result.command),
         json_subject("workflow", "workflow", result.workflow),
         json_subject("receipt", "execution-receipt", r),
         json_subject("policy", "verification-policy", r.policy),
         json_subject("graph", "verification-graph", r.graph),
         Subject("html", "map-artifact", result.html),
         Subject("png", "map-artifact", result.png),
         Subject("report", "trust-report",
                 trust_report_html(r.trust, DigestIdentities(r.result_digest, result.workflow, r.policy, r.graph,
                                                             result.html, result.png)))>>
       \o AssuranceSubjects(r.evidence.sources) \o EvidenceSubjects(evidence)

Packed(subjects, result_digest) ==
    [manifest |-> [result |-> result_digest, entries |-> [i \in DOMAIN subjects |-> entry(subjects[i])]],
     files |-> [p \in {subjects[i].path : i \in DOMAIN subjects} |->
                   LET i == CHOOSE i \in DOMAIN subjects : subjects[i].path = p IN subjects[i].bytes]]

(* Faulty variant: only the first source's assurance is written.           *)
seal_capsule_firstSource(result, evidence) ==
    LET all == Subjects(result, evidence)
        firsts == SelectSeq(all, LAMBDA s : s.role # "source-assurance" \/ s.bytes.id = result.receipt.evidence.sources[1].id)
    IN Packed(firsts, result.receipt.result_digest)

(* The destination is new and empty: nothing older is listed.              *)
seal_capsule(result, evidence) == Packed(Subjects(result, evidence), result.receipt.result_digest)

-----------------------------------------------------------------------------
(* Verifying                                                               *)

InventoryHolds(c) ==
    LET entries == c.manifest.entries
    IN /\ IsInjective([i \in DOMAIN entries |-> entries[i].path])
       /\ \A i \in DOMAIN entries :
             entries[i].path \in DOMAIN c.files /\ digest(c.files[entries[i].path]) = entries[i].sha256
       /\ Required \subseteq {entries[i].path : i \in DOMAIN entries}

OfRole(c, roles) == SelectSeq(c.manifest.entries, LAMBDA e : e.role \in roles)

OperationalHolds(c) ==
    LET listed == OfRole(c, {role(k) : k \in OperationalEvidenceKind})
        read == [i \in DOMAIN listed |-> c.files[listed[i].path]]
    IN /\ \A i \in DOMAIN listed : read[i].kind \in operational_kinds_for_role(listed[i].role)
       /\ validate_operational_evidence_set(read, FALSE)

PolicyHolds(c, expected) ==
    LET receipt == c.files["receipt"]
    IN /\ expected # {} => c.files["policy"] \in expected
       /\ receipt.policy = c.files["policy"] /\ receipt.graph = c.files["graph"]
       /\ c.files["policy"] \subseteq receipt.graph
       /\ receipt.graph_digest = digest(c.files["graph"])

AssuranceHolds(c) ==
    LET sources == c.files["receipt"].evidence.sources
        listed == OfRole(c, {"source-assurance"})
        read == [i \in DOMAIN listed |-> c.files[listed[i].path]]
    IN /\ Len(listed) = Cardinality({i \in DOMAIN sources : sources[i].assured})
       /\ IsInjective([i \in DOMAIN read |-> read[i].id])
       /\ \A i \in DOMAIN read : \E j \in DOMAIN sources : sources[j] = read[i]

TrustHolds(c) ==
    LET receipt == c.files["receipt"]
        trust == assess(c.files["policy"], receipt.evidence)
    IN receipt.trust = trust /\ receipt.passed = trust.verified

IdentitiesAgree(c) ==
    LET receipt == c.files["receipt"]
        command == c.files["command"]
        workflow == c.files["workflow"]
    IN /\ command.workflow_id = workflow.id
       /\ command.workflow_digest = receipt.workflow_digest
       /\ command.workflow_digest = stable_digest(workflow)
       /\ receipt.workflow_id = workflow.id /\ receipt.command_id = command.id
       /\ stable_digest(c.files["analysis"].workflow) = stable_digest(workflow)

ReportHolds(c) ==
    LET receipt == c.files["receipt"]
    IN c.files["report"] =
          trust_report_html(assess(c.files["policy"], receipt.evidence),
              DigestIdentities(receipt.result_digest, c.files["workflow"], c.files["policy"], c.files["graph"],
                               c.files["html"], c.files["png"]))

ReplayHolds(c) ==
    LET receipt == c.files["receipt"]
        replay == receipt.evidence.replay
    IN /\ replay.workflow = receipt.workflow_digest /\ replay.backend = receipt.engine
       /\ replay.artifacts = {digest(c.files["html"]), digest(c.files["png"])}

ResultHolds(c) ==
    LET receipt == c.files["receipt"]
        result == canonical_digest(c.files["analysis"], receipt.passed, c.files["html"], c.files["png"], receipt.stages)
    IN /\ result = c.manifest.result /\ result = receipt.result_digest
       /\ receipt.evidence.replay.result = result

(* Faulty variant: the stored trust report is not compared.                *)
verify_nagoya_capsule_unreported(c, expected) ==
    /\ InventoryHolds(c) /\ OperationalHolds(c) /\ PolicyHolds(c, expected) /\ AssuranceHolds(c)
    /\ TrustHolds(c) /\ IdentitiesAgree(c) /\ ReplayHolds(c) /\ ResultHolds(c)

verify_nagoya_capsule(c, expected) ==
    /\ InventoryHolds(c)
    /\ OperationalHolds(c)
    /\ PolicyHolds(c, expected)
    /\ AssuranceHolds(c)
    /\ TrustHolds(c)
    /\ IdentitiesAgree(c)
    /\ ReportHolds(c)
    /\ ReplayHolds(c)
    /\ ResultHolds(c)

-----------------------------------------------------------------------------
(* Semantic differences                                                    *)

Leaf(v) == [kind |-> "leaf", of |-> v]
Object(fields) == [kind |-> "object", of |-> fields]
Array(items) == [kind |-> "array", of |-> items]

RuntimeKeys == {"id", "workflow_id", "command_id", "command_timestamp", "timestamp", "retrieved_at", "observed_at",
                "retrieval_events", "state_digest"}

RECURSIVE strip_diff_runtime(_)
strip_diff_runtime(value) ==
    CASE value.kind = "leaf" -> value
      [] value.kind = "array" -> Array([i \in DOMAIN value.of |-> strip_diff_runtime(value.of[i])])
      [] value.kind = "object" ->
            Object([k \in DOMAIN value.of \ RuntimeKeys |-> strip_diff_runtime(value.of[k])])

push_leaf_change(pointer, kind) == {[path |-> pointer, kind |-> kind]}

RECURSIVE diff_json(_, _, _)

(* Faulty variant: only the members of the old value are walked.           *)
diff_members_ofOld(old, new, pointer) ==
    UNION {IF k \in DOMAIN new.of THEN diff_json(old.of[k], new.of[k], Append(pointer, k))
           ELSE push_leaf_change(Append(pointer, k), "Removed") : k \in DOMAIN old.of}

(* The members of two objects, or of two arrays, by key or by index.       *)
diff_members(old, new, pointer) ==
    UNION {IF k \notin DOMAIN new.of THEN push_leaf_change(Append(pointer, k), "Removed")
           ELSE IF k \notin DOMAIN old.of THEN push_leaf_change(Append(pointer, k), "Added")
           ELSE diff_json(old.of[k], new.of[k], Append(pointer, k)) : k \in DOMAIN old.of \cup DOMAIN new.of}

diff_json(old, new, pointer) ==
    IF old.kind = new.kind /\ old.kind # "leaf" THEN diff_members(old, new, pointer)
    ELSE IF old.kind = new.kind /\ old.of = new.of THEN {}
    ELSE push_leaf_change(pointer, "Modified")

(* Faulty variant: the roles of operational evidence are not known.        *)
category_for_v1(r) ==
    CASE r = "verification-policy" -> "Policy"
      [] r \in {"verification-graph", "trust-report"} -> "Verification"
      [] r = "source-assurance" -> "Source"
      [] r = "map-artifact" -> "Artifact"
      [] r \in {"command", "workflow", "execution-receipt"} -> "Workflow"
      [] r = "analysis-result" -> "Result"
      [] OTHER -> "Unclassified"

(* The member's path refines the category of the larger documents; only    *)
(* the role decides whether a change is classified at all.                 *)
category_for(r) ==
    CASE r = "verification-policy" -> "Policy"
      [] r \in {"verification-graph", "trust-report", "trust-ux-report"} -> "Verification"
      [] r = "source-assurance" -> "Source"
      [] r = "map-artifact" -> "Artifact"
      [] r \in {"adapter-receipt", "edit-receipt", "io-receipt", "command", "workflow", "execution-receipt"} -> "Workflow"
      [] r = "analysis-result" -> "Result"
      [] OTHER -> "Unclassified"

(* A JSON subject as the comparison reads it.                              *)
Stripped(r, value) ==
    CASE r \in {"command", "workflow", "execution-receipt"} -> [f \in DOMAIN value \ RuntimeKeys |-> value[f]]
      [] r = "analysis-result" -> [rows |-> value.rows, steps |-> value.workflow.steps]
      [] OTHER -> value

(* One change for every subject that differs (its differing members are    *)
(* those of diff_json), and one for the result itself.                     *)
diff_capsules(old, new) ==
    LET At(c) == [p \in {c.manifest.entries[i].path : i \in DOMAIN c.manifest.entries} |->
                     c.manifest.entries[CHOOSE i \in DOMAIN c.manifest.entries : c.manifest.entries[i].path = p]]
        was == At(old)
        is == At(new)
        Differs(p) == /\ was[p].sha256 # is[p].sha256
                      /\ was[p].json /\ is[p].json =>
                            Stripped(was[p].role, old.files[p]) # Stripped(was[p].role, new.files[p])
        Change(p, e, kind) == [path |-> p, category |-> category_for(e.role), kind |-> kind]
    IN {Change(p, was[p], "Modified") : p \in {q \in DOMAIN was \cap DOMAIN is : Differs(q)}}
       \cup {Change(p, was[p], "Removed") : p \in DOMAIN was \ DOMAIN is}
       \cup {Change(p, is[p], "Added") : p \in DOMAIN is \ DOMAIN was}
       \cup (IF old.manifest.result = new.manifest.result THEN {}
             ELSE {[path |-> "subject_result_digest", category |-> "Result", kind |-> "Modified"]})

-----------------------------------------------------------------------------
(* Review and approval                                                     *)

NagoyaNodes == {"resolve-place", "find-boundary", "find-population", "load-boundary", "load-population",
                "normalize-schema", "reproject-for-area", "calculate-area-km2", "join-population-to-geometry",
                "calculate-density", "generate-choropleth", "verify-units", "render-map", "attach-sources"}

(* Faulty variant: the area check points at a step that was renamed.       *)
workflow_nodes_for_check_renamed(check, nodes) ==
    nodes \cap (CASE check = "source_checksum" -> {"load-boundary", "load-population"}
                  [] check = "population_total_oracle" -> {"load-population", "join-population-to-geometry"}
                  [] check = "ward_coverage_oracle" -> {"normalize-schema", "join-population-to-geometry"}
                  [] check = "area_oracle_relative_error" -> {"reproject", "calculate-area"}
                  [] check = "density_oracle" -> {"calculate-density"}
                  [] OTHER -> {})

workflow_nodes_for_check(check, nodes) ==
    nodes \cap (CASE check = "source_checksum" -> {"load-boundary", "load-population"}
                  [] check = "population_total_oracle" -> {"load-population", "join-population-to-geometry"}
                  [] check = "ward_coverage_oracle" -> {"normalize-schema", "join-population-to-geometry"}
                  [] check = "area_oracle_relative_error" -> {"reproject-for-area", "calculate-area-km2"}
                  [] check = "density_oracle" -> {"calculate-density"}
                  [] OTHER -> {})

actionable_failure(check, nodes) == [check |-> check, affected |-> workflow_nodes_for_check(check, nodes)]

(* A capsule that does not verify is shown with the failures it stores.    *)
review_capsule(c, expected) ==
    LET verified == verify_nagoya_capsule(c, expected)
        raw == IF verified THEN assess(c.files["policy"], c.files["receipt"].evidence).failures
               ELSE c.files["receipt"].trust.failures
    IN [verified |-> verified, integrity_error |-> ~verified,
        failures |-> {actionable_failure(check, NagoyaNodes) : check \in raw},
        claims |-> [check \in c.files["graph"] |-> check \in c.files["receipt"].evidence.passed]]

(* Faulty variant: the inventory itself is not part of the approval.       *)
approval_context_unlisted(c, diff) ==
    [result |-> c.manifest.result, workflow |-> stable_digest(c.files["workflow"]),
     policy |-> digest(c.files["policy"]), graph |-> digest(c.files["graph"]), diff |-> digest(diff)]

(* Reads the manifest and three subjects; it verifies nothing.             *)
approval_context(c, diff) ==
    [manifest |-> digest(c.manifest), result |-> c.manifest.result, workflow |-> stable_digest(c.files["workflow"]),
     policy |-> digest(c.files["policy"]), graph |-> digest(c.files["graph"]), diff |-> digest(diff)]

create_approval(c, diff) == approval_context(c, diff)
verify_approval(c, approval, diff) == approval = approval_context(c, diff)

-----------------------------------------------------------------------------
(* Every capsule sealed from a consistent result verifies, under its own   *)
(* policy, with and without operational evidence, however many of its      *)
(* sources carry assurances (seal_capsule against verify_nagoya_capsule).  *)
SealedCapsulesVerify(result, evidence) ==
    validate_operational_evidence_set(evidence, FALSE) =>
        verify_nagoya_capsule(seal_capsule(result, evidence), {result.receipt.policy})

(* A directory assembled from the files of two capsules, with an inventory *)
(* that lists what it holds, verifies only if its subjects are those of    *)
(* one of the two; the identifier inside the analysis is not bound.        *)
Mixed(a, b, from_b) ==
    LET Pick(p) == IF p \in from_b THEN b.files[p] ELSE a.files[p]
        entries == a.manifest.entries
    IN [manifest |-> [result |-> IF "receipt" \in from_b THEN b.manifest.result ELSE a.manifest.result,
                      entries |-> [i \in DOMAIN entries |->
                          [entries[i] EXCEPT !.sha256 = digest(Pick(entries[i].path))]]],
        files |-> [p \in DOMAIN a.files |-> Pick(p)]]

MixedCapsulesFail(a, b, from_b) ==
    LET mixed == Mixed(a, b, from_b)
        Same(c) == \A p \in Required : IF p = "analysis" THEN mixed.files[p].rows = c.files[p].rows
                                       ELSE mixed.files[p] = c.files[p]
    IN verify_nagoya_capsule(mixed, {}) => Same(a) \/ Same(b)

(* An approval of one capsule holds for another one that verifies only if  *)
(* every listed subject is the one that was approved.                      *)
ApprovalPinsSubjects(a, b, diff) ==
    verify_approval(b, create_approval(a, diff), diff) /\ verify_nagoya_capsule(b, {}) =>
        \A i \in DOMAIN a.manifest.entries :
            digest(b.files[a.manifest.entries[i].path]) = a.manifest.entries[i].sha256

(* The difference of two documents is empty exactly when they agree apart  *)
(* from what differs on every run, and is the other way round when they    *)
(* are exchanged (strip_diff_runtime, diff_json).                          *)
DocumentDiffIsExact(old, new) ==
    LET was == strip_diff_runtime(old)
        is == strip_diff_runtime(new)
        Reversed(c) == [c EXCEPT !.kind = CASE c.kind = "Added" -> "Removed" [] c.kind = "Removed" -> "Added"
                                            [] OTHER -> "Modified"]
    IN /\ (diff_json(was, is, <<>>) = {}) <=> (was.kind = is.kind /\ was.of = is.of)
       /\ diff_json(is, was, <<>>) = {Reversed(c) : c \in diff_json(was, is, <<>>)}

(* The difference of two sealed capsules leaves no subject unclassified,   *)
(* and is empty only for the same result, artifacts and evidence.          *)
CapsuleDiffIsClassified(a, b) ==
    /\ \A change \in diff_capsules(a, b) : change.category # "Unclassified"
    /\ diff_capsules(a, b) = {} =>
          /\ \A p \in Required \ {"analysis", "command", "workflow", "receipt"} : a.files[p] = b.files[p]
          /\ a.files["analysis"].rows = b.files["analysis"].rows
          /\ a.files["receipt"].evidence = b.files["receipt"].evidence

(* Every failure a review shows names a step of the workflow that was run. *)
FailuresNameSteps(c) ==
    \A failure \in review_capsule(c, {}).failures : failure.affected # {}
=============================================================================
