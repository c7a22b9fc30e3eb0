----------------------------- MODULE PluginHost -----------------------------
(***************************************************************************)
(* Plugins: the signed registry of releases, solution packs that require   *)
(* releases, and bundles loaded from a directory                           *)
(* (crates/genegis-plugin-api, crates/genegis-plugin-host, their routes    *)
(* and commands).                                                          *)
(*                                                                         *)
(* A manifest is [id, version, api, capabilities, artifact, wasm], with    *)
(* api the major version, the capabilities a sequence, wasm the kind of    *)
(* its entry path.  A signature is [key_id, by, payload]: the key it names,*)
(* the key that made it and what was signed.  A digest is the value it     *)
(* covers.                                                                 *)
(***************************************************************************)
EXTENDS Integers, Sequences, FiniteSets, Functions

CONSTANTS
    Manifests,    \* manifests authors and bundles may have
    Keys,         \* signing keys, each named by its identifier
    Trusted,      \* the keys the registry's policy trusts
    Packs,        \* drafts of solution packs
    Allowed,      \* the capabilities the host grants
    Templates,    \* the reviewed workflow templates
    Wasm,         \* contents a module file may have
    MaxEvents     \* bound on registry operations, admissions and loads

VARIABLES
    registry,     \* release key -> [manifest, manifest_digest, signature, revocation]
    bundle,       \* the files of the bundle directory: [manifest, wasm]
    loading,      \* <<>>, or the manifest a load has read and checked
    events        \* what the host has accepted, in order

pluginVars == <<registry, bundle, loading, events>>

PLUGIN_API_VERSION == 1

-----------------------------------------------------------------------------
(* Manifests and capabilities                                              *)

PluginCapability == {"read_catalog", "read_storage", "analysis_step", "export_artifact"}

is_api_compatible(api) == api > 0 /\ api = PLUGIN_API_VERSION

validate(m) ==
    /\ m.id # "" /\ m.version # ""
    /\ m.capabilities # <<>> /\ IsInjective(m.capabilities)
    /\ m.artifact # "malformed"
    /\ is_api_compatible(m.api)
    /\ m.wasm \in {"none", "relative"}

permissive == PluginCapability
read_only == {"read_catalog", "read_storage"}
effective_capabilities(allow, m) == {c \in Range(m.capabilities) : c \in allow}
validate_manifest(allow, m) == Range(m.capabilities) \subseteq allow

-----------------------------------------------------------------------------
(* Signatures                                                              *)

canonical(m) == <<"manifest", m>>

(* Faulty variant: a revocation does not say which version it is of.       *)
revocation_payload_anyVersion(id, version, reason) == <<"revocation", id, reason>>

revocation_payload(id, version, reason) == <<"revocation", id, version, reason>>

sign(payload, key) == [key_id |-> key, by |-> key, payload |-> payload]

sign_plugin_release(m, key) == sign(canonical(m), key)

revocation_digest(r) == [plugin_id |-> r.plugin_id, version |-> r.version, reason |-> r.reason, signature |-> r.signature]

sign_plugin_revocation(id, version, reason, key) ==
    LET r == [plugin_id |-> id, version |-> version, reason |-> reason,
              signature |-> sign(revocation_payload(id, version, reason), key)]
    IN [plugin_id |-> id, version |-> version, reason |-> reason, signature |-> r.signature,
        revocation_digest |-> revocation_digest(r)]

verify_signed_bytes(signature, payload) ==
    signature.key_id \in Trusted /\ signature.by = signature.key_id /\ signature.payload = payload

-----------------------------------------------------------------------------
(* The registry                                                            *)

release_key(id, version) == <<id, version>>

insert(releases, key, release) ==
    [k \in DOMAIN releases \cup {key} |-> IF k = key THEN release ELSE releases[k]]

(* Faulty variant: a release may be published again.                       *)
publish_again(releases, m, signature) ==
    IF validate(m) /\ verify_signed_bytes(signature, canonical(m))
    THEN [ok |-> TRUE, registry |-> insert(releases, release_key(m.id, m.version),
            [manifest |-> m, manifest_digest |-> m, signature |-> signature, revocation |-> <<>>])]
    ELSE [ok |-> FALSE, registry |-> releases]

publish(releases, m, signature) ==
    IF /\ validate(m)
       /\ verify_signed_bytes(signature, canonical(m))
       /\ release_key(m.id, m.version) \notin DOMAIN releases
    THEN [ok |-> TRUE, registry |-> insert(releases, release_key(m.id, m.version),
            [manifest |-> m, manifest_digest |-> m, signature |-> signature, revocation |-> <<>>])]
    ELSE [ok |-> FALSE, registry |-> releases]

(* A revocation of a release that is not there yet is refused and forgotten.*)
revoke(releases, r) ==
    LET key == release_key(r.plugin_id, r.version)
    IN IF /\ r.reason # "" /\ r.revocation_digest = revocation_digest(r)
          /\ verify_signed_bytes(r.signature, revocation_payload(r.plugin_id, r.version, r.reason))
          /\ key \in DOMAIN releases
          /\ releases[key].revocation = <<>>
       THEN [ok |-> TRUE, registry |-> [releases EXCEPT ![key].revocation = <<r>>]]
       ELSE [ok |-> FALSE, registry |-> releases]

resolve(releases, id, version) ==
    LET key == release_key(id, version)
    IN /\ key \in DOMAIN releases
       /\ releases[key].revocation = <<>>
       /\ releases[key].manifest = releases[key].manifest_digest
       /\ verify_signed_bytes(releases[key].signature, canonical(releases[key].manifest))

verify_artifact(releases, id, version, bytes) ==
    resolve(releases, id, version) /\ releases[release_key(id, version)].manifest.artifact = bytes

-----------------------------------------------------------------------------
(* Solution packs: [id, templates, plugins, formats], the plugins being    *)
(* requirements [plugin_id, version, capabilities].                        *)

validate_draft(p) ==
    /\ p.id # "" /\ p.templates # <<>> /\ p.plugins # <<>>
    /\ IsInjective(p.templates)
    /\ \A i, j \in DOMAIN p.plugins :
         i # j => release_key(p.plugins[i].plugin_id, p.plugins[i].version) # release_key(p.plugins[j].plugin_id, p.plugins[j].version)
    /\ {"genegis-project-json", "workflow-json", "result-capsule"} \subseteq p.formats
    /\ \A i \in DOMAIN p.plugins : p.plugins[i].plugin_id # "" /\ p.plugins[i].version # "" /\ p.plugins[i].capabilities # {}

seal_solution_pack(p) == [draft |-> p, pack_digest |-> p]

verify_solution_pack(pack, releases) ==
    /\ validate_draft(pack.draft) /\ pack.draft = pack.pack_digest
    /\ Range(pack.draft.templates) \subseteq Templates
    /\ \A i \in DOMAIN pack.draft.plugins :
         LET need == pack.draft.plugins[i]
         IN /\ resolve(releases, need.plugin_id, need.version)
            /\ need.capabilities \subseteq Range(releases[release_key(need.plugin_id, need.version)].manifest.capabilities)

-----------------------------------------------------------------------------
(* Bundles                                                                 *)

discover_bundle(m) == validate(m) /\ validate_manifest(Allowed, m)

wasm_path(m) == m.wasm = "relative"

(* Faulty variant: the module that was read is not compared.               *)
load_bundle_unhashed(m, bytes) == wasm_path(m)

load_bundle(m, bytes) == wasm_path(m) /\ bytes = m.artifact /\ bytes # "not wasm"

-----------------------------------------------------------------------------
Init ==
    /\ registry = << >>
    /\ bundle \in [manifest : Manifests, wasm : Wasm]
    /\ loading = <<>>
    /\ events = <<>>

Room == Len(events) < MaxEvents

(* The registry travels with the request and comes back with the receipt;  *)
(* a refused operation returns none, and the caller keeps what it had.     *)
execute_plugin_registry_operation(op, result) ==
    /\ Room /\ result.ok
    /\ registry' = result.registry
    /\ events' = Append(events, op)
    /\ UNCHANGED <<bundle, loading>>

(* Signatures arrive for the release they were made for or another one.    *)
Publish(m, signature) ==
    execute_plugin_registry_operation([kind |-> "publish", id |-> m.id, version |-> m.version],
                                      publish(registry, m, signature))

Revoke(r, id, version) ==
    LET sent == [r EXCEPT !.plugin_id = id, !.version = version]
        stamped == [sent EXCEPT !.revocation_digest = revocation_digest(sent)]
    IN execute_plugin_registry_operation([kind |-> "revoke", id |-> id, version |-> version, meant |-> <<r.plugin_id, r.version>>],
                                         revoke(registry, stamped))

admit_solution_pack_workflow(p) ==
    /\ Room
    /\ verify_solution_pack(seal_solution_pack(p), registry)
    /\ events' = Append(events, [kind |-> "admit", pack |-> p])
    /\ UNCHANGED <<registry, bundle, loading>>

Artifact(id, version, bytes) ==
    /\ Room
    /\ verify_artifact(registry, id, version, bytes)
    /\ events' = Append(events, [kind |-> "artifact", id |-> id, version |-> version, bytes |-> bytes])
    /\ UNCHANGED <<registry, bundle, loading>>

(* A load reads the manifest, checks it, and reads the module afterwards.  *)
Discover ==
    /\ loading = <<>>
    /\ Room
    /\ discover_bundle(bundle.manifest)
    /\ loading' = <<bundle.manifest>>
    /\ UNCHANGED <<registry, bundle, events>>

Load ==
    /\ loading # <<>>
    /\ loading' = <<>>
    /\ events' = IF load_bundle(loading[1], bundle.wasm)
                 THEN Append(events, [kind |-> "load", manifest |-> loading[1], wasm |-> bundle.wasm,
                                      capabilities |-> effective_capabilities(Allowed, loading[1])])
                 ELSE events
    /\ UNCHANGED <<registry, bundle>>

(* Whoever installs plugins replaces one file of the bundle at a time.     *)
Install ==
    /\ \/ \E m \in Manifests : bundle' = [bundle EXCEPT !.manifest = m]
       \/ \E w \in Wasm : bundle' = [bundle EXCEPT !.wasm = w]
    /\ UNCHANGED <<registry, loading, events>>

Releases == {<<m.id, m.version>> : m \in Manifests}

Next ==
    \/ \E m, signed \in Manifests, key \in Keys : Publish(m, sign_plugin_release(signed, key))
    \/ \E from, to \in Releases, key \in Keys :
          Revoke(sign_plugin_revocation(from[1], from[2], "unsafe", key), to[1], to[2])
    \/ \E p \in Packs : admit_solution_pack_workflow(p)
    \/ \E r \in Releases, bytes \in Wasm : Artifact(r[1], r[2], bytes)
    \/ Discover
    \/ Load
    \/ Install

Spec == Init /\ [][Next]_pluginVars

-----------------------------------------------------------------------------
RevokedBefore(k, id, version) == \E j \in 1..(k - 1) : events[j].kind = "revoke" /\ events[j].id = id /\ events[j].version = version

(* Once a release is revoked it stays out of use: whatever is published    *)
(* later, no pack that requires it is admitted and no artifact of it is    *)
(* accepted after the revocation.                                          *)
RevocationIsFinal ==
    \A k \in DOMAIN events :
        /\ events[k].kind = "artifact" => ~RevokedBefore(k, events[k].id, events[k].version)
        /\ events[k].kind = "admit" =>
             \A i \in DOMAIN events[k].pack.plugins :
                 ~RevokedBefore(k, events[k].pack.plugins[i].plugin_id, events[k].pack.plugins[i].version)

(* A signature works only for what it was made for: every release in the   *)
(* registry was signed, as it is, by a trusted key, and every revocation   *)
(* accepted was meant, by a trusted key, for that very version.            *)
SignaturesCoverTheirRelease ==
    /\ \A key \in DOMAIN registry :
         /\ registry[key].signature \in {sign_plugin_release(registry[key].manifest, t) : t \in Trusted}
         /\ registry[key].revocation # <<>> => registry[key].revocation[1].signature.by \in Trusted
    /\ \A k \in DOMAIN events : events[k].kind = "revoke" => events[k].meant = <<events[k].id, events[k].version>>

(* A loaded module is the one its manifest declares and may only do what   *)
(* the host grants, even if the bundle is replaced file by file while it   *)
(* is being loaded.                                                        *)
LoadedAsDeclared ==
    \A k \in DOMAIN events : events[k].kind = "load" =>
        /\ events[k].wasm = events[k].manifest.artifact
        /\ events[k].capabilities = Range(events[k].manifest.capabilities)
        /\ events[k].capabilities \subseteq Allowed
=============================================================================
