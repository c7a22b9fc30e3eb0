----------------------------- MODULE Federation -----------------------------
(***************************************************************************)
(* Federated STAC search, asset comparison and binding (crates/genegis-    *)
(* catalog/src/federated.rs) and the admission of private catalogs         *)
(* (private.rs).  Endpoints are [id, url, auth]; what an endpoint answers  *)
(* is a parameter.  An item is [collection, id, bbox, metadata, assets];   *)
(* identifiers are sequences of path parts, because the key joins the      *)
(* collection and the identifier; a bounding box is an interval.           *)
(***************************************************************************)
EXTENDS Integers, Sequences, FiniteSets, FiniteSetsExt, SequencesExt

NoCollection == 0
NoLimit == -1
Anywhere == <<>>

(* Authentication is "anonymous" or the variable that holds the secret.    *)
StacEndpoint(id, url, authentication) == [id |-> id, url |-> url, auth |-> authentication]

StacSearchRequest(bbox, collections, limit) == [bbox |-> bbox, collections |-> collections, limit |-> limit]

AssetRequirements(media_types, bbox, require_metadata) ==
    [media_types |-> media_types, bbox |-> bbox, require_metadata |-> require_metadata]

(* A registration replaces the endpoint of the same identifier, and moves  *)
(* it to the end of the list.                                              *)
register(endpoints, endpoint) ==
    Append(SelectSeq(endpoints, LAMBDA e : e.id # endpoint.id), endpoint)

item_key(item) ==
    IF item.collection = NoCollection THEN item.id ELSE <<item.collection>> \o item.id

bbox_intersects(a, b) == a[1] <= b[2] /\ a[2] >= b[1]

matches_request(item, request) ==
    /\ request.bbox # Anywhere => bbox_intersects(item.bbox, request.bbox)
    /\ request.collections # {} => item.collection \in request.collections

(* A secret named by the endpoint must be set in the environment; a body   *)
(* that is not a feature collection is an error like any other.            *)
authentication_headers(endpoint, environment) == endpoint.auth \in environment \cup {"anonymous"}

search_endpoint(endpoint, request, answers, environment) ==
    IF ~authentication_headers(endpoint, environment) \/ ~answers[endpoint.id].ok
    THEN [ok |-> FALSE, items |-> <<>>]
    ELSE [ok |-> TRUE,
          items |-> SelectSeq(answers[endpoint.id].items, LAMBDA i : matches_request(i, request))]

LessKey(k, l) ==
    \E n \in 1..(Len(l)) : /\ \A m \in 1..(n - 1) : m <= Len(k) /\ k[m] = l[m]
                           /\ n > Len(k) \/ k[n] < l[n]

(* Faulty variant: the items stay in the order they were met.              *)
MergedItems_byArrival(endpoints, request, answers, environment) ==
    LET Answered(k) == search_endpoint(endpoints[k], request, answers, environment).items
        all == FlattenSeq([k \in DOMAIN endpoints |->
                   [j \in DOMAIN Answered(k) |-> [from |-> endpoints[k].id, item |-> Answered(k)[j]]]])
        OfKey(key) == SelectSeq(all, LAMBDA a : item_key(a.item) = key)
        first == {i \in DOMAIN all : \A j \in 1..(i - 1) : item_key(all[j].item) # item_key(all[i].item)}
        keys == [n \in 1..Cardinality(first) |-> item_key(all[SetToSortSeq(first, <)[n]].item)]
    IN [i \in DOMAIN keys |->
           [key |-> keys[i], item |-> Head(OfKey(keys[i])).item,
            source_endpoints |-> [j \in DOMAIN OfKey(keys[i]) |-> OfKey(keys[i])[j].from]]]

(* Every item of every answer, in endpoint order: the first payload of a   *)
(* key is kept, every further answer adds its endpoint.                    *)
MergedItems(endpoints, request, answers, environment) ==
    LET Answered(k) == search_endpoint(endpoints[k], request, answers, environment).items
        all == FlattenSeq([k \in DOMAIN endpoints |->
                   [j \in DOMAIN Answered(k) |-> [from |-> endpoints[k].id, item |-> Answered(k)[j]]]])
        keys == SetToSortSeq({item_key(all[i].item) : i \in DOMAIN all}, LessKey)
        OfKey(key) == SelectSeq(all, LAMBDA a : item_key(a.item) = key)
    IN [i \in DOMAIN keys |->
           [key |-> keys[i], item |-> Head(OfKey(keys[i])).item,
            source_endpoints |-> [j \in DOMAIN OfKey(keys[i]) |-> OfKey(keys[i])[j].from]]]

Truncated(items, limit) ==
    IF limit = NoLimit \/ limit >= Len(items) THEN items ELSE SubSeq(items, 1, limit)

(* Faulty variant: the first failure ends the search.                      *)
search_with_policy_stops(endpoints, request, answers, environment) ==
    LET ok == {k \in DOMAIN endpoints : \A j \in 1..k : search_endpoint(endpoints[j], request, answers, environment).ok}
    IN [items |-> Truncated(MergedItems(SubSeq(endpoints, 1, Cardinality(ok)), request, answers, environment),
                            request.limit),
        outcomes |-> [k \in DOMAIN endpoints |->
           LET answer == search_endpoint(endpoints[k], request, answers, environment)
           IN [id |-> endpoints[k].id, url |-> endpoints[k].url, ok |-> answer.ok,
               matched |-> Len(answer.items)]]]

search_with_policy(endpoints, request, answers, environment) ==
    [items |-> Truncated(MergedItems(endpoints, request, answers, environment), request.limit),
     outcomes |-> [k \in DOMAIN endpoints |->
        LET answer == search_endpoint(endpoints[k], request, answers, environment)
        IN [id |-> endpoints[k].id, url |-> endpoints[k].url, ok |-> answer.ok,
            matched |-> Len(answer.items)]]]

successful_endpoints(result) == Len(SelectSeq(result.outcomes, LAMBDA o : o.ok))
failed_endpoints(result) == Len(result.outcomes) - successful_endpoints(result)

-----------------------------------------------------------------------------
(* Comparison.  An asset is [media, data]; metadata says whether the item  *)
(* declares its CRS, units and license.                                    *)

MediaRank(requirements, media) ==
    LET at == {i \in DOMAIN requirements.media_types : requirements.media_types[i] = media}
    IN IF at = {} THEN 0 ELSE 100 - 10 * (Min(at) - 1)

(* Faulty variant: the license is not among the metadata an asset needs.   *)
compatible_unlicensed(found, asset, requirements) ==
    /\ \E i \in DOMAIN requirements.media_types : requirements.media_types[i] = asset.media
    /\ asset.data
    /\ requirements.bbox # Anywhere => bbox_intersects(found.item.bbox, requirements.bbox)
    /\ requirements.require_metadata => {"crs", "units"} \subseteq found.item.metadata

(* The verifications of a candidate, all of which must pass.               *)
compatible(found, asset, requirements) ==
    /\ \E i \in DOMAIN requirements.media_types : requirements.media_types[i] = asset.media
    /\ asset.data
    /\ requirements.bbox # Anywhere => bbox_intersects(found.item.bbox, requirements.bbox)
    /\ requirements.require_metadata => {"crs", "units", "license"} \subseteq found.item.metadata

AssetCandidate(found, name, requirements) ==
    LET asset == found.item.assets[name]
        fits == compatible(found, asset, requirements)
    IN [key |-> found.key, asset |-> name, source_endpoints |-> found.source_endpoints,
        compatible |-> fits,
        score |-> MediaRank(requirements, asset.media) + (IF asset.data THEN 20 ELSE 0)
                  + 5 * Len(found.source_endpoints) + (IF fits THEN 1000 ELSE 0)]

Better(c, d) ==
    \/ c.score > d.score
    \/ c.score = d.score /\ LessKey(c.key, d.key)
    \/ c.score = d.score /\ c.key = d.key /\ c.asset < d.asset

Candidates(result, requirements) ==
    UNION {{AssetCandidate(result.items[i], name, requirements) : name \in DOMAIN result.items[i].item.assets} :
              i \in DOMAIN result.items}

Unbound == [bound |-> FALSE]

compare_and_bind(result, requirements) ==
    LET ranked == SetToSortSeq(Candidates(result, requirements), Better)
        fitting == SelectSeq(ranked, LAMBDA c : c.compatible)
    IN IF fitting = <<>> THEN Unbound
       ELSE LET selected == Head(fitting)
                used == SelectSeq(result.outcomes, LAMBDA o : o.id \in ToSet(selected.source_endpoints))
            IN [bound |-> TRUE, selected |-> selected, candidates |-> ranked,
                source_urls |-> [i \in DOMAIN used |-> used[i].url]]

-----------------------------------------------------------------------------
(* Private catalogs.  A policy is a function from endpoint identifiers to  *)
(* [visibility, organization, subjects, roles]; a digest is what it is     *)
(* computed from.                                                          *)

NoOrganization == "no organization"

CatalogAccessRule(visibility, organization, subjects, roles) ==
    [visibility |-> visibility, organization |-> organization, subjects |-> subjects, roles |-> roles]

visible(rule, context) ==
    CASE rule.visibility = "Public" -> TRUE
      [] rule.visibility = "Local" -> rule.organization = context.organization
      [] rule.visibility = "OrganizationPrivate" ->
            /\ rule.organization = context.organization
            /\ context.subject \in rule.subjects \/ rule.roles \cap context.roles # {}

validate(endpoints, policy) ==
    /\ \A i, j \in DOMAIN endpoints : endpoints[i].id = endpoints[j].id => i = j
    /\ {endpoints[i].id : i \in DOMAIN endpoints} = DOMAIN policy
    /\ \A id \in DOMAIN policy :
          policy[id].visibility = "Public" <=> policy[id].organization = NoOrganization

Refused == [admitted |-> FALSE]

(* Faulty variant: the digest covers the endpoints that were asked for.    *)
admission_digest_ofAll(admission, endpoints) == <<admission, endpoints>>
(* The result with its digest left out.                                    *)
admission_digest(admission, endpoints) == <<admission>>

admit_private_federation(endpoints, policy, context) ==
    LET seen == SelectSeq(endpoints, LAMBDA e : visible(policy[e.id], context))
        sorted == SetToSortSeq(ToSet(seen), LAMBDA a, b : a.id < b.id)
        admission == [admitted |-> TRUE, policy_digest |-> policy, subject |-> context.subject,
                      endpoints |-> [i \in DOMAIN sorted |->
                          [endpoint |-> sorted[i], visibility |-> policy[sorted[i].id].visibility,
                           identity |-> sorted[i]]],
                      denied |-> Len(endpoints) - Len(seen)]
    IN IF ~validate(endpoints, policy) THEN Refused
       ELSE [admission |-> admission, digest |-> admission_digest(admission, endpoints), admitted |-> TRUE]

verify_private_federation_admission(result) ==
    /\ \A i \in DOMAIN result.admission.endpoints :
          result.admission.endpoints[i].endpoint = result.admission.endpoints[i].identity
    /\ result.digest = admission_digest(result.admission, <<>>)

(* The coordinator that searches only what was admitted.                   *)
federated_catalog(result) ==
    FoldLeft(LAMBDA catalog, e : register(catalog, e.endpoint), <<>>, result.admission.endpoints)

-----------------------------------------------------------------------------
(* A search over endpoints some of which fail finds, ranks and binds what  *)
(* a search over the others alone would: one failure hides nothing else,   *)
(* and every endpoint has its outcome.                                     *)
FailuresAreIsolated(endpoints, request, requirements, answers, environment) ==
    LET result == search_with_policy(endpoints, request, answers, environment)
        working == SelectSeq(endpoints, LAMBDA e : search_endpoint(e, request, answers, environment).ok)
        alone == search_with_policy(working, request, answers, environment)
    IN /\ result.items = alone.items
       /\ compare_and_bind(result, requirements) = compare_and_bind(alone, requirements)
       /\ failed_endpoints(result) = Len(endpoints) - Len(working)

Agree(answers) ==
    \A id, jd \in DOMAIN answers : \A i \in DOMAIN answers[id].items, j \in DOMAIN answers[jd].items :
        item_key(answers[id].items[i]) = item_key(answers[jd].items[j]) =>
            answers[id].items[i] = answers[jd].items[j]

(* When the endpoints agree on what they both serve, the order they were   *)
(* registered in decides neither the items nor the asset that is bound,    *)
(* limits included.                                                        *)
EndpointOrderIsIrrelevant(endpoints, request, requirements, answers, environment) ==
    Agree(answers) =>
        LET Found(es) == search_with_policy(es, request, answers, environment)
            Binding(es) == compare_and_bind(Found(es), requirements)
            one == Found(endpoints)
            other == Found(Reverse(endpoints))
        IN /\ [i \in DOMAIN one.items |-> one.items[i].item] = [i \in DOMAIN other.items |-> other.items[i].item]
           /\ Binding(endpoints).bound = Binding(Reverse(endpoints)).bound
           /\ Binding(endpoints).bound =>
                 /\ Binding(endpoints).selected.key = Binding(Reverse(endpoints)).selected.key
                 /\ Binding(endpoints).selected.asset = Binding(Reverse(endpoints)).selected.asset

(* What is bound declares all that was required, the receipt names exactly *)
(* the endpoints that returned the item, and no asset that fits has a      *)
(* media type preferred to it unless more endpoints vouch for the one      *)
(* bound.                                                                  *)
BindingIsJustified(endpoints, request, requirements, answers, environment) ==
    LET result == search_with_policy(endpoints, request, answers, environment)
        binding == compare_and_bind(result, requirements)
        chosen == CHOOSE i \in DOMAIN result.items : result.items[i].key = binding.selected.key
        item == result.items[chosen].item
        asset == item.assets[binding.selected.asset]
    IN binding.bound =>
        /\ requirements.require_metadata => item.metadata = {"crs", "units", "license"}
        /\ requirements.bbox # Anywhere => bbox_intersects(item.bbox, requirements.bbox)
        /\ ToSet(binding.source_urls) =
              {endpoints[k].url : k \in {k \in DOMAIN endpoints :
                  LET found == search_endpoint(endpoints[k], request, answers, environment).items
                  IN \E j \in DOMAIN found : item_key(found[j]) = binding.selected.key}}
        /\ \A i \in DOMAIN result.items : \A name \in DOMAIN result.items[i].item.assets :
              /\ compatible(result.items[i], result.items[i].item.assets[name], requirements)
              /\ Len(result.items[i].source_endpoints) >= Len(result.items[chosen].source_endpoints)
              => MediaRank(requirements, asset.media) >=
                    MediaRank(requirements, result.items[i].item.assets[name].media)

(* A caller learns nothing of an endpoint it may not see: whatever its     *)
(* address and credentials are, the admission, its digest and what is      *)
(* searched afterwards are the same.                                       *)
DeniedEndpointsDiscloseNothing(endpoints, others, policy, context) ==
    LET one == admit_private_federation(endpoints, policy, context)
        two == admit_private_federation(others, policy, context)
    IN /\ one # Refused =>
             /\ verify_private_federation_admission(one)
             /\ \A i \in DOMAIN federated_catalog(one) : visible(policy[federated_catalog(one)[i].id], context)
       /\ /\ one # Refused /\ two # Refused
          /\ SelectSeq(endpoints, LAMBDA e : visible(policy[e.id], context))
                = SelectSeq(others, LAMBDA e : visible(policy[e.id], context))
          => one = two
=============================================================================
