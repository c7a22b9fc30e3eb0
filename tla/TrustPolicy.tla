---------------------------- MODULE TrustPolicy ----------------------------
(***************************************************************************)
(* How far a result may be trusted: the verification policy and the level  *)
(* it derives from evidence (crates/genegis-contract/src/policy.rs), the   *)
(* assurance dossier of a source (source_assurance.rs), the verification   *)
(* graph bound to a policy (verification.rs), and the release policy of    *)
(* the Nagoya density result (genegis-analysis/src/nagoya.rs).  A digest   *)
(* or identifier is reduced to whether it is well formed; a list searched  *)
(* with find keeps its order, because the first match is the one judged.   *)
(***************************************************************************)
EXTENDS Integers, Sequences, FiniteSets, FiniteSetsExt, SequencesExt

First(list, Test(_)) == LET hits == SelectSeq(list, Test) IN IF hits = <<>> THEN <<>> ELSE <<Head(hits)>>

NoDuplicates(list, Key(_)) ==
    \A i, j \in DOMAIN list : Key(list[i]) = Key(list[j]) => i = j

-----------------------------------------------------------------------------
(* Source assurance.  A dossier is [identity, authority, age, checks,      *)
(* uncertainty, limitations, disputes, corroborations]; age is -1 when it  *)
(* or the publication date is unknown.                                     *)

AssuranceLevels == <<"Unassessed", "Identified", "Checked", "Corroborated">>

AuthorityAndAge(policy, dossier) ==
    /\ policy.authorities # {} => dossier.authority \in policy.authorities
    /\ policy.max_age >= 0 => dossier.age \in 0..policy.max_age

(* Every check must be replayable; the first of each required kind must    *)
(* have passed.                                                            *)
ChecksReplayable(dossier) ==
    /\ NoDuplicates(dossier.checks, LAMBDA c : c.id)
    /\ \A i \in DOMAIN dossier.checks : dossier.checks[i].replayable

RequiredKinds(policy, dossier) ==
    \A kind \in policy.kinds :
        LET found == First(dossier.checks, LAMBDA c : c.kind = kind)
        IN found # <<>> /\ Head(found).passed

Documented(policy, dossier) ==
    /\ policy.uncertainty => dossier.uncertainty
    /\ policy.limitations => dossier.limitations
    /\ ~policy.disputes => dossier.disputes = 0

Independent(dossier) ==
    Len(SelectSeq(dossier.corroborations, LAMBDA c : c.independent /\ c.agrees /\ c.digests /\ ~c.own))

assess_assurance(policy, dossier) ==
    CASE ~dossier.identity -> [level |-> 1, passed |-> FALSE]
      [] dossier.identity /\ ~(/\ AuthorityAndAge(policy, dossier) /\ ChecksReplayable(dossier)
                               /\ RequiredKinds(policy, dossier) /\ Documented(policy, dossier)) ->
            [level |-> 2, passed |-> FALSE]
      [] OTHER -> IF Independent(dossier) < policy.corroborations THEN [level |-> 3, passed |-> FALSE]
                  ELSE [level |-> IF policy.corroborations > 0 THEN 4 ELSE 3, passed |-> TRUE]

-----------------------------------------------------------------------------
(* The policy.  A requirement is [id, classes, max]; max = -1 states no    *)
(* tolerance.  Levels are numbered 1 Exploratory, 2 Replayable, 3 Verified,*)
(* 4 Attested.                                                             *)

TrustLevels == <<"Exploratory", "Replayable", "Verified", "Attested">>
Unlimited == -1

validate_policy(policy) ==
    /\ policy.schemas
    /\ NoDuplicates(policy.checks, LAMBDA c : c.id)
    /\ \A i \in DOMAIN policy.checks : policy.checks[i].classes # {}

replay_failures(policy, replay) == ~(replay.identities /\ replay.artifacts >= policy.artifacts)

ContractFails(policy, evidence) ==
    \E required \in policy.contracts :
        LET found == First(evidence.contracts, LAMBDA c : c.id = required)
        IN found = <<>> \/ ~Head(found).compatible

(* A dossier is bound to the admitted bytes and to its own digest.         *)
SourceFails(policy, source) ==
    \/ policy.verified /\ ~source.verified
    \/ policy.version /\ ~source.version
    \/ policy.license /\ ~source.license
    \/ \E d \in source.dossier : ~d.bound
    \/ /\ policy.assurance # {}
       /\ \/ source.dossier = {}
          \/ \E d \in source.dossier, p \in policy.assurance :
                ~d.names_source \/ ~assess_assurance(p, d.assurance).passed

SourcesFail(policy, evidence) ==
    \/ \E s \in evidence.sources : SourceFails(policy, s)
    \/ (policy.verified \/ policy.version \/ policy.license) /\ evidence.sources = {}

CheckFails(requirement, evidence) ==
    LET found == First(evidence.checks, LAMBDA c : c.id = requirement.id)
        check == Head(found)
    IN \/ found = <<>>
       \/ ~check.passed
       \/ check.class \notin requirement.classes
       \/ ~check.digest
       \/ requirement.max # Unlimited /\ ~(check.error >= 0 /\ check.error <= requirement.max)

verification_failures(policy, evidence) ==
    \/ ContractFails(policy, evidence)
    \/ SourcesFail(policy, evidence)
    \/ \E i \in DOMAIN policy.checks : CheckFails(policy.checks[i], evidence)

attestation_failures(policy, attestation) ==
    ~(\E a \in attestation : a.signature_verified /\ a.signer \in policy.attesters)

(* Faulty variant: a policy that names no attester leaves nothing to fail. *)
assess_attestsByDefault(policy, evidence) ==
    CASE ~validate_policy(policy) \/ replay_failures(policy, evidence.replay) -> 1
      [] verification_failures(policy, evidence) -> 2
      [] policy.attesters # {} /\ attestation_failures(policy, evidence.attestation) -> 3
      [] OTHER -> 4

assess(policy, evidence) ==
    IF ~validate_policy(policy) \/ replay_failures(policy, evidence.replay) THEN 1
    ELSE IF verification_failures(policy, evidence) THEN 2
    ELSE IF attestation_failures(policy, evidence.attestation) THEN 3 ELSE 4

-----------------------------------------------------------------------------
(* The verification graph: nodes are [id, class, max, depends].            *)

NodeOf(graph, id) == First(graph, LAMBDA n : n.id = id)

validate_graph(graph) ==
    /\ graph # <<>>
    /\ NoDuplicates(graph, LAMBDA n : n.id)
    /\ \A i \in DOMAIN graph : graph[i].depends \subseteq {graph[j].id : j \in DOMAIN graph} \ {graph[i].id}

(* Kahn's algorithm with an ordered set: the ready check with the smallest *)
(* identifier is next.  Identifiers are numbers here.                      *)
topological_order(graph) ==
    LET ids == {graph[i].id : i \in DOMAIN graph}
        Needs(id) == UNION {graph[i].depends : i \in {j \in DOMAIN graph : graph[j].id = id}}
        order[k \in 0..Cardinality(ids)] ==
            IF k = 0 THEN <<>>
            ELSE LET before == order[k - 1]
                     done == {before[i] : i \in DOMAIN before}
                     ready == {id \in ids \ done : Needs(id) \subseteq done}
                 IN IF ready = {} THEN before ELSE Append(before, Min(ready))
    IN order[Cardinality(ids)]

Acyclic(graph) == Len(topological_order(graph)) = Cardinality({graph[i].id : i \in DOMAIN graph})

(* Faulty variant: a graph without a tolerance is let through.             *)
validate_against_policy_lax(graph, policy) ==
    /\ validate_graph(graph) /\ Acyclic(graph)
    /\ \A i \in DOMAIN policy.checks :
          LET r == policy.checks[i]
              node == NodeOf(graph, r.id)
          IN /\ node # <<>>
             /\ Head(node).class \in r.classes
             /\ r.max # Unlimited => Head(node).max <= r.max

validate_against_policy(graph, policy) ==
    /\ validate_graph(graph) /\ Acyclic(graph)
    /\ \A i \in DOMAIN policy.checks :
          LET r == policy.checks[i]
              node == NodeOf(graph, r.id)
          IN /\ node # <<>>
             /\ Head(node).class \in r.classes
             /\ r.max # Unlimited => Head(node).max # Unlimited /\ Head(node).max <= r.max

(* Only the listing order is left out of the digest.                       *)
stable_digest(graph) == {graph[i] : i \in DOMAIN graph}

-----------------------------------------------------------------------------
(* The Nagoya result: wards with population and area against the published *)
(* ones.  A result is [wards, verified, duckdb, source]; wards is a list   *)
(* of [code, population, area]; an area of 0 is a degenerate ring.         *)

PpmLimit == 5000
Huge == 2000000000

(* Faulty variant: the error is truncated and one is added.                *)
relative_error_ppm_plusOne(actual, expected) ==
    LET gap == IF actual > expected THEN actual - expected ELSE expected - actual
    IN IF expected = 0 THEN Huge ELSE (gap * 1000000) \div expected + 1

relative_error_ppm(actual, expected) ==
    LET gap == IF actual > expected THEN actual - expected ELSE expected - actual
    IN IF expected = 0 THEN Huge ELSE (gap * 1000000 + expected - 1) \div expected

Total(wards, Of(_)) == FoldSeq(LAMBDA w, sum : Of(w) + sum, 0, wards)

(* Half a percent, without rounding.                                       *)
WithinHalfPercent(actual, expected) ==
    200 * (IF actual > expected THEN actual - expected ELSE expected - actual) <= expected

coverage_valid(oracle, wards) ==
    /\ \A o \in oracle : Cardinality({i \in DOMAIN wards : wards[i].code = o.code}) = 1
    /\ Cardinality({wards[i].code : i \in DOMAIN wards}) = Cardinality(oracle)

ActualOf(wards, code) == wards[CHOOSE i \in DOMAIN wards : wards[i].code = code]

(* A density is population over area, 0 for an empty ward; two densities   *)
(* are compared by cross multiplication.                                   *)
ActualDensity(w, o) == IF w.area = 0 THEN 0 ELSE w.population * o.area
ExpectedDensity(w, o) == IF w.area = 0 THEN o.population * o.area ELSE o.population * w.area

(* build_verification's checks that the policy also requires.              *)
NagoyaChecks(oracle, result) ==
    LET wards == result.wards
        covered == coverage_valid(oracle, wards)
    IN [source_checksum |-> result.verified,
        population_total_oracle |->
            Total(wards, LAMBDA w : w.population) = Total(SetToSeq(oracle), LAMBDA o : o.population),
        ward_coverage_oracle |-> covered,
        area_oracle_relative_error |->
            /\ covered
            /\ WithinHalfPercent(Total(wards, LAMBDA w : w.area), Total(SetToSeq(oracle), LAMBDA o : o.area))
            /\ \A o \in oracle : WithinHalfPercent(ActualOf(wards, o.code).area, o.area),
        density_oracle |->
            covered /\ \A o \in oracle :
                LET w == ActualOf(wards, o.code)
                IN w.population = o.population /\ WithinHalfPercent(ActualDensity(w, o), ExpectedDensity(w, o))]

(* The executor's flag: every check and the DuckDB recomputation.          *)
verify_nagoya_analysis(oracle, result) ==
    /\ result.duckdb
    /\ \A check \in DOMAIN NagoyaChecks(oracle, result) : NagoyaChecks(oracle, result)[check]
    /\ \A i \in DOMAIN result.wards : result.wards[i].population > 0
    /\ Len(result.wards) = Cardinality(oracle)

Required(id, class, max) == [id |-> id, classes |-> {class}, max |-> max]

nagoya_verification_policy ==
    [schemas |-> TRUE, contracts |-> {"boundary", "population", "density"}, artifacts |-> 2,
     verified |-> TRUE, version |-> TRUE, license |-> TRUE, attesters |-> {},
     assurance |-> {[authorities |-> {"CommunityMaintained"}, max_age |-> -1,
                     kinds |-> {"Schema", "Completeness"}, corroborations |-> 2,
                     uncertainty |-> TRUE, limitations |-> TRUE, disputes |-> FALSE]},
     checks |-> << Required("source_checksum", "DomainInvariant", Unlimited),
                   Required("population_total_oracle", "AuthoritativeExternalOracle", 0),
                   Required("ward_coverage_oracle", "AuthoritativeExternalOracle", 0),
                   Required("area_oracle_relative_error", "AuthoritativeExternalOracle", PpmLimit),
                   Required("density_oracle", "AuthoritativeExternalOracle", PpmLimit) >>]

(* The dossier is fixed; it is bound to the snapshot it is made from.      *)
nagoya_source_assurance ==
    [identity |-> TRUE, authority |-> "CommunityMaintained", age |-> 1727,
     checks |-> << [id |-> "schema", kind |-> "Schema", passed |-> TRUE, replayable |-> TRUE],
                   [id |-> "ward-completeness", kind |-> "Completeness", passed |-> TRUE, replayable |-> TRUE] >>,
     uncertainty |-> TRUE, limitations |-> TRUE, disputes |-> 0,
     corroborations |-> [i \in 1..2 |-> [independent |-> TRUE, agrees |-> TRUE, digests |-> TRUE, own |-> FALSE]]]

(* The observed errors: a missing ward makes both unbounded; a repeated    *)
(* code keeps the last of its wards.                                       *)
LastOf(wards, code) == wards[Max({i \in DOMAIN wards : wards[i].code = code})]

LargestError(oracle, wards, Error(_, _)) ==
    IF \E o \in oracle : \A i \in DOMAIN wards : wards[i].code # o.code THEN Huge
    ELSE Max({Error(LastOf(wards, o.code), o) : o \in oracle})

AreaError(w, o) == relative_error_ppm(w.area, o.area)
DensityError(w, o) == relative_error_ppm(ActualDensity(w, o), ExpectedDensity(w, o))

nagoya_verification_observations(oracle, result) ==
    LET checks == NagoyaChecks(oracle, result)
        codes == {result.wards[i].code : i \in DOMAIN result.wards}
        Observed(id, class, error) ==
            [id |-> id, passed |-> checks[id], class |-> class, digest |-> TRUE, error |-> error]
        Oracle(id, error) == Observed(id, "AuthoritativeExternalOracle", error)
    IN << Observed("source_checksum", "DomainInvariant", Unlimited),
          Oracle("population_total_oracle",
                 relative_error_ppm(Total(result.wards, LAMBDA w : w.population),
                                    Total(SetToSeq(oracle), LAMBDA o : o.population))),
          Oracle("ward_coverage_oracle", IF codes = {o.code : o \in oracle} THEN 0 ELSE Huge),
          Oracle("area_oracle_relative_error", LargestError(oracle, result.wards, AreaError)),
          Oracle("density_oracle", LargestError(oracle, result.wards, DensityError)) >>

(* The artifacts are made only for a result whose flag is set.             *)
nagoya_trust_evidence(oracle, result) ==
    [replay |-> [identities |-> TRUE,
                 artifacts |-> IF verify_nagoya_analysis(oracle, result) THEN 2 ELSE 0],
     contracts |-> [i \in 1..3 |-> [id |-> <<"boundary", "population", "density">>[i], compatible |-> TRUE]],
     sources |-> {[verified |-> result.verified, version |-> TRUE, license |-> TRUE,
                   dossier |-> {[bound |-> TRUE, names_source |-> TRUE, assurance |-> nagoya_source_assurance]}]},
     checks |-> nagoya_verification_observations(oracle, result),
     attestation |-> {}]

-----------------------------------------------------------------------------
(* The executor's flag and the policy never disagree, for any wards: the   *)
(* receipt refuses a result where they do (pipeline.rs), so a disagreement *)
(* would lose a right answer.  The two decide by different arithmetic:     *)
(* exact totals and half a percent against parts per million rounded up,   *)
(* first of the wards against last of a repeated code.                     *)
FlagAgreesWithPolicy(oracle, result) ==
    verify_nagoya_analysis(oracle, result) =
        (assess(nagoya_verification_policy, nagoya_trust_evidence(oracle, result)) >= 3)

Stricter(p, q) ==
    /\ q.contracts \subseteq p.contracts /\ p.artifacts >= q.artifacts
    /\ (q.verified => p.verified) /\ (q.version => p.version) /\ (q.license => p.license)
    /\ (q.assurance # {} => p.assurance = q.assurance)
    /\ p.attesters \subseteq q.attesters
    /\ \A j \in DOMAIN q.checks : \E i \in DOMAIN p.checks :
          /\ p.checks[i].id = q.checks[j].id
          /\ p.checks[i].classes \subseteq q.checks[j].classes
          /\ q.checks[j].max # Unlimited => p.checks[i].max \in 0..q.checks[j].max

(* A stricter policy never grants a higher level to the same evidence; in  *)
(* particular a policy that names no attester never grants the highest.    *)
StricterPolicyTrustsLess(p, q, evidence) ==
    Stricter(p, q) /\ validate_policy(q) => assess(p, evidence) <= assess(q, evidence)

(* Evidence that meets every node of a graph bound to a policy, at the     *)
(* graph's own classes and tolerances, meets the policy's checks.          *)
GraphCoversPolicy(graph, policy) ==
    validate_against_policy(graph, policy) =>
        LET evidence == [checks |-> [i \in DOMAIN graph |->
                [id |-> graph[i].id, passed |-> TRUE, class |-> graph[i].class, digest |-> TRUE,
                 error |-> graph[i].max]]]
        IN \A i \in DOMAIN policy.checks : ~CheckFails(policy.checks[i], evidence)
=============================================================================
