----------------------------- MODULE Scenarios -----------------------------
(***************************************************************************)
(* Scenario branches: sealed over one project, compared, and merged under  *)
(* an approval of the comparison (crates/genegis-analysis/src/scenario.rs).*)
(*                                                                         *)
(* A draft is [branch_id, project, workflow, result, assumptions,          *)
(* outcomes]; the last two are functions from names to values.  A sealed   *)
(* branch is [draft, schema, digest].  Digests are what they cover.        *)
(***************************************************************************)
EXTENDS Sequences, FiniteSets, TLC

SCENARIO_SCHEMA_VERSION == "0.1.0"

require_digest(d) == d # "malformed"

(* A value is malformed when its unit is blank, or its area values are     *)
(* missing or not finite.                                                  *)
validate_draft(d) ==
    /\ d.branch_id # "" /\ DOMAIN d.assumptions # {} /\ DOMAIN d.outcomes # {}
    /\ require_digest(d.project) /\ require_digest(d.workflow) /\ require_digest(d.result)
    /\ \A name \in DOMAIN d.assumptions : name # "" /\ d.assumptions[name] # "malformed"
    /\ \A name \in DOMAIN d.outcomes : name # "" /\ d.outcomes[name] # "malformed"

branch_digest(draft, schema) == <<draft, schema>>

seal_branch(d) ==
    [draft |-> d, schema |-> SCENARIO_SCHEMA_VERSION, digest |-> branch_digest(d, SCENARIO_SCHEMA_VERSION)]

(* Faulty variant: the digest a branch carries is not recomputed.          *)
verify_branch_trusted(b) == validate_draft(b.draft) /\ b.schema = SCENARIO_SCHEMA_VERSION

verify_branch(b) ==
    /\ validate_draft(b.draft)
    /\ b.schema = SCENARIO_SCHEMA_VERSION /\ b.digest = branch_digest(b.draft, b.schema)

Value(map, name) == IF name \in DOMAIN map THEN <<map[name]>> ELSE <<>>

(* Faulty variant: only what the base has is compared.                     *)
diff_maps_ofBase(category, base, scenario) ==
    {[category |-> category, name |-> n, base |-> Value(base, n), scenario |-> Value(scenario, n)] :
        n \in {m \in DOMAIN base : Value(base, m) # Value(scenario, m)}}

diff_maps(category, base, scenario) ==
    {[category |-> category, name |-> n, base |-> Value(base, n), scenario |-> Value(scenario, n)] :
        n \in {m \in DOMAIN base \cup DOMAIN scenario : Value(base, m) # Value(scenario, m)}}

Changes(base, scenario) ==
    diff_maps("assumption", base.assumptions, scenario.assumptions)
        \cup diff_maps("outcome", base.outcomes, scenario.outcomes)

Comparable(base, scenario) ==
    /\ verify_branch(base) /\ verify_branch(scenario)
    /\ base.draft.project = scenario.draft.project
    /\ base.digest # scenario.digest

Refusal == [ok |-> FALSE]

compare(base, scenario) ==
    IF Comparable(base, scenario)
    THEN LET diff == [project |-> base.draft.project, base |-> base.digest, scenario |-> scenario.digest,
                      changes |-> Changes(base.draft, scenario.draft)]
         IN [ok |-> TRUE, diff |-> diff, diff_digest |-> diff]
    ELSE Refusal

(* An approval is [reviewer, approved_at, diff_digest, scenario].          *)
ApprovalMatches(comparison, scenario, approval) ==
    approval.diff_digest = comparison.diff_digest /\ approval.scenario = scenario.digest

merge(base, scenario, approval) ==
    LET comparison == compare(base, scenario)
        merged == [base |-> base.draft.project, selected |-> scenario.digest,
                   result |-> scenario.draft.result, diff |-> comparison.diff_digest]
    IN IF comparison.ok /\ ApprovalMatches(comparison, scenario, approval)
       THEN [ok |-> TRUE, reviewer |-> approval.reviewer, approved_at |-> approval.approved_at, merged |-> merged]
       ELSE Refusal

(* Creating, comparing and merging go through the command bus, whose       *)
(* executor does the work again.                                           *)
create_scenario_branch(d) == IF validate_draft(d) THEN [ok |-> TRUE, branch |-> seal_branch(d)] ELSE Refusal

compare_scenarios(base, scenario) ==
    IF verify_branch(base) /\ verify_branch(scenario) THEN compare(base, scenario) ELSE Refusal

merge_reviewed_scenario(base, scenario, approval) ==
    LET comparison == compare(base, scenario)
    IN IF /\ comparison.ok
          /\ approval.reviewer # "" /\ approval.approved_at # "malformed"
          /\ ApprovalMatches(comparison, scenario, approval)
       THEN merge(base, scenario, approval) ELSE Refusal
=============================================================================
