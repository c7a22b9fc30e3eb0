--------------------------- MODULE MCLiveOperations ---------------------------
EXTENDS LiveOperations, TLC

FreshnessPolicy(allowed_lateness, reject_stale) ==
    [max_age |-> 1, allowed_lateness |-> allowed_lateness, max_page_size |-> 2,
     max_retained_observations |-> 2, reject_stale |-> reject_stale]
MCPolicies == {FreshnessPolicy(0, TRUE), FreshnessPolicy(1, FALSE)}

Rule(kind) == [kind |-> kind, field |-> "value", threshold |-> 1,
               mean |-> 0, standard_deviation |-> 1]
MCRules == {[rule |-> Rule("greater_than_or_equal"), require_fresh |-> TRUE],
            [rule |-> Rule("z_score"), require_fresh |-> FALSE]}

Symmetry == Permutations(AckIds)
=============================================================================
