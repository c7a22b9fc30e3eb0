----------------------------- MODULE MCGovernance -----------------------------
EXTENDS Governance, TLC

\* Analysts act, reviewers approve and export, leads do both.
MCRoles == {"analyst", "lead"}
MCCapabilities(r) ==
    IF r = "analyst" THEN {"Execute", "Publish"} ELSE {"Publish", "Approve", "ExportAudit"}

MCActions == {"ExecuteWorkflow", "PublishResult"}
MCCapability(a) == IF a = "ExecuteWorkflow" THEN "Execute" ELSE "Publish"
MCThreshold(a) == IF a = "ExecuteWorkflow" THEN 0 ELSE 2

Symmetry == Permutations(Subjects)
=============================================================================
