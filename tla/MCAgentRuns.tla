---------------------------- MODULE MCAgentRuns ----------------------------
EXTENDS AgentRuns, TLC

\* The browser's request beside a command of the command line.
MCHosts == ("j1" :> {"workbench"}) @@ ("j2" :> {"cli"})

\* --link-comment, --push and one attempt, given as zero retries.
MCFlags == {[link |-> TRUE, push |-> TRUE, retries |-> 0]}
=============================================================================
