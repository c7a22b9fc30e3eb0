------------------------- MODULE IncrementalScheduler -------------------------
(***************************************************************************)
(* The partition-aware incremental scheduler                               *)
(* (crates/genegis-core/src/incremental.rs).  One call of `execute` plans  *)
(* the nodes a changed input affects, runs the executor on each with       *)
(* retries, commits the outputs one at a time and closes with a receipt.   *)
(*                                                                         *)
(* The executor is the caller's: each attempt succeeds, fails, or returns  *)
(* a digest that require_digest rejects.  An output digest is modelled by  *)
(* the number of the run that produced it, so that outputs can be compared *)
(* by age; 0 is no output.                                                 *)
(***************************************************************************)
EXTENDS WorkflowGraph

CONSTANTS
    Workflow,      \* the workflow the scheduler is driven with
    Partitions,
    Kinds,         \* kinds of change: "append", "late", "replacement"
    Windows,       \* cursor windows <<start, end>> a change may carry
    MaxRetries,    \* max_retries of every call
    MaxRuns,       \* bound on the calls of execute
    None           \* no run in progress

ASSUME BoundsAssumption == MaxRetries \in Nat /\ MaxRuns \in Nat

\* A workflow lists its steps, each with finitely many dependencies.
ASSUME WorkflowAssumption ==
    /\ Workflow.steps \in Seq(Range(Workflow.steps))
    /\ \A i \in DOMAIN Workflow.steps : IsFiniteSet(Workflow.steps[i].depends_on)

VARIABLES
    outputs,   \* outputs[n][p]: the run whose output of node n and partition p is committed
    history,   \* the receipts, in order
    run,       \* the call of execute in progress, or None
    runs,      \* calls of execute so far
    aborted    \* the runs that ended in an error

vars == <<outputs, history, run, runs, aborted>>

StableIds == {Workflow.steps[i].stable_id : i \in DOMAIN Workflow.steps}

Changes == [input : ContractNames(Workflow), partition : Partitions,
            kind : Kinds, window : Windows]

Events == [kind : {"committed", "retry", "failed"}, node : StableIds, attempt : Nat,
           digest : Nat, replaced : Nat]

Runs == [change : Changes, decisions : Seq(StableIds), next : Nat, attempt : Nat,
         events : Seq(Events)]

ASSUME NoneAssumption == None \notin Runs

-----------------------------------------------------------------------------
(* Planning                                                                *)

\* The nodes that read the changed graph input themselves.
Direct(change) ==
    {Workflow.steps[i].stable_id :
        i \in {j \in DOMAIN Workflow.steps :
                  DataRef(NoNode, change.input) \in Workflow.steps[j].inputs}}

\* depends_on edges between stable identifiers, as the planner follows them.
PlannerEdges ==
    UNION {Workflow.steps[i].depends_on \X {Workflow.steps[i].stable_id} :
               i \in DOMAIN Workflow.steps}

Affected(change) == Spread(Direct(change), PlannerEdges)

\* The first listed step that waits for nothing left is planned next.
affected_decisions(change) ==
    LET N == Cardinality(Affected(change))
        planned[k \in 0..N] ==
            IF k = 0 THEN << >>
            ELSE LET prefix == planned[k - 1]
                     left   == Affected(change) \ Range(prefix)
                     ready  == {i \in DOMAIN Workflow.steps :
                                   /\ Workflow.steps[i].stable_id \in left
                                   /\ Workflow.steps[i].depends_on \cap left = {}}
                 IN  IF ready = {} THEN prefix
                     ELSE Append(prefix, Workflow.steps[Min(ready)].stable_id)
    IN  planned[N]

\* validate_change, and what affected_decisions rejects.
Admissible(change) ==
    /\ Valid(Workflow)
    /\ change.window[1] <= change.window[2]
    /\ Direct(change) # {}
    /\ Len(affected_decisions(change)) = Cardinality(Affected(change))

-----------------------------------------------------------------------------
(* Execution                                                               *)

Init ==
    /\ outputs = [n \in StableIds |-> [p \in Partitions |-> 0]]
    /\ history = << >>
    /\ run = None
    /\ runs = 0
    /\ aborted = {}

Begin(change) ==
    /\ run = None
    /\ runs < MaxRuns
    /\ Admissible(change)
    /\ runs' = runs + 1
    /\ run' = [change |-> change, decisions |-> affected_decisions(change),
               next |-> 1, attempt |-> 1, events |-> << >>]
    /\ UNCHANGED <<outputs, history, aborted>>

Pending == run # None /\ run.next <= Len(run.decisions)

Node == run.decisions[run.next]

Event(kind, digest, replaced) ==
    [kind |-> kind, node |-> Node, attempt |-> run.attempt,
     digest |-> digest, replaced |-> replaced]

Receipt(completed, events) ==
    [run |-> runs, change |-> run.change, decisions |-> run.decisions,
     events |-> events, completed |-> completed]

\* Faulty variant: the replaced output is not looked up in the partition.
AttemptSucceedsAnyPartition ==
    /\ Pending
    /\ outputs' = [outputs EXCEPT ![Node] = [p \in Partitions |-> runs]]
    /\ run' = [run EXCEPT !.next = @ + 1, !.attempt = 1,
                          !.events = Append(@, Event("committed", runs,
                                                     outputs[Node][run.change.partition]))]
    /\ UNCHANGED <<history, runs, aborted>>

\* The executor returns a digest: the output is committed at once.
AttemptSucceeds ==
    /\ Pending
    /\ outputs' = [outputs EXCEPT ![Node][run.change.partition] = runs]
    /\ run' = [run EXCEPT !.next = @ + 1, !.attempt = 1,
                          !.events = Append(@, Event("committed", runs,
                                                     outputs[Node][run.change.partition]))]
    /\ UNCHANGED <<history, runs, aborted>>

\* The executor fails and attempts remain.
AttemptRetried ==
    /\ Pending
    /\ run.attempt < MaxRetries + 1
    /\ run' = [run EXCEPT !.attempt = @ + 1, !.events = Append(@, Event("retry", 0, 0))]
    /\ UNCHANGED <<outputs, history, runs, aborted>>

\* Faulty variant: the run goes on with the next node.
AttemptsExhaustedGoesOn ==
    /\ Pending
    /\ run.attempt = MaxRetries + 1
    /\ run' = [run EXCEPT !.next = @ + 1, !.attempt = 1, !.events = Append(@, Event("failed", 0, 0))]
    /\ UNCHANGED <<outputs, history, runs, aborted>>

\* Faulty variant: an incomplete run leaves no receipt.
AttemptsExhaustedUnrecorded ==
    /\ Pending
    /\ run.attempt = MaxRetries + 1
    /\ run' = None
    /\ UNCHANGED <<outputs, history, runs, aborted>>

\* The last attempt fails: no later node runs and the receipt is incomplete.
AttemptsExhausted ==
    /\ Pending
    /\ run.attempt = MaxRetries + 1
    /\ history' = Append(history, Receipt(FALSE, Append(run.events, Event("failed", 0, 0))))
    /\ run' = None
    /\ UNCHANGED <<outputs, runs, aborted>>

\* The executor's digest is malformed: execute returns the error, without a
\* receipt and without undoing the outputs it has committed.
DigestRejected ==
    /\ Pending
    /\ aborted' = aborted \cup {runs}
    /\ run' = None
    /\ UNCHANGED <<outputs, history, runs>>

Finish ==
    /\ run # None
    /\ run.next > Len(run.decisions)
    /\ history' = Append(history, Receipt(TRUE, run.events))
    /\ run' = None
    /\ UNCHANGED <<outputs, runs, aborted>>

Next ==
    \/ \E change \in Changes : Begin(change)
    \/ AttemptSucceeds
    \/ AttemptRetried
    \/ AttemptsExhausted
    \/ DigestRejected
    \/ Finish

Spec == Init /\ [][Next]_vars

-----------------------------------------------------------------------------
(* Properties                                                              *)

CompletedRun(k) == \E h \in DOMAIN history : history[h].run = k /\ history[h].completed

Committed(n, p) ==
    {c \in UNION {{h} \X DOMAIN history[h].events : h \in DOMAIN history} :
        /\ history[c[1]].change.partition = p
        /\ history[c[1]].events[c[2]].kind = "committed"
        /\ history[c[1]].events[c[2]].node = n}

DependsOn(n) == UNION {Workflow.steps[i].depends_on :
                          i \in {j \in DOMAIN Workflow.steps : node_id(Workflow.steps[j]) = n}}

(***************************************************************************)
(* No stale output is vouched for: when a node's output for a partition is *)
(* older than that of a node it depends on, the run that wrote the newer   *)
(* one did not complete.  "Retry exhaustion stops downstream execution and *)
(* leaves the run explicitly incomplete."                                  *)
(***************************************************************************)
StaleOnlyAfterIncompleteRun ==
    \A n \in StableIds \ {0}, p \in Partitions : \A d \in DependsOn(n) \cap StableIds :
        outputs[n][p] < outputs[d][p] => ~ CompletedRun(outputs[d][p])

(***************************************************************************)
(* The receipts account for the outputs: as long as no run has ended in an *)
(* error, each output is the one the last receipt that mentions it commits,*)
(* and each commit names the output it replaced.                           *)
(***************************************************************************)
ReceiptsExplain ==
    \A n \in StableIds, p \in Partitions :
        LET commits == Committed(n, p)
            Last    == CHOOSE c \in commits : \A d \in commits : d[1] <= c[1]
        IN  IF commits = {} THEN outputs[n][p] = 0
            ELSE /\ outputs[n][p] = history[Last[1]].events[Last[2]].digest
                 /\ \A c \in commits :
                       LET earlier == {d \in commits : d[1] < c[1]}
                           before  == CHOOSE d \in earlier : \A o \in earlier : o[1] <= d[1]
                       IN  history[c[1]].events[c[2]].replaced =
                               IF earlier = {} THEN 0
                               ELSE history[before[1]].events[before[2]].digest

ReceiptsExplainOutputs == run = None /\ aborted = {} => ReceiptsExplain
=============================================================================
