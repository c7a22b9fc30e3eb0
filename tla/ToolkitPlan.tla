---------------------------- MODULE ToolkitPlan ----------------------------
(***************************************************************************)
(* Toolkit plans, their workflow-graph form and their execution            *)
(* (crates/genegis-toolkit/src/execute.rs).  A plan is what the planner or *)
(* the interface writes; it is compiled into a workflow whose input        *)
(* contracts pin every source layer, and only the registered workflow is   *)
(* executed.                                                               *)
(*                                                                         *)
(* Step identifiers are naturals in the order of the strings.  A reference *)
(* is a DataRef: a step's output, or NoNode and a layer's name.  A layer's *)
(* digest is the term that produced it, so two layers have one digest      *)
(* exactly when they were computed alike.                                  *)
(***************************************************************************)
EXTENDS WorkflowGraph, SequencesExt, TLC

LayerRef(name) == DataRef(NoNode, name)
StepRef(id) == DataRef(id, "layer")

(* The input roles of the operations, by the shape of ops::catalog().      *)
Catalog ==
    [op \in {"make_points", "place"} |-> {}]
    @@ [op \in {"census_mesh"} |-> {"area"}]
    @@ [op \in {"make_valid", "buffer", "dissolve", "reproject", "assign_crs", "centroid",
                "measure", "filter", "calculate", "summarize"} |-> {"layer"}]
    @@ [op \in {"clip", "erase"} |-> {"layer", "mask"}]
    @@ [op \in {"intersect"} |-> {"layer", "overlay"}]
    @@ [op \in {"spatial_join"} |-> {"target", "join"}]
    @@ [op \in {"select_by_location"} |-> {"layer", "other"}]
    @@ [op \in {"distance_to_nearest"} |-> {"layer", "target"}]

MaxSteps == 64

StepIds(plan) == {plan.steps[i].id : i \in DOMAIN plan.steps}

StepRefsOf(step) == {step.inputs[r].node : r \in DOMAIN step.inputs} \ {NoNode}

(* One step against the steps before it and the loaded layers.             *)
StepAccepted(plan, i, layers) ==
    LET step == plan.steps[i]
        earlier == {plan.steps[k].id : k \in 1..(i - 1)}
    IN /\ step.id \notin earlier
       /\ step.op \in DOMAIN Catalog
       /\ DOMAIN step.inputs = Catalog[step.op]
       /\ \A r \in DOMAIN step.inputs :
             IF step.inputs[r].node = NoNode THEN step.inputs[r].port \in DOMAIN layers
             ELSE step.inputs[r].node \in earlier

(* The output named, or the last step.                                     *)
OutputOf(plan) == IF plan.output = NoNode THEN plan.steps[Len(plan.steps)].id ELSE plan.output

(* One pass from the last step to the first: what the output needs.        *)
Needed(plan) ==
    LET N == Len(plan.steps)
        needed[k \in 0..N] ==
            IF k = 0 THEN {OutputOf(plan)}
            ELSE LET sofar == needed[k - 1] step == plan.steps[N + 1 - k]
                 IN IF step.id \in sofar THEN sofar \cup StepRefsOf(step) ELSE sofar
    IN needed[N]

(* Faulty variant: steps the output does not need are let through.         *)
validate_plan_allowsUnused(plan, layers) ==
    /\ plan.steps # <<>> /\ Len(plan.steps) <= MaxSteps
    /\ \A i \in DOMAIN plan.steps : StepAccepted(plan, i, layers)
    /\ OutputOf(plan) \in StepIds(plan)

validate_plan(plan, layers) ==
    /\ plan.steps # <<>> /\ Len(plan.steps) <= MaxSteps
    /\ \A i \in DOMAIN plan.steps : StepAccepted(plan, i, layers)
    /\ OutputOf(plan) \in StepIds(plan)
    /\ StepIds(plan) \subseteq Needed(plan)

----------------------------------------------------------------------------
(* plan_to_workflow: a contract for each layer referred to, a node for     *)
(* each step with a "layer" port.                                          *)

Referenced(plan) ==
    UNION {{step.inputs[r].port : r \in {q \in DOMAIN step.inputs : step.inputs[q].node = NoNode}} :
              step \in {plan.steps[i] : i \in DOMAIN plan.steps}}

plan_to_workflow(plan, layers) ==
    [steps |->
        [i \in DOMAIN plan.steps |->
            LET step == plan.steps[i]
            IN [stable_id |-> step.id, derived |-> step.id,
                depends_on |-> StepRefsOf(step),
                inputs |-> {step.inputs[r] : r \in DOMAIN step.inputs},
                outputs |-> {StepRef(step.id)},
                output_contracts |-> <<>>,
                op |-> step.op, roles |-> step.inputs]],
     input_contracts |->
        LET names == SetToSeq(Referenced(plan))
        IN [i \in DOMAIN names |-> [name |-> names[i], coherent |-> TRUE,
                                    digest |-> layers[names[i]]]],
     output_refs |-> {StepRef(OutputOf(plan))}]

(* Faulty variant: a layer that is still loaded counts as unchanged.       *)
InputsUnchanged_loaded(workflow, layers) ==
    \A i \in DOMAIN workflow.input_contracts : workflow.input_contracts[i].name \in DOMAIN layers

(* layer_snapshot and core_crs pin each input as it was when the envelope  *)
(* was written; the executor compares them with what it is given.          *)
InputsUnchanged(workflow, layers) ==
    \A i \in DOMAIN workflow.input_contracts :
        LET c == workflow.input_contracts[i]
        IN c.name \in DOMAIN layers /\ layers[c.name] = c.digest

Term(op, inputs) == [op |-> op, inputs |-> inputs]
Failed == [failed |-> TRUE]

(* PlanExecutor::execute over the steps in `order`.  A step whose checks   *)
(* do not all pass aborts the command.                                     *)
PlanExecutor_execute(workflow, layers, order, unverified) ==
    LET N == Len(order)
        Source(produced, ref) == IF ref.node = NoNode THEN layers[ref.port] ELSE produced[ref.node]
        produced[k \in 0..N] ==
            IF k = 0 THEN << >>
            ELSE LET before == produced[k - 1]
                     step == workflow.steps[IndexOf(workflow, order[k])]
                 IN (order[k] :> Term(step.op, [r \in DOMAIN step.roles |->
                                                    Source(before, step.roles[r])])) @@ before
    IN IF ~InputsUnchanged(workflow, layers) \/ unverified # {} THEN Failed
       ELSE [receipts |-> [k \in 1..N |-> [id |-> order[k], digest |-> produced[N][order[k]]]],
             output |-> LET out == CHOOSE r \in workflow.output_refs : TRUE
                        IN produced[N][out.node]]

(* run_plan: validate, compile, register (which validates the graph again),*)
(* dispatch, and take the artifacts the executor left.  `then` are the     *)
(* layers when the executor runs.                                          *)
run_plan(plan, layers, then, unverified) ==
    IF ~validate_plan(plan, layers) THEN Failed
    ELSE LET workflow == plan_to_workflow(plan, layers)
             verdict == topological_order(workflow)
         IN IF verdict.error # "none" THEN Failed
            ELSE PlanExecutor_execute(workflow, then, verdict.order, unverified)

----------------------------------------------------------------------------
(* import_through_workflow: five stages in a line over the uploaded bytes. *)

ImportStages == <<"detect-format", "decode-features", "resolve-crs", "infer-schema",
                  "normalize-layer">>

ImportWorkflow(digest) ==
    [steps |->
        [i \in DOMAIN ImportStages |->
            [stable_id |-> i, derived |-> i,
             depends_on |-> IF i = 1 THEN {} ELSE {i - 1},
             inputs |-> IF i = 1 THEN {LayerRef("upload")} ELSE {DataRef(i - 1, "result")},
             outputs |-> {DataRef(i, "result")}, output_contracts |-> <<>>]],
     input_contracts |-> <<[name |-> "upload", coherent |-> TRUE, digest |-> digest]>>,
     output_refs |-> {DataRef(Len(ImportStages), "result")}]

(* The executor reads the bytes it was given, compares their digest with   *)
(* the authorized one, and keeps the importer's own error so that the      *)
(* caller sees it instead of the bus's.                                    *)
ImportExecutor_execute(workflow, bytes, decoded) ==
    LET pinned == workflow.input_contracts[1].digest
    IN IF bytes # pinned THEN [error |-> "changed"]
       ELSE IF decoded.error # "none" THEN [error |-> decoded.error]
       ELSE [error |-> "none", layer |-> decoded.layer, digest |-> decoded.layer]

import_through_workflow(bytes, decoded) ==
    LET workflow == ImportWorkflow(bytes)
    IN IF topological_order(workflow).error # "none" THEN [error |-> "command"]
       ELSE ImportExecutor_execute(workflow, bytes, decoded)

----------------------------------------------------------------------------
(* What a plan means, read in the order it is written.                     *)
Meaning(plan, layers) ==
    LET N == Len(plan.steps)
        value[k \in 0..N] ==
            IF k = 0 THEN << >>
            ELSE LET before == value[k - 1] step == plan.steps[k]
                 IN (step.id :> Term(step.op, [r \in DOMAIN step.inputs |->
                        IF step.inputs[r].node = NoNode THEN layers[step.inputs[r].port]
                        ELSE before[step.inputs[r].node]])) @@ before
    IN value[N][OutputOf(plan)]

(* Every plan validate_plan accepts compiles to a graph the workflow       *)
(* validator accepts, its execution yields what the plan means when read   *)
(* top to bottom, and the last receipt is the output's: the workbench      *)
(* takes the last receipt's checks for those of the result (store_run).    *)
PlansRunAsWritten(plan, layers) ==
    validate_plan(plan, layers) =>
        LET run == run_plan(plan, layers, layers, {})
        IN /\ run # Failed
           /\ run.output = Meaning(plan, layers)
           /\ Len(run.receipts) = Len(plan.steps)
           /\ run.receipts[Len(run.receipts)].id = OutputOf(plan)

(* The graph of an import is one the workflow validator accepts, and the   *)
(* import yields the layer the file decodes to, or the decoder's error.    *)
ImportsYieldTheirFile(bytes, decoded) ==
    LET imported == import_through_workflow(bytes, decoded)
    IN /\ imported.error = decoded.error
       /\ decoded.error = "none" => imported.layer = decoded.layer

(* A plan over layers that changed after it was authorized, or whose       *)
(* checks fail, yields nothing.                                            *)
ChangedInputsStopPlans(plan, layers, then, unverified) ==
    (run_plan(plan, layers, then, unverified) # Failed) =>
        /\ \A name \in Referenced(plan) : then[name] = layers[name]
        /\ unverified = {}
=============================================================================
