--------------------------- MODULE WorkflowComposer ---------------------------
(***************************************************************************)
(* A no-code session over a reviewed workflow: typed edits with undo and   *)
(* redo (crates/genegis-workflow/src/composer.rs), and runs of the draft,  *)
(* which the workbench admits only while it is the reviewed graph          *)
(* (apps/workbench/src/main.rs).                                           *)
(*                                                                         *)
(* A run reads the session under the lock and works on the copy after it,  *)
(* so edits may come in between.                                           *)
(***************************************************************************)
EXTENDS WorkflowTemplates, SequencesExt

CONSTANTS
    Null,
    TemplateIds,  \* the templates sessions start from
    Palette,      \* <<template, node name>>: nodes that may be copied
    Nodes,        \* node names edits may mention
    NewIds,       \* numbers of node ids the user types, 0 for an unsafe one
    MaxEvents     \* bound on the events of a session

VARIABLES
    template_id, reviewed_digest,   \* of the session
    workflow, undo, redo, events,   \* of its composer
    catalog,                        \* revision of the dataset the catalog selects
    running,                        \* the copy a run works on, or Null
    answer                          \* the last successful answer to a run, or Null

composer == <<workflow, undo, redo, events>>
vars == <<template_id, reviewed_digest, composer, catalog, running, answer>>

\* stable_digest_unchecked: the canonical document lists steps in the order of
\* their ids, whatever order they were added in.
stable_digest(w) == [w EXCEPT !.steps = Range(w.steps)]

\* A graph whose steps and goal are those of this template and no other.
Of(id, w) ==
    [w EXCEPT !.goal = id,
              !.steps = [i \in DOMAIN w.steps |-> [w.steps[i] EXCEPT !.parameters = id]]]

Templates ==
    [nagoya_density            |-> nagoya_population_density_template,
     nagoya_geoparquet         |-> nagoya_geoparquet_template,
     nagoya_geoparquet_density |-> nagoya_geoparquet_density_template,
     local_cog_metadata        |-> local_cog_metadata_template,
     external_stac             |-> external_stac_fetch_template,
     dashboard_export          |-> dashboard_export_template,
     flood_exposure            |-> nagoya_flood_exposure_template,
     xmin_city                 |-> nagoya_xmin_city_template,
     evacuation                |-> nagoya_evacuation_template,
     ndvi_timeseries           |-> sentinel_ndvi_timeseries_template,
     pointcloud_change         |-> copc_change_detect_template,
     geocoding                 |-> geocoding_template]

template_workflow(id) == Of(id, Templates[id])

\* resolved_composer: the density template is bound to the catalog's snapshot.
Resolved(id) ==
    LET w == template_workflow(id)
    IN  IF id # "nagoya_density" THEN w
        ELSE [w EXCEPT !.input_contracts =
                 [i \in DOMAIN @ |-> [name |-> @[i].name, coherent |-> TRUE, source |-> catalog]]]

\* create_composer_session, with from_reviewed_workflow.
Init ==
    /\ catalog = 0
    /\ template_id \in TemplateIds
    /\ workflow = Resolved(template_id)
    /\ Valid(workflow)
    /\ reviewed_digest = stable_digest(workflow)
    /\ undo = <<>> /\ redo = <<>> /\ events = <<>>
    /\ running = Null /\ answer = Null

-----------------------------------------------------------------------------
(* apply                                                                   *)

\* The draft becomes `edited`, and the event says whether it can be run.
Record(kind, edited) ==
    /\ Len(events) < MaxEvents
    /\ workflow' = edited
    /\ events' = Append(events, [kind |-> kind, executable |-> Valid(edited)])
    /\ UNCHANGED <<template_id, reviewed_digest, catalog, running, answer>>

\* Faulty variant: what was undone can still be redone.
Commit_keepsRedo(kind, edited) ==
    /\ undo' = Append(undo, workflow) /\ redo' = redo
    /\ Record(kind, edited)

\* Faulty variant: only the last version is kept.
Commit_keepsOne(kind, edited) ==
    /\ undo' = <<workflow>> /\ redo' = <<>>
    /\ Record(kind, edited)

Commit(kind, edited) ==
    /\ undo' = Append(undo, workflow) /\ redo' = <<>>
    /\ Record(kind, edited)

Undo ==
    /\ undo # <<>>
    /\ undo' = Front(undo) /\ redo' = Append(redo, workflow)
    /\ Record("undo", Last(undo))

Redo ==
    /\ redo # <<>>
    /\ redo' = Front(redo) /\ undo' = Append(undo, workflow)
    /\ Record("redo", Last(redo))

Position(n) == CHOOSE i \in DOMAIN workflow.steps : workflow.steps[i].stable_id = n
Present(n) == n \in {workflow.steps[i].stable_id : i \in DOMAIN workflow.steps}

SetGoal(goal) == Commit("set_goal", [workflow EXCEPT !.goal = goal])

\* The copy keeps the graph inputs it reads and the outputs it was written with.
AddReviewedNode(id, name, new_node_id) ==
    LET template == template_workflow(id)
        source   == template.steps[CHOOSE i \in DOMAIN template.steps :
                                       template.steps[i].stable_id = Node(name)]
        node     == [source EXCEPT !.stable_id = new_node_id, !.depends_on = {},
                                   !.inputs = {r \in @ : r.node = NoNode}]
    IN  /\ new_node_id # NoNode /\ ~ Present(new_node_id)
        /\ Commit("add_reviewed_node", [workflow EXCEPT !.steps = Append(@, node)])

\* A step without its references to n.
Without(step, n) ==
    [step EXCEPT !.depends_on = @ \ {n}, !.inputs = {r \in @ : r.node # n}]

\* Vec::retain: the elements of s that are in kept, in their order.
retain(s, kept) ==
    LET upTo[n \in 0..Len(s)] ==
            IF n = 0 THEN <<>>
            ELSE IF s[n] \in kept THEN Append(upTo[n - 1], s[n]) ELSE upTo[n - 1]
    IN  upTo[Len(s)]

OtherSteps(steps, n) == retain(steps, {s \in Range(steps) : s.stable_id # n})

\* Faulty variant: the outputs of the graph are left as they are.
Removed_keepsOutputs(w, n) ==
    LET kept == OtherSteps(w.steps, n)
    IN  [w EXCEPT !.steps = [i \in DOMAIN kept |-> Without(kept[i], n)]]

Removed(w, n) ==
    LET kept == OtherSteps(w.steps, n)
    IN  [w EXCEPT !.steps = [i \in DOMAIN kept |-> Without(kept[i], n)],
                  !.output_refs = {r \in @ : r.node # n}]

RemoveNode(n) ==
    /\ Present(n)
    /\ Commit("remove_node", Removed(workflow, n))

Connect(n, port, m) ==
    /\ n # m /\ Present(n) /\ Present(m)
    /\ DataRef(n, port) \in workflow.steps[Position(n)].outputs
    /\ Commit("connect", [workflow EXCEPT !.steps[Position(m)].depends_on = @ \cup {n},
                                          !.steps[Position(m)].inputs = @ \cup {DataRef(n, port)}])

Disconnect(n, m) ==
    /\ Present(m)
    /\ Commit("disconnect", [workflow EXCEPT !.steps[Position(m)] = Without(@, n)])

SetParameters(n, parameters) ==
    /\ Present(n)
    /\ Commit("set_parameters", [workflow EXCEPT !.steps[Position(n)].parameters = parameters])

-----------------------------------------------------------------------------
(* run_composer_session                                                    *)

\* The dataset the catalog selects is replaced; sessions keep the old one.
CatalogChanges ==
    /\ catalog = 0 /\ catalog' = 1
    /\ UNCHANGED <<template_id, reviewed_digest, composer, running, answer>>

\* The session is copied, validated and compared with the reviewed graph; the
\* geocoding template has no prompt.
StartRun ==
    /\ running = Null
    /\ stable_digest(workflow) = reviewed_digest
    /\ Valid(workflow)
    /\ template_id # "geocoding"
    /\ running' = workflow
    /\ UNCHANGED <<template_id, reviewed_digest, composer, catalog, answer>>

\* Faulty variant: the digest of what was executed is not looked at.
AnswerOK_unchecked(executed) == TRUE

AnswerOK(executed) == stable_digest(executed) = stable_digest(running)

\* run_ask_pipeline resolves the prompt anew: it may select another workflow,
\* or another revision of the dataset.
FinishRun(executed) ==
    /\ running # Null
    /\ answer' = IF AnswerOK(executed)
                 THEN [command |-> stable_digest(running), executed |-> executed]
                 ELSE answer
    /\ running' = Null
    /\ UNCHANGED <<template_id, reviewed_digest, composer, catalog>>

Numbers == {Node(name) : name \in Nodes} \cup (NewIds \ {NoNode})

Next ==
    \/ Undo \/ Redo
    \/ SetGoal("custom")
    \/ \E p \in Palette, new \in NewIds \cup Numbers : AddReviewedNode(p[1], p[2], new)
    \/ \E n \in Numbers : RemoveNode(n) \/ SetParameters(n, "edited")
    \/ \E n, m \in Numbers : Connect(n, "result", m) \/ Disconnect(n, m)
    \/ CatalogChanges \/ StartRun
    \/ \E id \in TemplateIds : FinishRun(Resolved(id))

Spec == Init /\ [][Next]_vars

-----------------------------------------------------------------------------
(* Properties                                                              *)

History == INSTANCE LinearHistory WITH line <- undo \o <<workflow>> \o Reverse(redo),
                                       position <- Len(undo) + 1

(***************************************************************************)
(* "sessions retain [...] reversible graph states": the two stacks and the *)
(* draft between them are one line of versions along which undo and redo   *)
(* move, and which an edit cuts off behind itself.                         *)
(***************************************************************************)
StacksAreOneLine == History!Spec

(***************************************************************************)
(* "undoing to the reviewed digest restores execution": however the draft  *)
(* was edited, the version undo ends at is the graph that was reviewed.    *)
(***************************************************************************)
UndoEndsAtReviewed ==
    LET first == IF undo = <<>> THEN workflow ELSE undo[1]
    IN  stable_digest(first) = reviewed_digest

(***************************************************************************)
(* A draft may be incomplete, but nothing in it refers to a node that is   *)
(* not there, and every result it reads comes from a node it waits for.    *)
(***************************************************************************)
DraftReferencesResolve ==
    LET ids == NodeIds(workflow)
    IN  /\ \A r \in workflow.output_refs : r.node \in ids
        /\ \A i \in DOMAIN workflow.steps :
              LET step == workflow.steps[i]
              IN  /\ step.depends_on \subseteq ids
                  /\ \A r \in step.inputs : r.node # NoNode => r.node \in step.depends_on

(***************************************************************************)
(* A successful answer reports a run of the reviewed graph: its steps ran  *)
(* in the order of the graph that was reviewed, on the sources reviewed,   *)
(* although the draft or the catalog may have changed since, and although  *)
(* the draft may have been taken apart and put together again.             *)
(***************************************************************************)
AnswersReportReviewed ==
    answer # Null =>
        /\ answer.command = reviewed_digest
        /\ stable_digest(answer.executed) = reviewed_digest
        /\ running # Null => topological_order(running) = topological_order(answer.executed)
=============================================================================
