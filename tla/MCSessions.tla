----------------------------- MODULE MCSessions -----------------------------
(***************************************************************************)
(* Runs the small machines of the system, each alone: a behaviour picks    *)
(* one part, and only that part takes steps.  The parts share no state in  *)
(* the program either; where two modules use one name for a variable, the  *)
(* instances give each its own.                                            *)
(* The constants of each part are explained in its module.                 *)
(***************************************************************************)
EXTENDS IncrementalScheduler, TLC

CONSTANTS
    Parts,          \* the parts a behaviour may pick
    Null,           \* no run, no answer of a composer session
    TemplateIds, Palette, Nodes, NewIds, ComposerEvents,
    Procs, Workbench, Layers, Names, Deriving, StoreRequests, StoreCrashes,
    Ids, Successor, Answer, Unplaced, Pages, Sends,
    Questions, Replacements,
    Endpoints, Urls, Items, MaxChanges, MaxCrashes,
    Manifests, SigningKeys, Trusted, Packs, Allowed, PackTemplates, Wasm, PluginEvents

VARIABLES
    part,
    template_id, reviewed_digest, workflow, undo, redo, events, catalog, running, answer,
    disk, temp, mem, up, calls, phase, job, foreign, kept, requests, storeCrashes,
    stored, flight, sent, list, geo, visible, active, table, rows, pending, prompt, applied, spoilt,
    dataset, replaced, ask,
    registryFile, memory, writing, searching, command, overlay, importing, acked, imported,
    overlapped, interleaved, changes, endpointCrashes,
    registry, bundle, loading, accepted

-----------------------------------------------------------------------------
(* Incremental scheduler: 1 reads feed, 2 depends on 1 and reads base, 3   *)
(* joins 1 and 2; listed backwards.                                        *)

Step(n, deps, ins) ==
    [stable_id |-> n, derived |-> n, depends_on |-> deps,
     inputs |-> ins \cup {DataRef(d, "result") : d \in deps},
     outputs |-> {DataRef(n, "result")}, output_contracts |-> << >>]

Contracts == <<[name |-> "feed", coherent |-> TRUE], [name |-> "base", coherent |-> TRUE]>>

MCTriangle ==
    [steps |-> <<Step(3, {1, 2}, {}), Step(2, {1}, {DataRef(NoNode, "base")}),
                 Step(1, {}, {DataRef(NoNode, "feed")})>>,
     input_contracts |-> Contracts, output_refs |-> {}]

MCWindow == {<<0, 1>>}

\* Nothing tells the partitions apart.
Interchangeable == Permutations(Partitions)

schedulerVars == vars

-----------------------------------------------------------------------------
(* Composer sessions over two templates; 1000 is an id no template uses.   *)

MCPalette == {<<"nagoya_density", "resolve-place">>}
MCNewIds == {NoNode, 1000}

Composer == INSTANCE WorkflowComposer WITH MaxEvents <- ComposerEvents

\* A graph whose steps are named, each once, and whose references resolve.
NamedSteps(w) ==
    /\ w.steps \in Seq(Range(w.steps))
    /\ \A i \in DOMAIN w.steps :
          LET s == w.steps[i]
          IN  /\ s = [stable_id |-> s.stable_id, derived |-> s.derived, parameters |-> s.parameters,
                      depends_on |-> s.depends_on, inputs |-> s.inputs, outputs |-> s.outputs,
                      output_contracts |-> s.output_contracts]
              /\ s.stable_id # NoNode
    /\ \A i, j \in DOMAIN w.steps : w.steps[i].stable_id = w.steps[j].stable_id => i = j

StepIds(w) == {w.steps[i].stable_id : i \in DOMAIN w.steps}

Graph(w) ==
    /\ w = [goal |-> w.goal, steps |-> w.steps, output_refs |-> w.output_refs, input_contracts |-> w.input_contracts]
    /\ NamedSteps(w)
    /\ \A r \in w.output_refs : r.node \in StepIds(w)
    /\ \A i \in DOMAIN w.steps :
          /\ w.steps[i].depends_on \subseteq StepIds(w)
          /\ \A r \in w.steps[i].inputs : r.node # NoNode => r.node \in w.steps[i].depends_on

\* Every template is one, and the palette names nodes of templates.
ASSUME TemplatesAssumption ==
    /\ TemplateIds \subseteq DOMAIN Composer!Templates
    /\ \A id \in DOMAIN Composer!Templates : Graph(Composer!template_workflow(id))
    /\ \A p \in Palette :
          p[1] \in DOMAIN Composer!Templates /\ Composer!Node(p[2]) \in StepIds(Composer!template_workflow(p[1]))

composerVars == <<template_id, reviewed_digest, workflow, undo, redo, events, catalog, running, answer>>

-----------------------------------------------------------------------------
(* The workbench and another process on one directory of layers, and a     *)
(* browser on the workbench.                                               *)

MCDeriving == {[source |-> "l1", output |-> "l2", middle |-> "l1"], [source |-> "l1", output |-> "l1", middle |-> "l2"]}

\* A derivation reads, and writes, layers of the store.
ASSUME DerivingAssumption ==
    \A d \in Deriving : d.source \in Layers /\ d.output \in Layers /\ d.middle \in Layers

Store == INSTANCE LayerStore WITH Requests <- StoreRequests, Crashes <- StoreCrashes, crashes <- storeCrashes

storeVars == <<disk, temp, mem, up, calls, phase, job, foreign, kept, requests, storeCrashes>>

MCSuccessor == ("a" :> "b") @@ ("b" :> "b") @@ ("out" :> "out")

View == INSTANCE GisView

\* No layer's id is the empty string gis.js uses for "no layer".
ASSUME LayerIdsAssumption == View!NoLayer \notin Ids

viewVars == <<stored, flight, sent, list, geo, visible, active, table, rows, pending, prompt, applied, spoilt>>

-----------------------------------------------------------------------------
(* A question answered while its dataset is replaced.                      *)

Pipeline == INSTANCE AskPipeline WITH Requests <- Questions, file <- dataset

askVars == <<dataset, replaced, ask>>

-----------------------------------------------------------------------------
(* The endpoint registry of the workbench and the command line.            *)

Registry == INSTANCE EndpointStore WITH file <- registryFile, crashes <- endpointCrashes

endpointVars == <<registryFile, memory, writing, searching, command, overlay, importing, acked, imported,
                  overlapped, interleaved, changes, endpointCrashes>>

-----------------------------------------------------------------------------
(* Two releases of one plugin, one of them with two authors' manifests.    *)

Manifest(version, artifact, capabilities) ==
    [id |-> "tools", version |-> version, api |-> 1, capabilities |-> capabilities, artifact |-> artifact, wasm |-> "relative"]

MCManifests == {Manifest("1", "w1", <<"read_catalog">>), Manifest("1", "w2", <<"read_catalog">>),
                Manifest("2", "w2", <<"read_catalog", "export_artifact">>)}

MCPacks == {[id |-> "pack", templates |-> <<"flood-exposure">>,
             formats |-> {"genegis-project-json", "workflow-json", "result-capsule"},
             plugins |-> <<[plugin_id |-> "tools", version |-> v, capabilities |-> {"read_catalog"}]>>] : v \in {"1", "2"}}

Plugins == INSTANCE PluginHost WITH Keys <- SigningKeys, Templates <- PackTemplates,
                                   MaxEvents <- PluginEvents, events <- accepted

pluginVars == <<registry, bundle, loading, accepted>>

-----------------------------------------------------------------------------
(* A part that is not picked starts in one of its initial states, or with  *)
(* no session at all, and stays there.                                     *)
NoComposer ==
    /\ template_id = Null /\ reviewed_digest = Null /\ workflow = Null /\ undo = <<>> /\ redo = <<>>
    /\ events = <<>> /\ catalog = 0 /\ running = Null /\ answer = Null

SessionsInit ==
    /\ part \in Parts
    /\ IF part = "composer" THEN Composer!Init ELSE NoComposer
    /\ Init /\ Store!Init /\ View!Init /\ Pipeline!Init /\ Registry!Init /\ Plugins!Init
    /\ part # "ask" =>
          /\ dataset = "declared"
          /\ \A r \in Questions : ask[r].builder = Pipeline!build_ask_result_from_dispatch
    /\ part # "plugins" =>
          bundle = [manifest |-> CHOOSE m \in Manifests : TRUE, wasm |-> CHOOSE w \in Wasm : TRUE]

Still(p) ==
    /\ UNCHANGED part
    /\ IF p = "scheduler" THEN TRUE ELSE UNCHANGED schedulerVars
    /\ IF p = "composer" THEN TRUE ELSE UNCHANGED composerVars
    /\ IF p = "store" THEN TRUE ELSE UNCHANGED storeVars
    /\ IF p = "view" THEN TRUE ELSE UNCHANGED viewVars
    /\ IF p = "ask" THEN TRUE ELSE UNCHANGED askVars
    /\ IF p = "endpoints" THEN TRUE ELSE UNCHANGED endpointVars
    /\ IF p = "plugins" THEN TRUE ELSE UNCHANGED pluginVars

SessionsNext ==
    \/ part = "scheduler" /\ Next /\ Still("scheduler")
    \/ part = "composer" /\ Composer!Next /\ Still("composer")
    \/ part = "store" /\ Store!Next /\ Still("store")
    \/ part = "view" /\ View!Next /\ Still("view")
    \/ part = "ask" /\ Pipeline!Next /\ Still("ask")
    \/ part = "endpoints" /\ Registry!Next /\ Still("endpoints")
    \/ part = "plugins" /\ Plugins!Next /\ Still("plugins")

allVars == <<part, schedulerVars, composerVars, storeVars, viewVars, askVars, endpointVars, pluginVars>>

SessionsSpec == SessionsInit /\ [][SessionsNext]_allVars

-----------------------------------------------------------------------------
(* Composer sessions                                                       *)

(* The stacks of a session are one line of versions along which undo and   *)
(* redo move and which an edit cuts off behind itself.                     *)
StacksAreOneLine == Composer!StacksAreOneLine

(* However the draft was edited, undo ends at the graph that was reviewed. *)
UndoEndsAtReviewed == part = "composer" => Composer!UndoEndsAtReviewed

(* Nothing in a draft refers to a node that is not there.                  *)
DraftReferencesResolve == part = "composer" => Composer!DraftReferencesResolve

(* A successful answer reports a run of the reviewed graph.                *)
AnswersReportReviewed == part = "composer" => Composer!AnswersReportReviewed

-----------------------------------------------------------------------------
(* Layer files and the browser                                             *)

(* A process nobody wrote behind would load exactly what it holds, also    *)
(* after a crash in the middle of a write.                                 *)
RestartIsInvisible == part = "store" => Store!RestartIsInvisible

(* Whatever fails or crashes while a layer is replaced by its successor,   *)
(* one of the two keeps its file.                                          *)
ReplacementNeverLosesBoth == part = "store" => Store!ReplacementNeverLosesBoth

(* When nothing is on its way, the listing on screen is the server's,      *)
(* unless an older answer was applied after a newer one.                   *)
QuietListIsCurrent == part = "view" => View!QuietListIsCurrent

(* When nothing is on its way, the rows on screen are those of the open    *)
(* table at the page the pager shows.                                      *)
QuietTableIsActive == part = "view" => View!QuietTableIsActive

(* The CRS prompt is open exactly while an import waits for its CRS.       *)
PromptMatchesPending == part = "view" => View!PromptMatchesPending

-----------------------------------------------------------------------------
(* Questions                                                               *)

(* A density map is shown only for the declared data, whenever the file    *)
(* was replaced.                                                           *)
DensityAnswersAreDeclared == part = "ask" => Pipeline!DensityAnswersAreDeclared

(* When the file is left alone, the receipt attests the bytes that were    *)
(* read and agrees with the summary.                                       *)
QuietReceiptsAgree == part = "ask" => Pipeline!QuietReceiptsAgree

(* Where the checks are those of the source, a receipt that passed never   *)
(* stands over a summary that did not.                                     *)
SourceReceiptsCoverSummary == part = "ask" => Pipeline!SourceReceiptsCoverSummary

-----------------------------------------------------------------------------
(* Endpoints                                                               *)

(* Every copy of the registry lists exactly the endpoints its own history  *)
(* accounts for.                                                           *)
HistoryExplainsEndpoints == part = "endpoints" => Registry!HistoryExplainsEndpoints

(* A recorded search names only endpoints registered before it.            *)
SearchesNameRegistered == part = "endpoints" => Registry!SearchesNameRegistered

(* Unless a save replaced what its writer had not read, the file holds     *)
(* every change reported as made, in order.                                *)
ReportedChangesAreKept == part = "endpoints" => Registry!ReportedChangesAreKept

(* Imports that did not overlap all stay in the overlay, each item once.   *)
ImportsAccumulate == part = "endpoints" => Registry!ImportsAccumulate

-----------------------------------------------------------------------------
(* Plugins                                                                 *)

(* Nothing uses a release after its revocation, whatever is published.     *)
RevocationIsFinal == part = "plugins" => Plugins!RevocationIsFinal

(* A signature works only for the release or revocation it was made for.   *)
SignaturesCoverTheirRelease == part = "plugins" => Plugins!SignaturesCoverTheirRelease

(* A loaded module is the one its manifest declares, though the bundle may *)
(* be replaced while it is loaded.                                         *)
LoadedAsDeclared == part = "plugins" => Plugins!LoadedAsDeclared

-----------------------------------------------------------------------------
(* What the run checks of each part                                        *)

(* Incremental runs: an output older than what it depends on is left only  *)
(* by a run that did not complete, and the receipts account for every      *)
(* output.                                                                 *)
OutputsAreAccountedFor ==
    /\ StaleOnlyAfterIncompleteRun
    /\ ReceiptsExplainOutputs

(* Composer: undo ends at the reviewed graph, no reference of a draft      *)
(* dangles, and an answer reports a run of the graph that was reviewed.    *)
DraftsStayReviewed ==
    /\ UndoEndsAtReviewed
    /\ DraftReferencesResolve
    /\ AnswersReportReviewed

(* Layer files: a restart shows the layers the server showed, and a crash  *)
(* while a layer is replaced leaves the old one or the new one.            *)
LayerFilesSurvive ==
    /\ RestartIsInvisible
    /\ ReplacementNeverLosesBoth

(* Browser: once every answer has arrived, the listing, the open table and *)
(* the CRS prompt are those of the server and of the pending import.       *)
QuietPageAgrees ==
    /\ QuietListIsCurrent
    /\ QuietTableIsActive
    /\ PromptMatchesPending

(* Questions: whatever replaces the dataset while a question is answered, a*)
(* density map is of the declared data, and receipt and summary agree where*)
(* the file was left alone.                                                *)
AnswersMatchTheirData ==
    /\ DensityAnswersAreDeclared
    /\ QuietReceiptsAgree
    /\ SourceReceiptsCoverSummary

(* Endpoints: each copy of the registry is what its history says, searches *)
(* name registered endpoints, and reported changes and imports are kept    *)
(* unless a save replaced what its writer had not read.                    *)
RegistryKeepsItsChanges ==
    /\ HistoryExplainsEndpoints
    /\ SearchesNameRegistered
    /\ ReportedChangesAreKept
    /\ ImportsAccumulate

(* Plugins: a revoked release is never used again, no signature serves     *)
(* another release, and a loaded module is the declared one.               *)
PluginsRunAsSigned ==
    /\ RevocationIsFinal
    /\ SignaturesCoverTheirRelease
    /\ LoadedAsDeclared
=============================================================================
