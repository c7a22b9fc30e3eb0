---------------------------- MODULE AskPipeline ----------------------------
(***************************************************************************)
(* Answering a question from a bundled dataset: execution, verification,   *)
(* summary and execution receipt (crates/genegis-analysis/src/pipeline.rs  *)
(* and nagoya.rs).  The dataset is a file that anything outside the        *)
(* program may replace.  Every source_metadata call opens and hashes the   *)
(* file again, and the executors open it once more to read it, so one      *)
(* answer is put together from several reads.                              *)
(***************************************************************************)
EXTENDS Naturals, FiniteSets, Sequences

CONSTANTS
    Requests,       \* concurrent questions
    Replacements    \* bound: how often the file is replaced

VARIABLES
    file,       \* the version of the dataset's bytes on disk
    replaced,   \* replacements so far
    ask         \* the progress of every request

askVars == <<file, replaced, ask>>

(* "same" has the declared data in other bytes, "other" has other data.    *)
Versions == {"declared", "same", "other"}
SameData(v, w) == (v = "other") = (w = "other")

-----------------------------------------------------------------------------
(* What an answer builder fixes: where the receipt's checks come from, how *)
(* the record's checksum is declared, and what else the answer claims.     *)

Builder(checks, source, duckdb, html) ==
    [checks |-> checks, source |-> source, duckdb_verified |-> duckdb, html |-> html]

build_ask_result_from_dispatch == Builder("dispatch", "declared", TRUE, TRUE)
build_remote_cog_ask_result == Builder("source", "external", TRUE, FALSE)
build_geoparquet_ask_result == Builder("source", "undeclared", TRUE, FALSE)
build_stac_collection_ask_result == Builder("source", "declared", TRUE, FALSE)
build_flood_ask_result == Builder("analysis", "declared", TRUE, TRUE)
build_accessibility_ask_result == Builder("analysis", "declared", FALSE, FALSE)
build_evacuation_ask_result == Builder("analysis", "declared", FALSE, FALSE)
build_change_ask_result == Builder("analysis", "declared", FALSE, FALSE)
build_ndvi_ask_result == Builder("analysis", "declared", FALSE, FALSE)
build_dashboard_ask_result == Builder("analysis", "declared", TRUE, FALSE)

Builders ==
    {build_ask_result_from_dispatch, build_remote_cog_ask_result, build_geoparquet_ask_result,
     build_stac_collection_ask_result, build_flood_ask_result, build_accessibility_ask_result,
     build_evacuation_ask_result, build_change_ask_result, build_ndvi_ask_result, build_dashboard_ask_result}

(* SourceMetadata::from_uri: a local file with a declared checksum is      *)
(* verified when it has it, one without is verified whatever it holds, and *)
(* an external one is never verified.                                      *)
checksum_verified(builder, hash) ==
    CASE builder.source = "declared" -> hash = "declared"
      [] builder.source = "undeclared" -> TRUE
      [] builder.source = "external" -> FALSE

source_checks(builder, hash) == checksum_verified(builder, hash)

(* The checks an analysis makes of its own result: the density is compared *)
(* with the published wards and totals, so other data never passes; the    *)
(* other checks are about consistency, and other data may or may not pass. *)
build_verification(builder, read) ==
    IF read # "other" THEN {TRUE}
    ELSE IF builder.checks = "dispatch" THEN {FALSE} ELSE BOOLEAN

-----------------------------------------------------------------------------
NoRead == "unread"

Idle(builder) ==
    [builder |-> builder, at |-> "asked", workflow |-> NoRead, command |-> NoRead,
     kernel |-> NoRead, read |-> NoRead, summary |-> NoRead, receipt |-> NoRead,
     verified |-> FALSE, quiet |-> TRUE, summary_passed |-> FALSE, receipt_passed |-> FALSE]

Init ==
    /\ file \in Versions
    /\ replaced = 0
    /\ ask \in [Requests -> {Idle(b) : b \in Builders}]

Dispatched(r) == ask[r].builder.checks = "dispatch"
Ended(r) == ask[r].at \in {"answered", "withheld"}

(* The file is replaced by something outside the program.                  *)
Replace ==
    /\ replaced < Replacements
    /\ file' \in Versions \ {file}
    /\ replaced' = replaced + 1
    /\ ask' = [r \in Requests |->
                  IF Ended(r) \/ ask[r].at = "asked" THEN ask[r] ELSE [ask[r] EXCEPT !.quiet = FALSE]]

Progress(r, next) ==
    /\ ask' = [ask EXCEPT ![r] = next]
    /\ UNCHANGED <<file, replaced>>

-----------------------------------------------------------------------------
(* The density path: the graph, the command and the kernel hash the file,  *)
(* then the kernel reads it.                                               *)

nagoya_population_density_workflow_for_dataset(r) ==
    /\ Dispatched(r) /\ ask[r].at = "asked"
    /\ Progress(r, [ask[r] EXCEPT !.at = "graph", !.workflow = file])

command_for_workflow(r) ==
    /\ Dispatched(r) /\ ask[r].at = "graph"
    /\ Progress(r, [ask[r] EXCEPT !.at = "command", !.command = file])

run_nagoya_population_density_for_dataset(r) ==
    /\ Dispatched(r) /\ ask[r].at = "command"
    /\ Progress(r, [ask[r] EXCEPT !.at = "kernel", !.kernel = file])

(* The kernel's graph carries its own hash, so a graph authorized with     *)
(* another one is refused; the artifacts are made only when verified.      *)
NagoyaWorkflowExecutor_execute(r) ==
    /\ Dispatched(r) /\ ask[r].at = "kernel"
    /\ \E passed \in build_verification(ask[r].builder, file) :
          LET verified == passed /\ checksum_verified(ask[r].builder, ask[r].kernel)
          IN Progress(r, [ask[r] EXCEPT !.read = file, !.verified = verified,
                             !.at = IF ask[r].kernel = ask[r].workflow /\ verified
                                    THEN "executed" ELSE "withheld"])

(* The trust evidence holds the command's snapshots: its own hash and, if  *)
(* it differs, the graph's.                                                *)
nagoya_trust_evidence(a) ==
    {a.command, a.workflow}

TrustedSources(a) == \A h \in nagoya_trust_evidence(a) : checksum_verified(a.builder, h)

(* Faulty variant: the flag is not held against the policy's verdict.      *)
receipt_from_dispatch_unchecked(r) ==
    /\ Dispatched(r) /\ ask[r].at = "executed"
    /\ Progress(r, [ask[r] EXCEPT !.at = "answered", !.receipt = ask[r].command,
                       !.summary_passed = TRUE, !.receipt_passed = TRUE])

receipt_from_dispatch(r) ==
    /\ Dispatched(r) /\ ask[r].at = "executed"
    /\ Progress(r, IF TrustedSources(ask[r])
                   THEN [ask[r] EXCEPT !.at = "answered", !.receipt = ask[r].command,
                            !.summary_passed = TRUE, !.receipt_passed = TRUE]
                   ELSE [ask[r] EXCEPT !.at = "withheld"])

-----------------------------------------------------------------------------
(* Every other path: read, verify, hash for the summary, hash for the      *)
(* receipt.                                                                *)

execute_workflow_for_plan(r) ==
    /\ ~Dispatched(r) /\ ask[r].at = "asked"
    /\ \E passed \in build_verification(ask[r].builder, file) :
          Progress(r, [ask[r] EXCEPT !.read = file, !.verified = passed,
                          !.at = IF passed THEN "executed" ELSE "withheld"])

(* The verifiers look at the result again: ranges, counts, the archive on  *)
(* disk; any of them may refuse.                                           *)
verify_executed_workflow(r) ==
    /\ ~Dispatched(r) /\ ask[r].at = "executed"
    /\ \E verified \in BOOLEAN :
          Progress(r, [ask[r] EXCEPT !.verified = verified,
                          !.at = IF verified THEN "verified" ELSE "withheld"])

HashForSummary(r) ==
    /\ ~Dispatched(r) /\ ask[r].at = "verified"
    /\ Progress(r, [ask[r] EXCEPT !.at = "summary", !.summary = file,
                       !.summary_passed = ask[r].verified /\ checksum_verified(ask[r].builder, file)])

(* Faulty variant: the receipt trusts the verifier and the file as hashed  *)
(* now, not the checks.                                                    *)
execution_receipt_with_checks_dropped(r) ==
    /\ ~Dispatched(r) /\ ask[r].at = "summary"
    /\ Progress(r, [ask[r] EXCEPT !.at = "answered", !.receipt = file,
                       !.receipt_passed = ask[r].verified /\ checksum_verified(ask[r].builder, file)])

(* Faulty variant: the receipt does not look at the checksum.              *)
execution_receipt_with_checks_unhashed(r) ==
    /\ ~Dispatched(r) /\ ask[r].at = "summary"
    /\ Progress(r, [ask[r] EXCEPT !.at = "answered", !.receipt = file, !.receipt_passed = ask[r].verified])

execution_receipt_with_checks(r) ==
    /\ ~Dispatched(r) /\ ask[r].at = "summary"
    /\ LET a == ask[r]
           checks == a.builder.checks = "source" => source_checks(a.builder, a.summary)
       IN Progress(r, [a EXCEPT !.at = "answered", !.receipt = file,
                          !.receipt_passed = a.verified /\ checksum_verified(a.builder, file) /\ checks])

-----------------------------------------------------------------------------
Steps(r) ==
    \/ nagoya_population_density_workflow_for_dataset(r)
    \/ command_for_workflow(r)
    \/ run_nagoya_population_density_for_dataset(r)
    \/ NagoyaWorkflowExecutor_execute(r)
    \/ receipt_from_dispatch(r)
    \/ execute_workflow_for_plan(r)
    \/ verify_executed_workflow(r)
    \/ HashForSummary(r)
    \/ execution_receipt_with_checks(r)

Next == Replace \/ \E r \in Requests : Steps(r)

-----------------------------------------------------------------------------
(* A density map is shown only if every hash its receipt and its kernel    *)
(* saw is the declared one and the bytes it was drawn from hold the        *)
(* declared data, whenever the file was replaced: between the graph and    *)
(* the command, between the hash and the read, anywhere.                   *)
DensityAnswersAreDeclared ==
    \A r \in Requests : Dispatched(r) /\ ask[r].at = "answered" =>
        /\ {ask[r].workflow, ask[r].command, ask[r].kernel} = {"declared"}
        /\ SameData(ask[r].read, "declared")

(* When the file is left alone while a question is answered, the receipt   *)
(* attests the bytes that were read, and the summary and the receipt say   *)
(* the same.                                                               *)
QuietReceiptsAgree ==
    \A r \in Requests : ask[r].at = "answered" /\ ask[r].quiet =>
        LET a == ask[r]
        IN /\ a.receipt = a.read
           /\ a.receipt_passed = a.summary_passed
           /\ a.receipt_passed = checksum_verified(a.builder, a.read)

(* Where the receipt's checks are those of the source (raster, GeoParquet  *)
(* and STAC metadata), a receipt that passed never stands over a summary   *)
(* that did not, even when the file was replaced between the two hashes.   *)
SourceReceiptsCoverSummary ==
    \A r \in Requests : ask[r].at = "answered" /\ ask[r].builder.checks = "source" =>
        (ask[r].receipt_passed => ask[r].summary_passed)
=============================================================================
