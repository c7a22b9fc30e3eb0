--------------------------- MODULE SessionsProofs ---------------------------
(***************************************************************************)
(* Proves, for every value of the constants, what the run `sessions`       *)
(* checks of its seven parts: questions, plugins, composer sessions, the   *)
(* layer store, the data-analysis view, the scheduler and the endpoints.   *)
(***************************************************************************)
EXTENDS MCSessions, FiniteSetTheorems, TLAPS

-----------------------------------------------------------------------------
(* Questions.  What a request has recorded, by how far it is; while the    *)
(* file is left alone every hash and every read is of what it holds.       *)

\* The record of a request, field by field.
Request(b, at, w, c, k, rd, s, rc, v, q, sp, rp) ==
    [builder |-> b, at |-> at, workflow |-> w, command |-> c, kernel |-> k, read |-> rd,
     summary |-> s, receipt |-> rc, verified |-> v, quiet |-> q, summary_passed |-> sp,
     receipt_passed |-> rp]

Whole(a) ==
    a = Request(a.builder, a.at, a.workflow, a.command, a.kernel, a.read, a.summary, a.receipt,
                a.verified, a.quiet, a.summary_passed, a.receipt_passed)

\* The updates the handlers make.
WithWorkflow(a, x, y) == [a EXCEPT !.at = x, !.workflow = y]
WithCommand(a, x, y) == [a EXCEPT !.at = x, !.command = y]
WithKernel(a, x, y) == [a EXCEPT !.at = x, !.kernel = y]
WithRead(a, x, y, z) == [a EXCEPT !.read = x, !.verified = y, !.at = z]
WithVerified(a, x, y) == [a EXCEPT !.verified = x, !.at = y]
WithDispatch(a, x, y, z, u) == [a EXCEPT !.at = x, !.receipt = y, !.summary_passed = z, !.receipt_passed = u]
WithReceipt(a, x, y, z) == [a EXCEPT !.at = x, !.receipt = y, !.receipt_passed = z]
WithSummary(a, x, y, z) == [a EXCEPT !.at = x, !.summary = y, !.summary_passed = z]
WithWithheld(a, x) == [a EXCEPT !.at = x]

\* What the updates of the handlers make of it.
LEMMA RequestWorkflow ==
    ASSUME NEW a, Whole(a), NEW x, NEW y
    PROVE  WithWorkflow(a, x, y)
            = Request(a.builder, x, y, a.command, a.kernel, a.read, a.summary, a.receipt, a.verified,
                      a.quiet, a.summary_passed, a.receipt_passed)
  <1>0. [a EXCEPT !.at = x, !.workflow = y]
           = [[a EXCEPT !.at = x] EXCEPT !.workflow = y]
    OBVIOUS
  <1>1. [Request(a.builder, a.at, a.workflow, a.command, a.kernel, a.read, a.summary, a.receipt,
                 a.verified, a.quiet, a.summary_passed, a.receipt_passed) EXCEPT !.at = x]
           = Request(a.builder, x, a.workflow, a.command, a.kernel, a.read, a.summary, a.receipt,
                     a.verified, a.quiet, a.summary_passed, a.receipt_passed)
    BY DEF Request
  <1>2. [Request(a.builder, x, a.workflow, a.command, a.kernel, a.read, a.summary, a.receipt,
                 a.verified, a.quiet, a.summary_passed, a.receipt_passed) EXCEPT !.workflow = y]
           = Request(a.builder, x, y, a.command, a.kernel, a.read, a.summary, a.receipt, a.verified,
                     a.quiet, a.summary_passed, a.receipt_passed)
    BY DEF Request
  <1> QED
    BY <1>0, <1>1, <1>2, Zenon DEF WithWorkflow, Whole

LEMMA RequestCommand ==
    ASSUME NEW a, Whole(a), NEW x, NEW y
    PROVE  WithCommand(a, x, y)
            = Request(a.builder, x, a.workflow, y, a.kernel, a.read, a.summary, a.receipt,
                      a.verified, a.quiet, a.summary_passed, a.receipt_passed)
  <1>0. [a EXCEPT !.at = x, !.command = y]
           = [[a EXCEPT !.at = x] EXCEPT !.command = y]
    OBVIOUS
  <1>1. [Request(a.builder, a.at, a.workflow, a.command, a.kernel, a.read, a.summary, a.receipt,
                 a.verified, a.quiet, a.summary_passed, a.receipt_passed) EXCEPT !.at = x]
           = Request(a.builder, x, a.workflow, a.command, a.kernel, a.read, a.summary, a.receipt,
                     a.verified, a.quiet, a.summary_passed, a.receipt_passed)
    BY DEF Request
  <1>2. [Request(a.builder, x, a.workflow, a.command, a.kernel, a.read, a.summary, a.receipt,
                 a.verified, a.quiet, a.summary_passed, a.receipt_passed) EXCEPT !.command = y]
           = Request(a.builder, x, a.workflow, y, a.kernel, a.read, a.summary, a.receipt, a.verified,
                     a.quiet, a.summary_passed, a.receipt_passed)
    BY DEF Request
  <1> QED
    BY <1>0, <1>1, <1>2, Zenon DEF WithCommand, Whole

LEMMA RequestKernel ==
    ASSUME NEW a, Whole(a), NEW x, NEW y
    PROVE  WithKernel(a, x, y)
            = Request(a.builder, x, a.workflow, a.command, y, a.read, a.summary, a.receipt,
                      a.verified, a.quiet, a.summary_passed, a.receipt_passed)
  <1>0. [a EXCEPT !.at = x, !.kernel = y]
           = [[a EXCEPT !.at = x] EXCEPT !.kernel = y]
    OBVIOUS
  <1>1. [Request(a.builder, a.at, a.workflow, a.command, a.kernel, a.read, a.summary, a.receipt,
                 a.verified, a.quiet, a.summary_passed, a.receipt_passed) EXCEPT !.at = x]
           = Request(a.builder, x, a.workflow, a.command, a.kernel, a.read, a.summary, a.receipt,
                     a.verified, a.quiet, a.summary_passed, a.receipt_passed)
    BY DEF Request
  <1>2. [Request(a.builder, x, a.workflow, a.command, a.kernel, a.read, a.summary, a.receipt,
                 a.verified, a.quiet, a.summary_passed, a.receipt_passed) EXCEPT !.kernel = y]
           = Request(a.builder, x, a.workflow, a.command, y, a.read, a.summary, a.receipt,
                     a.verified, a.quiet, a.summary_passed, a.receipt_passed)
    BY DEF Request
  <1> QED
    BY <1>0, <1>1, <1>2, Zenon DEF WithKernel, Whole

LEMMA RequestRead ==
    ASSUME NEW a, Whole(a), NEW x, NEW y, NEW z
    PROVE  WithRead(a, x, y, z)
            = Request(a.builder, z, a.workflow, a.command, a.kernel, x, a.summary, a.receipt, y,
                      a.quiet, a.summary_passed, a.receipt_passed)
  <1>0. [a EXCEPT !.read = x, !.verified = y, !.at = z]
           = [[[a EXCEPT !.read = x] EXCEPT !.verified = y] EXCEPT !.at = z]
    OBVIOUS
  <1>1. [Request(a.builder, a.at, a.workflow, a.command, a.kernel, a.read, a.summary, a.receipt,
                 a.verified, a.quiet, a.summary_passed, a.receipt_passed) EXCEPT !.read = x]
           = Request(a.builder, a.at, a.workflow, a.command, a.kernel, x, a.summary, a.receipt,
                     a.verified, a.quiet, a.summary_passed, a.receipt_passed)
    BY DEF Request
  <1>2. [Request(a.builder, a.at, a.workflow, a.command, a.kernel, x, a.summary, a.receipt,
                 a.verified, a.quiet, a.summary_passed, a.receipt_passed) EXCEPT !.verified = y]
           = Request(a.builder, a.at, a.workflow, a.command, a.kernel, x, a.summary, a.receipt, y,
                     a.quiet, a.summary_passed, a.receipt_passed)
    BY DEF Request
  <1>3. [Request(a.builder, a.at, a.workflow, a.command, a.kernel, x, a.summary, a.receipt, y,
                 a.quiet, a.summary_passed, a.receipt_passed) EXCEPT !.at = z]
           = Request(a.builder, z, a.workflow, a.command, a.kernel, x, a.summary, a.receipt, y,
                     a.quiet, a.summary_passed, a.receipt_passed)
    BY DEF Request
  <1> QED
    BY <1>0, <1>1, <1>2, <1>3, Zenon DEF WithRead, Whole

LEMMA RequestVerified ==
    ASSUME NEW a, Whole(a), NEW x, NEW y
    PROVE  WithVerified(a, x, y)
            = Request(a.builder, y, a.workflow, a.command, a.kernel, a.read, a.summary, a.receipt, x,
                      a.quiet, a.summary_passed, a.receipt_passed)
  <1>0. [a EXCEPT !.verified = x, !.at = y]
           = [[a EXCEPT !.verified = x] EXCEPT !.at = y]
    OBVIOUS
  <1>1. [Request(a.builder, a.at, a.workflow, a.command, a.kernel, a.read, a.summary, a.receipt,
                 a.verified, a.quiet, a.summary_passed, a.receipt_passed) EXCEPT !.verified = x]
           = Request(a.builder, a.at, a.workflow, a.command, a.kernel, a.read, a.summary, a.receipt,
                     x, a.quiet, a.summary_passed, a.receipt_passed)
    BY DEF Request
  <1>2. [Request(a.builder, a.at, a.workflow, a.command, a.kernel, a.read, a.summary, a.receipt, x,
                 a.quiet, a.summary_passed, a.receipt_passed) EXCEPT !.at = y]
           = Request(a.builder, y, a.workflow, a.command, a.kernel, a.read, a.summary, a.receipt, x,
                     a.quiet, a.summary_passed, a.receipt_passed)
    BY DEF Request
  <1> QED
    BY <1>0, <1>1, <1>2, Zenon DEF WithVerified, Whole

LEMMA RequestDispatch ==
    ASSUME NEW a, Whole(a), NEW x, NEW y, NEW z, NEW u
    PROVE  WithDispatch(a, x, y, z, u)
            = Request(a.builder, x, a.workflow, a.command, a.kernel, a.read, a.summary, y,
                      a.verified, a.quiet, z, u)
  <1>0. [a EXCEPT !.at = x, !.receipt = y, !.summary_passed = z, !.receipt_passed = u]
           = [[[[a EXCEPT !.at = x] EXCEPT !.receipt = y] EXCEPT !.summary_passed = z] EXCEPT !.receipt_passed = u]
    OBVIOUS
  <1>1. [Request(a.builder, a.at, a.workflow, a.command, a.kernel, a.read, a.summary, a.receipt,
                 a.verified, a.quiet, a.summary_passed, a.receipt_passed) EXCEPT !.at = x]
           = Request(a.builder, x, a.workflow, a.command, a.kernel, a.read, a.summary, a.receipt,
                     a.verified, a.quiet, a.summary_passed, a.receipt_passed)
    BY DEF Request
  <1>2. [Request(a.builder, x, a.workflow, a.command, a.kernel, a.read, a.summary, a.receipt,
                 a.verified, a.quiet, a.summary_passed, a.receipt_passed) EXCEPT !.receipt = y]
           = Request(a.builder, x, a.workflow, a.command, a.kernel, a.read, a.summary, y, a.verified,
                     a.quiet, a.summary_passed, a.receipt_passed)
    BY DEF Request
  <1>3. [Request(a.builder, x, a.workflow, a.command, a.kernel, a.read, a.summary, y, a.verified,
                 a.quiet, a.summary_passed, a.receipt_passed) EXCEPT !.summary_passed = z]
           = Request(a.builder, x, a.workflow, a.command, a.kernel, a.read, a.summary, y, a.verified,
                     a.quiet, z, a.receipt_passed)
    BY DEF Request
  <1>4. [Request(a.builder, x, a.workflow, a.command, a.kernel, a.read, a.summary, y, a.verified,
                 a.quiet, z, a.receipt_passed) EXCEPT !.receipt_passed = u]
           = Request(a.builder, x, a.workflow, a.command, a.kernel, a.read, a.summary, y, a.verified,
                     a.quiet, z, u)
    BY DEF Request
  <1>5. [[a EXCEPT !.at = x] EXCEPT !.receipt = y]
           = Request(a.builder, x, a.workflow, a.command, a.kernel, a.read, a.summary, y, a.verified,
                     a.quiet, a.summary_passed, a.receipt_passed)
    BY <1>1, <1>2, Zenon DEF Whole
  <1> QED
    BY <1>0, <1>5, <1>3, <1>4, Zenon DEF WithDispatch

LEMMA RequestReceipt ==
    ASSUME NEW a, Whole(a), NEW x, NEW y, NEW z
    PROVE  WithReceipt(a, x, y, z)
            = Request(a.builder, x, a.workflow, a.command, a.kernel, a.read, a.summary, y,
                      a.verified, a.quiet, a.summary_passed, z)
  <1>0. [a EXCEPT !.at = x, !.receipt = y, !.receipt_passed = z]
           = [[[a EXCEPT !.at = x] EXCEPT !.receipt = y] EXCEPT !.receipt_passed = z]
    OBVIOUS
  <1>1. [Request(a.builder, a.at, a.workflow, a.command, a.kernel, a.read, a.summary, a.receipt,
                 a.verified, a.quiet, a.summary_passed, a.receipt_passed) EXCEPT !.at = x]
           = Request(a.builder, x, a.workflow, a.command, a.kernel, a.read, a.summary, a.receipt,
                     a.verified, a.quiet, a.summary_passed, a.receipt_passed)
    BY DEF Request
  <1>2. [Request(a.builder, x, a.workflow, a.command, a.kernel, a.read, a.summary, a.receipt,
                 a.verified, a.quiet, a.summary_passed, a.receipt_passed) EXCEPT !.receipt = y]
           = Request(a.builder, x, a.workflow, a.command, a.kernel, a.read, a.summary, y, a.verified,
                     a.quiet, a.summary_passed, a.receipt_passed)
    BY DEF Request
  <1>3. [Request(a.builder, x, a.workflow, a.command, a.kernel, a.read, a.summary, y, a.verified,
                 a.quiet, a.summary_passed, a.receipt_passed) EXCEPT !.receipt_passed = z]
           = Request(a.builder, x, a.workflow, a.command, a.kernel, a.read, a.summary, y, a.verified,
                     a.quiet, a.summary_passed, z)
    BY DEF Request
  <1> QED
    BY <1>0, <1>1, <1>2, <1>3, Zenon DEF WithReceipt, Whole

LEMMA RequestSummary ==
    ASSUME NEW a, Whole(a), NEW x, NEW y, NEW z
    PROVE  WithSummary(a, x, y, z)
            = Request(a.builder, x, a.workflow, a.command, a.kernel, a.read, y, a.receipt,
                      a.verified, a.quiet, z, a.receipt_passed)
  <1>0. [a EXCEPT !.at = x, !.summary = y, !.summary_passed = z]
           = [[[a EXCEPT !.at = x] EXCEPT !.summary = y] EXCEPT !.summary_passed = z]
    OBVIOUS
  <1>1. [Request(a.builder, a.at, a.workflow, a.command, a.kernel, a.read, a.summary, a.receipt,
                 a.verified, a.quiet, a.summary_passed, a.receipt_passed) EXCEPT !.at = x]
           = Request(a.builder, x, a.workflow, a.command, a.kernel, a.read, a.summary, a.receipt,
                     a.verified, a.quiet, a.summary_passed, a.receipt_passed)
    BY DEF Request
  <1>2. [Request(a.builder, x, a.workflow, a.command, a.kernel, a.read, a.summary, a.receipt,
                 a.verified, a.quiet, a.summary_passed, a.receipt_passed) EXCEPT !.summary = y]
           = Request(a.builder, x, a.workflow, a.command, a.kernel, a.read, y, a.receipt, a.verified,
                     a.quiet, a.summary_passed, a.receipt_passed)
    BY DEF Request
  <1>3. [Request(a.builder, x, a.workflow, a.command, a.kernel, a.read, y, a.receipt, a.verified,
                 a.quiet, a.summary_passed, a.receipt_passed) EXCEPT !.summary_passed = z]
           = Request(a.builder, x, a.workflow, a.command, a.kernel, a.read, y, a.receipt, a.verified,
                     a.quiet, z, a.receipt_passed)
    BY DEF Request
  <1> QED
    BY <1>0, <1>1, <1>2, <1>3, Zenon DEF WithSummary, Whole

LEMMA RequestWithheld ==
    ASSUME NEW a, Whole(a), NEW x
    PROVE  WithWithheld(a, x)
            = Request(a.builder, x, a.workflow, a.command, a.kernel, a.read, a.summary, a.receipt,
                      a.verified, a.quiet, a.summary_passed, a.receipt_passed)
  BY DEF WithWithheld, Whole, Request

DispatchedInv(a, file) ==
    \/ a.at = "asked" /\ a.quiet
    \/ a.at = "graph" /\ (a.quiet => a.workflow = file)
    \/ a.at = "command" /\ (a.quiet => a.workflow = file /\ a.command = file)
    \/ a.at = "kernel" /\ (a.quiet => a.workflow = file /\ a.command = file /\ a.kernel = file)
    \/ /\ a.at = "executed"
       /\ a.kernel = a.workflow /\ a.kernel = "declared" /\ a.read # "other"
       /\ a.quiet => a.command = file /\ a.read = file /\ a.workflow = file
    \/ /\ a.at = "answered"
       /\ a.kernel = "declared" /\ a.workflow = "declared" /\ a.command = "declared"
       /\ a.read # "other" /\ a.receipt = "declared"
       /\ a.receipt_passed = TRUE /\ a.summary_passed = TRUE
       /\ a.quiet => a.read = "declared"
    \/ a.at = "withheld"

ReadInv(a, file) ==
    \/ a.at = "asked" /\ a.quiet
    \/ a.at = "executed" /\ (a.quiet => a.read = file)
    \/ a.at = "verified" /\ a.verified = TRUE /\ (a.quiet => a.read = file)
    \/ /\ a.at = "summary" /\ a.verified = TRUE
       /\ a.summary_passed = Pipeline!checksum_verified(a.builder, a.summary)
       /\ a.quiet => a.read = file /\ a.summary = file
    \/ /\ a.at = "answered"
       /\ a.summary_passed = Pipeline!checksum_verified(a.builder, a.summary)
       /\ a.receipt_passed = /\ Pipeline!checksum_verified(a.builder, a.receipt)
                             /\ a.builder.checks = "source" =>
                                    Pipeline!checksum_verified(a.builder, a.summary)
       /\ a.quiet => a.read = a.receipt /\ a.summary = a.receipt
    \/ a.at = "withheld"

AskInv(a, file) ==
    /\ Whole(a)
    /\ a.builder \in Pipeline!Builders
    /\ IF a.builder.checks = "dispatch" THEN DispatchedInv(a, file) ELSE ReadInv(a, file)

AsksInv ==
    /\ ask = [r \in Questions |-> ask[r]]
    /\ \A r \in Questions : AskInv(ask[r], dataset)

LEMMA BuildersFix ==
    ASSUME NEW b \in Pipeline!Builders
    PROVE  /\ b.checks = "dispatch" => b.source = "declared"
           /\ b.source \in {"declared", "undeclared", "external"}
           /\ b.checks \in {"dispatch", "source", "analysis"}
  BY DEF Pipeline!Builders, Pipeline!Builder, Pipeline!build_ask_result_from_dispatch, Pipeline!build_remote_cog_ask_result,
         Pipeline!build_geoparquet_ask_result, Pipeline!build_stac_collection_ask_result, Pipeline!build_flood_ask_result,
         Pipeline!build_accessibility_ask_result, Pipeline!build_evacuation_ask_result, Pipeline!build_change_ask_result,
         Pipeline!build_ndvi_ask_result, Pipeline!build_dashboard_ask_result

LEMMA AskStarts ==
    ASSUME Pipeline!Init PROVE AsksInv
  <1>1. ASSUME NEW r \in Questions PROVE AskInv(ask[r], dataset)
    <2>1. PICK b \in Pipeline!Builders : ask[r] = Pipeline!Idle(b)
      BY DEF Pipeline!Init
    <2>2. /\ ask[r].builder = b /\ ask[r].at = "asked" /\ ask[r].quiet = TRUE
      BY <2>1 DEF Pipeline!Idle
    <2> QED
      BY <2>1, <2>2 DEF AskInv, DispatchedInv, ReadInv, Whole, Request, Pipeline!Idle
  <1> QED
    BY <1>1 DEF Pipeline!Init, AsksInv

\* A replaced file: a question that is being answered is no longer quiet.
LEMMA AskReplaced ==
    ASSUME AsksInv, Pipeline!Replace PROVE AsksInv'
  <1>1. ask' = [r \in Questions |->
                  IF Pipeline!Ended(r) \/ ask[r].at = "asked" THEN ask[r] ELSE [ask[r] EXCEPT !.quiet = FALSE]]
    BY DEF Pipeline!Replace
  <1>2. ASSUME NEW r \in Questions PROVE AskInv(ask[r], dataset)' 
    <2> DEFINE a == ask[r]
    <2>0. AskInv(a, dataset)
      BY DEF AsksInv
    <2>1. CASE Pipeline!Ended(r) \/ a.at = "asked"
      <3>1. ask'[r] = a
        BY <1>1, <2>1
      <3>2. a.at \in {"answered", "withheld", "asked"}
        BY <2>1 DEF Pipeline!Ended
      <3> HIDE DEF a
      <3>3. AskInv(a, dataset')
        BY <2>0, <3>2, Zenon DEF AskInv, DispatchedInv, ReadInv
      <3> QED
        BY <3>1, <3>3, Zenon DEF AskInv, DispatchedInv, ReadInv
    <2>2. CASE ~(Pipeline!Ended(r) \/ a.at = "asked")
      <3>1. ask'[r] = [a EXCEPT !.quiet = FALSE]
        BY <1>1, <2>2
      <3>2. a.at \notin {"answered", "withheld", "asked"}
        BY <2>2 DEF Pipeline!Ended
      <3> DEFINE b == Request(a.builder, a.at, a.workflow, a.command, a.kernel, a.read, a.summary, a.receipt,
                              a.verified, FALSE, a.summary_passed, a.receipt_passed)
      <3>3. ask'[r] = b
        BY <2>0, <3>1, Zenon DEF AskInv, Whole, Request
      <3> HIDE DEF a
      <3>4. AskInv(b, dataset')
        BY <2>0, <3>2, Zenon DEF AskInv, DispatchedInv, ReadInv, Whole, Request
      <3> HIDE DEF b
      <3> QED
        BY <3>3, <3>4, Zenon DEF AskInv, DispatchedInv, ReadInv
    <2> QED
      BY <2>1, <2>2
  <1> QED
    BY <1>1, <1>2 DEF AsksInv

LEMMA AskProgress ==
    ASSUME AsksInv, NEW r \in Questions, NEW next, AskInv(next, dataset),
           ask' = [ask EXCEPT ![r] = next], dataset' = dataset
    PROVE  AsksInv'
  <1>1. ASSUME NEW q \in Questions PROVE AskInv(ask[q], dataset)'
    <2>1. ask'[q] = IF q = r THEN next ELSE ask[q]
      BY DEF AsksInv
    <2>2. AskInv(IF q = r THEN next ELSE ask[q], dataset)
      BY DEF AsksInv
    <2> QED
      BY <2>1, <2>2, Zenon DEF AskInv, DispatchedInv, ReadInv
  <1>2. ask' = [q \in Questions |-> ask'[q]]
    BY DEF AsksInv
  <1> QED
    BY <1>1, <1>2 DEF AsksInv

LEMMA AskDispatches ==
    ASSUME AsksInv, NEW r \in Questions, Pipeline!Dispatched(r),
           \/ Pipeline!nagoya_population_density_workflow_for_dataset(r)
           \/ Pipeline!command_for_workflow(r)
           \/ Pipeline!run_nagoya_population_density_for_dataset(r)
           \/ Pipeline!NagoyaWorkflowExecutor_execute(r)
           \/ Pipeline!receipt_from_dispatch(r)
    PROVE  AsksInv'
  <1> PICK a : a = ask[r]
    OBVIOUS
  <1> PICK file : file = dataset
    OBVIOUS
  <1>0. AskInv(a, file) /\ a.builder.checks = "dispatch" /\ a.builder.source = "declared"
    BY BuildersFix DEF AsksInv, AskInv, Pipeline!Dispatched
  <1>1. ASSUME Pipeline!nagoya_population_density_workflow_for_dataset(r) PROVE AsksInv'
    <2> DEFINE next == Request(a.builder, "graph", file, a.command, a.kernel, a.read, a.summary, a.receipt,
                               a.verified, a.quiet, a.summary_passed, a.receipt_passed)
    <2>1. next = [a EXCEPT !.at = "graph", !.workflow = file]
      <3>1. next = WithWorkflow(a, "graph", file)
        BY <1>0, RequestWorkflow DEF AskInv
      <3> QED
        BY <3>1 DEF WithWorkflow
    <2>2. AskInv(next, file)
      BY <1>0 DEF AskInv, DispatchedInv, Whole, Request
    <2>3. ask' = [ask EXCEPT ![r] = next] /\ dataset' = dataset
      BY <1>1, <2>1, Zenon DEF Pipeline!nagoya_population_density_workflow_for_dataset, Pipeline!Progress
    <2> HIDE DEF next
    <2> QED
      BY <2>2, <2>3, AskProgress, Zenon
  <1>2. ASSUME Pipeline!command_for_workflow(r) PROVE AsksInv'
    <2> DEFINE next == Request(a.builder, "command", a.workflow, file, a.kernel, a.read, a.summary, a.receipt,
                               a.verified, a.quiet, a.summary_passed, a.receipt_passed)
    <2>0. a.at = "graph"
      BY <1>2 DEF Pipeline!command_for_workflow
    <2>1. next = [a EXCEPT !.at = "command", !.command = file]
      <3>1. next = WithCommand(a, "command", file)
        BY <1>0, RequestCommand DEF AskInv
      <3> QED
        BY <3>1 DEF WithCommand
    <2>2. AskInv(next, file)
      BY <1>0, <2>0 DEF AskInv, DispatchedInv, Whole, Request
    <2>3. ask' = [ask EXCEPT ![r] = next] /\ dataset' = dataset
      BY <1>2, <2>1, Zenon DEF Pipeline!command_for_workflow, Pipeline!Progress
    <2> HIDE DEF next
    <2> QED
      BY <2>2, <2>3, AskProgress, Zenon
  <1>3. ASSUME Pipeline!run_nagoya_population_density_for_dataset(r) PROVE AsksInv'
    <2> DEFINE next == Request(a.builder, "kernel", a.workflow, a.command, file, a.read, a.summary, a.receipt,
                               a.verified, a.quiet, a.summary_passed, a.receipt_passed)
    <2>0. a.at = "command"
      BY <1>3 DEF Pipeline!run_nagoya_population_density_for_dataset
    <2>1. next = [a EXCEPT !.at = "kernel", !.kernel = file]
      <3>1. next = WithKernel(a, "kernel", file)
        BY <1>0, RequestKernel DEF AskInv
      <3> QED
        BY <3>1 DEF WithKernel
    <2>2. AskInv(next, file)
      BY <1>0, <2>0 DEF AskInv, DispatchedInv, Whole, Request
    <2>3. ask' = [ask EXCEPT ![r] = next] /\ dataset' = dataset
      BY <1>3, <2>1, Zenon DEF Pipeline!run_nagoya_population_density_for_dataset, Pipeline!Progress
    <2> HIDE DEF next
    <2> QED
      BY <2>2, <2>3, AskProgress, Zenon
  <1>4. ASSUME Pipeline!NagoyaWorkflowExecutor_execute(r) PROVE AsksInv'
    <2>0. a.at = "kernel"
      BY <1>4, Zenon DEF Pipeline!NagoyaWorkflowExecutor_execute
    <2>1. PICK passed \in Pipeline!build_verification(a.builder, file) :
             LET verified == passed /\ Pipeline!checksum_verified(a.builder, a.kernel)
             IN  Pipeline!Progress(r, [a EXCEPT !.read = file, !.verified = verified,
                                         !.at = IF a.kernel = a.workflow /\ verified
                                                THEN "executed" ELSE "withheld"])
      BY <1>4, Zenon DEF Pipeline!NagoyaWorkflowExecutor_execute
    <2> DEFINE verified == passed /\ Pipeline!checksum_verified(a.builder, a.kernel)
               at == IF a.kernel = a.workflow /\ verified THEN "executed" ELSE "withheld"
               next == Request(a.builder, at, a.workflow, a.command, a.kernel, file, a.summary, a.receipt,
                               verified, a.quiet, a.summary_passed, a.receipt_passed)
    <2>2. next = [a EXCEPT !.read = file, !.verified = verified, !.at = at]
      <3>1. next = WithRead(a, file, verified, at)
        <4> HIDE DEF verified, at
        <4> QED
          BY <1>0, RequestRead DEF AskInv
      <3> HIDE DEF next
      <3> QED
        BY <3>1 DEF WithRead
    <2>3. verified => file # "other" /\ a.kernel = "declared"
      BY <1>0, Zenon DEF Pipeline!build_verification, Pipeline!checksum_verified
    <2>4. AskInv(next, file)
      <3> HIDE DEF verified
      <3> QED
        BY <1>0, <2>0, <2>3 DEF AskInv, DispatchedInv, Whole, Request
    <2>5. ask' = [ask EXCEPT ![r] = next] /\ dataset' = dataset
      BY <2>1, <2>2, Zenon DEF Pipeline!Progress
    <2> HIDE DEF next
    <2> QED
      BY <2>4, <2>5, AskProgress, Zenon
  <1>5. ASSUME Pipeline!receipt_from_dispatch(r) PROVE AsksInv'
    <2>0. a.at = "executed"
      BY <1>5 DEF Pipeline!receipt_from_dispatch
    <2> DEFINE answered == Request(a.builder, "answered", a.workflow, a.command, a.kernel, a.read, a.summary,
                                   a.command, a.verified, a.quiet, TRUE, TRUE)
               withheld == Request(a.builder, "withheld", a.workflow, a.command, a.kernel, a.read, a.summary,
                                   a.receipt, a.verified, a.quiet, a.summary_passed, a.receipt_passed)
               next == IF Pipeline!TrustedSources(a) THEN answered ELSE withheld
    <2>1. /\ answered = [a EXCEPT !.at = "answered", !.receipt = a.command,
                                  !.summary_passed = TRUE, !.receipt_passed = TRUE]
          /\ withheld = [a EXCEPT !.at = "withheld"]
      <3>0. PICK t : t = TRUE
        OBVIOUS
      <3>a. Request(a.builder, "answered", a.workflow, a.command, a.kernel, a.read, a.summary,
                    a.command, a.verified, a.quiet, t, t) = WithDispatch(a, "answered", a.command, t, t)
        <4> HIDE <3>0
        <4> QED
          BY <1>0, RequestDispatch DEF AskInv
      <3>1. answered = WithDispatch(a, "answered", a.command, t, t)
        BY <3>0, <3>a, Zenon
      <3>2. withheld = WithWithheld(a, "withheld")
        BY <1>0, RequestWithheld DEF AskInv
      <3> HIDE DEF answered, withheld
      <3> QED
        BY <3>0, <3>1, <3>2 DEF WithDispatch, WithWithheld
    <2>2. Pipeline!TrustedSources(a) => a.command = "declared" /\ a.workflow = "declared"
      BY <1>0 DEF Pipeline!TrustedSources, Pipeline!nagoya_trust_evidence, Pipeline!checksum_verified
    <2>3. AskInv(withheld, file) /\ (Pipeline!TrustedSources(a) => AskInv(answered, file))
      BY <1>0, <2>0, <2>2 DEF AskInv, DispatchedInv, Whole, Request
    <2>4. ask' = [ask EXCEPT ![r] = next] /\ dataset' = dataset
      BY <1>5, <2>1, Zenon DEF Pipeline!receipt_from_dispatch, Pipeline!Progress
    <2>5. AskInv(next, file)
      BY <2>3, Zenon
    <2> HIDE DEF next
    <2> QED
      BY <2>4, <2>5, AskProgress, Zenon
  <1> QED
    BY <1>1, <1>2, <1>3, <1>4, <1>5

\* The four steps of the other paths, on the record of the request.
LEMMA RequestExecuted ==
    ASSUME NEW a, NEW file, AskInv(a, file), a.builder.checks # "dispatch", a.at = "asked", NEW passed
    PROVE  AskInv([a EXCEPT !.read = file, !.verified = passed,
                            !.at = IF passed THEN "executed" ELSE "withheld"], file)
  <1>1. Whole(a)
    BY DEF AskInv
  <1>2. PICK at : at = IF passed THEN "executed" ELSE "withheld"
    OBVIOUS
  <1> DEFINE next == Request(a.builder, at, a.workflow, a.command, a.kernel, file, a.summary, a.receipt,
                             passed, a.quiet, a.summary_passed, a.receipt_passed)
  <1>3. WithRead(a, file, passed, at) = next
    BY <1>1, RequestRead
  <1>4. AskInv(next, file)
    BY <1>2 DEF AskInv, ReadInv, Whole, Request
  <1> HIDE DEF next
  <1> QED
    BY <1>2, <1>3, <1>4 DEF WithRead

LEMMA RequestChecked ==
    ASSUME NEW a, NEW file, AskInv(a, file), a.builder.checks # "dispatch", a.at = "executed",
           NEW verified \in BOOLEAN
    PROVE  AskInv([a EXCEPT !.verified = verified, !.at = IF verified THEN "verified" ELSE "withheld"], file)
  <1>1. Whole(a)
    BY DEF AskInv
  <1>2. PICK at : at = IF verified THEN "verified" ELSE "withheld"
    OBVIOUS
  <1> DEFINE next == Request(a.builder, at, a.workflow, a.command, a.kernel, a.read, a.summary, a.receipt,
                             verified, a.quiet, a.summary_passed, a.receipt_passed)
  <1>3. WithVerified(a, verified, at) = next
    BY <1>1, RequestVerified
  <1>4. AskInv(next, file)
    BY <1>2 DEF AskInv, ReadInv, Whole, Request
  <1> HIDE DEF next
  <1> QED
    BY <1>2, <1>3, <1>4 DEF WithVerified

LEMMA ChecksumIsBoolean ==
    ASSUME NEW a, NEW file, AskInv(a, file), NEW hash
    PROVE  Pipeline!checksum_verified(a.builder, hash) \in BOOLEAN
  BY BuildersFix, Zenon DEF AskInv, Pipeline!checksum_verified

LEMMA RequestHashed ==
    ASSUME NEW a, NEW file, AskInv(a, file), a.builder.checks # "dispatch", a.at = "verified"
    PROVE  AskInv([a EXCEPT !.at = "summary", !.summary = file,
                            !.summary_passed = a.verified /\ Pipeline!checksum_verified(a.builder, file)], file)
  <1>1. Whole(a) /\ a.verified = TRUE
    BY DEF AskInv, ReadInv
  <1>2. PICK p : p = (a.verified /\ Pipeline!checksum_verified(a.builder, file))
    OBVIOUS
  <1>3. p = Pipeline!checksum_verified(a.builder, file)
    BY <1>1, <1>2, ChecksumIsBoolean
  <1> DEFINE next == Request(a.builder, "summary", a.workflow, a.command, a.kernel, a.read, file, a.receipt,
                             a.verified, a.quiet, p, a.receipt_passed)
  <1>4. WithSummary(a, "summary", file, p) = next
    BY <1>1, RequestSummary
  <1>5. AskInv(next, file)
    BY <1>1, <1>3 DEF AskInv, ReadInv, Whole, Request
  <1> HIDE DEF next
  <1> QED
    BY <1>2, <1>4, <1>5 DEF WithSummary

LEMMA RequestReceipted ==
    ASSUME NEW a, NEW file, AskInv(a, file), a.builder.checks # "dispatch", a.at = "summary"
    PROVE  AskInv([a EXCEPT !.at = "answered", !.receipt = file,
                            !.receipt_passed =
                                /\ a.verified
                                /\ Pipeline!checksum_verified(a.builder, file)
                                /\ a.builder.checks = "source" =>
                                       Pipeline!checksum_verified(a.builder, a.summary)], file)
  <1>1. Whole(a) /\ a.verified = TRUE
    BY DEF AskInv, ReadInv
  <1>2. PICK p : p = /\ a.verified
                     /\ Pipeline!checksum_verified(a.builder, file)
                     /\ a.builder.checks = "source" => Pipeline!checksum_verified(a.builder, a.summary)
    BY Zenon
  <1>3. p = /\ Pipeline!checksum_verified(a.builder, file)
            /\ a.builder.checks = "source" => Pipeline!checksum_verified(a.builder, a.summary)
    BY <1>1, <1>2, ChecksumIsBoolean
  <1> DEFINE next == Request(a.builder, "answered", a.workflow, a.command, a.kernel, a.read, a.summary, file,
                             a.verified, a.quiet, a.summary_passed, p)
  <1>4. WithReceipt(a, "answered", file, p) = next
    BY <1>1, RequestReceipt
  <1>5. AskInv(next, file)
    BY <1>1, <1>3 DEF AskInv, ReadInv, Whole, Request
  <1> HIDE DEF next
  <1> QED
    BY <1>2, <1>4, <1>5 DEF WithReceipt

LEMMA AskReads ==
    ASSUME AsksInv, NEW r \in Questions, ~Pipeline!Dispatched(r),
           \/ Pipeline!execute_workflow_for_plan(r)
           \/ Pipeline!verify_executed_workflow(r)
           \/ Pipeline!HashForSummary(r)
           \/ Pipeline!execution_receipt_with_checks(r)
    PROVE  AsksInv'
  <1>0. AskInv(ask[r], dataset) /\ ask[r].builder.checks # "dispatch"
    BY DEF AsksInv, Pipeline!Dispatched
  <1>1. ASSUME Pipeline!execute_workflow_for_plan(r) PROVE AsksInv'
    <2>1. PICK passed \in Pipeline!build_verification(ask[r].builder, dataset) :
             Pipeline!Progress(r, [ask[r] EXCEPT !.read = dataset, !.verified = passed,
                                      !.at = IF passed THEN "executed" ELSE "withheld"])
      BY <1>1, Zenon DEF Pipeline!execute_workflow_for_plan
    <2>2. PICK next : next = [ask[r] EXCEPT !.read = dataset, !.verified = passed,
                                            !.at = IF passed THEN "executed" ELSE "withheld"]
      OBVIOUS
    <2>3. AskInv(next, dataset)
      BY <1>0, <1>1, <2>2, RequestExecuted, Zenon DEF Pipeline!execute_workflow_for_plan
    <2> QED
      BY <2>1, <2>2, <2>3, AskProgress, Zenon DEF Pipeline!Progress
  <1>2. ASSUME Pipeline!verify_executed_workflow(r) PROVE AsksInv'
    <2>1. PICK verified \in BOOLEAN :
             Pipeline!Progress(r, [ask[r] EXCEPT !.verified = verified,
                                      !.at = IF verified THEN "verified" ELSE "withheld"])
      BY <1>2, Zenon DEF Pipeline!verify_executed_workflow
    <2>2. PICK next : next = [ask[r] EXCEPT !.verified = verified,
                                            !.at = IF verified THEN "verified" ELSE "withheld"]
      OBVIOUS
    <2>3. AskInv(next, dataset)
      BY <1>0, <1>2, <2>2, RequestChecked, Zenon DEF Pipeline!verify_executed_workflow
    <2> QED
      BY <2>1, <2>2, <2>3, AskProgress, Zenon DEF Pipeline!Progress
  <1>3. ASSUME Pipeline!HashForSummary(r) PROVE AsksInv'
    <2>1. PICK next : next = [ask[r] EXCEPT !.at = "summary", !.summary = dataset,
                                 !.summary_passed = ask[r].verified /\ Pipeline!checksum_verified(ask[r].builder, dataset)]
      OBVIOUS
    <2>2. AskInv(next, dataset)
      BY <1>0, <1>3, <2>1, RequestHashed, Zenon DEF Pipeline!HashForSummary
    <2> QED
      BY <1>3, <2>1, <2>2, AskProgress, Zenon DEF Pipeline!HashForSummary, Pipeline!Progress
  <1>4. ASSUME Pipeline!execution_receipt_with_checks(r) PROVE AsksInv'
    <2>1. PICK next : next = [ask[r] EXCEPT !.at = "answered", !.receipt = dataset,
                                 !.receipt_passed =
                                     /\ ask[r].verified
                                     /\ Pipeline!checksum_verified(ask[r].builder, dataset)
                                     /\ ask[r].builder.checks = "source" =>
                                            Pipeline!checksum_verified(ask[r].builder, ask[r].summary)]
      OBVIOUS
    <2>2. AskInv(next, dataset)
      BY <1>0, <1>4, <2>1, RequestReceipted, Zenon DEF Pipeline!execution_receipt_with_checks
    <2> QED
      BY <1>4, <2>1, <2>2, AskProgress, Zenon DEF Pipeline!execution_receipt_with_checks, Pipeline!source_checks, Pipeline!Progress
  <1> QED
    BY <1>1, <1>2, <1>3, <1>4

LEMMA AskNext ==
    ASSUME AsksInv, Pipeline!Next PROVE AsksInv'
  <1>1. CASE Pipeline!Replace
    BY <1>1, AskReplaced
  <1>2. ASSUME NEW r \in Questions, Pipeline!Steps(r) PROVE AsksInv'
    <2>1. CASE Pipeline!Dispatched(r)
      BY <1>2, <2>1, AskDispatches DEF Pipeline!Steps, Pipeline!execute_workflow_for_plan, Pipeline!verify_executed_workflow,
           Pipeline!HashForSummary, Pipeline!execution_receipt_with_checks
    <2>2. CASE ~Pipeline!Dispatched(r)
      BY <1>2, <2>2, AskReads, Zenon DEF Pipeline!Steps, Pipeline!nagoya_population_density_workflow_for_dataset,
           Pipeline!command_for_workflow, Pipeline!run_nagoya_population_density_for_dataset,
           Pipeline!NagoyaWorkflowExecutor_execute, Pipeline!receipt_from_dispatch
    <2> QED
      BY <2>1, <2>2
  <1> QED
    BY <1>1, <1>2 DEF Pipeline!Next

LEMMA AskAnswers ==
    ASSUME AsksInv PROVE AnswersMatchTheirData
  <1>1. ASSUME NEW r \in Questions, Pipeline!Dispatched(r), ask[r].at = "answered"
        PROVE  /\ {ask[r].workflow, ask[r].command, ask[r].kernel} = {"declared"}
               /\ Pipeline!SameData(ask[r].read, "declared")
    BY <1>1 DEF AsksInv, AskInv, DispatchedInv, Pipeline!Dispatched, Pipeline!SameData
  <1>2. ASSUME NEW r \in Questions, ask[r].at = "answered", ask[r].quiet
        PROVE  /\ ask[r].receipt = ask[r].read
               /\ ask[r].receipt_passed = ask[r].summary_passed
               /\ ask[r].receipt_passed = Pipeline!checksum_verified(ask[r].builder, ask[r].read)
    <2> PICK a : a = ask[r]
      OBVIOUS
    <2>0. AskInv(a, dataset)
      BY DEF AsksInv
    <2>1. CASE a.builder.checks = "dispatch"
      BY <1>2, <2>0, <2>1, BuildersFix, Zenon DEF AskInv, DispatchedInv, Pipeline!checksum_verified
    <2>2. CASE a.builder.checks # "dispatch"
      <3>1. /\ a.receipt = a.read /\ a.summary = a.receipt
            /\ a.summary_passed = Pipeline!checksum_verified(a.builder, a.read)
            /\ a.receipt_passed = /\ Pipeline!checksum_verified(a.builder, a.read)
                                  /\ a.builder.checks = "source" => Pipeline!checksum_verified(a.builder, a.read)
        BY <1>2, <2>0, <2>2, Zenon DEF AskInv, ReadInv
      <3>2. Pipeline!checksum_verified(a.builder, a.read) \in BOOLEAN
        BY <2>0, BuildersFix, Zenon DEF AskInv, Pipeline!checksum_verified
      <3> QED
        BY <3>1, <3>2, Zenon
    <2> QED
      BY <2>1, <2>2
  <1>3. ASSUME NEW r \in Questions, ask[r].at = "answered", ask[r].builder.checks = "source"
        PROVE  ask[r].receipt_passed => ask[r].summary_passed
    BY <1>3, Zenon DEF AsksInv, AskInv, ReadInv
  <1> QED
    BY <1>1, <1>2, <1>3 DEF AnswersMatchTheirData, DensityAnswersAreDeclared, QuietReceiptsAgree,
         SourceReceiptsCoverSummary, Pipeline!DensityAnswersAreDeclared, Pipeline!QuietReceiptsAgree,
         Pipeline!SourceReceiptsCoverSummary

\* Whatever replaces the dataset, and however many questions are answered at
\* once, a density map is of the declared data, a quiet receipt attests what
\* was read, and a source receipt that passed covers its summary.
THEOREM AnswersMatchTheirDataTheorem ==
    SessionsSpec => []AnswersMatchTheirData
  <1>1. SessionsInit => AsksInv
    BY AskStarts DEF SessionsInit
  <1>2. AsksInv /\ [SessionsNext]_allVars => AsksInv'
    <2>1. ASSUME AsksInv, Pipeline!Next PROVE AsksInv'
      BY <2>1, AskNext
    <2>2. ASSUME AsksInv, UNCHANGED askVars PROVE AsksInv'
      <3>1. ask' = ask /\ dataset' = dataset
        BY <2>2 DEF askVars
      <3>2. ASSUME NEW r \in Questions PROVE AskInv(ask[r], dataset)'
        BY <2>2, <3>1, Zenon DEF AsksInv, AskInv, Whole, DispatchedInv, ReadInv
      <3> QED
        BY <2>2, <3>1, <3>2 DEF AsksInv
    <2> QED
      BY <2>1, <2>2 DEF SessionsNext, Still, allVars
  <1> QED
    BY <1>1, <1>2, AskAnswers, PTL DEF SessionsSpec

-----------------------------------------------------------------------------
(* Plugins.  A revocation that was accepted stays in the registry.         *)

Revoked(id, version) ==
    /\ <<id, version>> \in DOMAIN registry
    /\ registry[<<id, version>>].revocation # <<>>

ReleaseSigned(release) ==
    /\ release = [manifest |-> release.manifest, manifest_digest |-> release.manifest_digest,
                  signature |-> release.signature, revocation |-> release.revocation]
    /\ release.signature \in {Plugins!sign_plugin_release(release.manifest, t) : t \in Trusted}
    /\ release.revocation # <<>> => release.revocation[1].signature.by \in Trusted

\* What is known of one event that was accepted as the k-th.
EventFinal(k) ==
    /\ accepted[k].kind = "artifact" => ~Plugins!RevokedBefore(k, accepted[k].id, accepted[k].version)
    /\ accepted[k].kind = "admit" =>
         \A i \in DOMAIN accepted[k].pack.plugins :
             ~Plugins!RevokedBefore(k, accepted[k].pack.plugins[i].plugin_id, accepted[k].pack.plugins[i].version)

EventMeant(e) ==
    /\ e.kind = "revoke" => e.meant = <<e.id, e.version>>
    /\ e.kind = "load" =>
         /\ e.wasm = e.manifest.artifact
         /\ e.capabilities = Plugins!Range(e.manifest.capabilities)
         /\ e.capabilities \subseteq Allowed

RegistryInv ==
    /\ registry = [key \in DOMAIN registry |-> registry[key]]
    /\ \A key \in DOMAIN registry : ReleaseSigned(registry[key])

BundleInv ==
    /\ bundle \in [manifest : Manifests, wasm : Wasm]
    /\ loading = <<>> \/ \E m \in Manifests : loading = <<m>> /\ Plugins!discover_bundle(m)

EventsInv ==
    /\ \E S : accepted \in Seq(S)
    /\ \A k \in 1..Len(accepted) :
         /\ EventFinal(k)
         /\ EventMeant(accepted[k])
         /\ accepted[k].kind = "revoke" => Revoked(accepted[k].id, accepted[k].version)

PluginsInv == RegistryInv /\ BundleInv /\ EventsInv

LEMMA PluginsStart ==
    ASSUME Plugins!Init PROVE PluginsInv
  <1>1. RegistryInv
    BY DEF Plugins!Init, RegistryInv
  <1>2. BundleInv
    BY DEF Plugins!Init, BundleInv
  <1>3. EventsInv
    BY DEF Plugins!Init, EventsInv
  <1> QED
    BY <1>1, <1>2, <1>3 DEF PluginsInv

\* An accepted event leaves what was known of the earlier ones.
LEMMA EventAccepted ==
    ASSUME EventsInv, NEW e, accepted' = Append(accepted, e),
           \A id, version : Revoked(id, version) => Revoked(id, version)',
           EventMeant(e),
           e.kind = "revoke" => Revoked(e.id, e.version)',
           e.kind = "artifact" => ~Revoked(e.id, e.version),
           e.kind = "admit" => \A i \in DOMAIN e.pack.plugins :
                                  ~Revoked(e.pack.plugins[i].plugin_id, e.pack.plugins[i].version)
    PROVE  EventsInv'
  <1> DEFINE n == Len(accepted)
  <1>a. PICK S : accepted \in Seq(S)
    BY DEF EventsInv
  <1>b. accepted \in Seq(S \cup {e})
    BY <1>a
  <1>0. n \in Nat
    BY <1>a
  <1>1. /\ \E T : accepted' \in Seq(T)
        /\ Len(accepted') = n + 1
        /\ \A k \in 1..n : accepted'[k] = accepted[k]
        /\ accepted'[n + 1] = e
    BY <1>b
  <1> HIDE DEF n
  <1>2. ASSUME NEW k \in 1..(n + 1), NEW id, NEW version, Plugins!RevokedBefore(k, id, version)'
        PROVE  Revoked(id, version) /\ (k \in 1..n => Plugins!RevokedBefore(k, id, version))
    <2>1. PICK j \in 1..(k - 1) : accepted'[j].kind = "revoke" /\ accepted'[j].id = id /\ accepted'[j].version = version
      BY <1>2, Zenon DEF Plugins!RevokedBefore
    <2>2. j \in 1..n /\ accepted[j] = accepted'[j]
      BY <1>0, <1>1
    <2> QED
      BY <2>1, <2>2 DEF EventsInv, Plugins!RevokedBefore, n
  <1>3. ASSUME NEW k \in 1..(n + 1)
        PROVE  /\ EventFinal(k)'
               /\ EventMeant(accepted'[k])
               /\ accepted'[k].kind = "revoke" => Revoked(accepted[k].id, accepted[k].version)'
    <2>1. CASE k = n + 1
      BY <1>1, <1>2, <2>1 DEF EventFinal
    <2>2. CASE k \in 1..n
      <3>1. accepted'[k] = accepted[k]
        BY <1>1, <2>2
      <3>2. EventFinal(k) /\ EventMeant(accepted[k])
            /\ (accepted[k].kind = "revoke" => Revoked(accepted[k].id, accepted[k].version))
        BY <2>2 DEF EventsInv, n
      <3>3. EventFinal(k)'
        BY <1>2, <2>2, <3>1, <3>2 DEF EventFinal
      <3> QED
        BY <3>1, <3>2, <3>3
    <2>3. k = n + 1 \/ k \in 1..n
      BY <1>0
    <2> QED
      BY <2>1, <2>2, <2>3, Zenon
  <1> QED
    BY <1>1, <1>3 DEF EventsInv, EventMeant

LEMMA PluginPublished ==
    ASSUME PluginsInv, NEW m \in Manifests, NEW signed \in Manifests, NEW key \in SigningKeys,
           Plugins!Publish(m, Plugins!sign_plugin_release(signed, key))
    PROVE  PluginsInv'
  <1> DEFINE signature == Plugins!sign_plugin_release(signed, key)
             at == <<m.id, m.version>>
             release == [manifest |-> m, manifest_digest |-> m, signature |-> signature, revocation |-> <<>>]
             e == [kind |-> "publish", id |-> m.id, version |-> m.version]
  <1>1. /\ Plugins!publish(registry, m, signature).ok
        /\ registry' = Plugins!publish(registry, m, signature).registry
        /\ accepted' = Append(accepted, e) /\ bundle' = bundle /\ loading' = loading
    BY DEF Plugins!Publish, Plugins!execute_plugin_registry_operation
  <1>2. /\ Plugins!verify_signed_bytes(signature, Plugins!canonical(m))
        /\ at \notin DOMAIN registry
        /\ registry' = [k \in DOMAIN registry \cup {at} |-> IF k = at THEN release ELSE registry[k]]
    BY <1>1 DEF Plugins!publish, Plugins!release_key, Plugins!insert
  <1>3. signed = m /\ key \in Trusted
    BY <1>2 DEF Plugins!verify_signed_bytes, Plugins!canonical, Plugins!sign_plugin_release, Plugins!sign
  <1>4. ReleaseSigned(release)
    <2>1. signature \in {Plugins!sign_plugin_release(m, t) : t \in Trusted}
      BY <1>3
    <2> HIDE DEF signature
    <2> QED
      BY <2>1 DEF ReleaseSigned
  <1>5. RegistryInv'
    <2> HIDE DEF release, at
    <2>1. \A k \in DOMAIN registry' : ReleaseSigned(registry'[k])
      BY <1>2, <1>4 DEF PluginsInv, RegistryInv
    <2>2. registry' = [k \in DOMAIN registry' |-> registry'[k]]
      BY <1>2
    <2> QED
      BY <2>1, <2>2 DEF RegistryInv, ReleaseSigned
  <1>6. BundleInv'
    BY <1>1 DEF PluginsInv, BundleInv
  <1>7. ASSUME NEW id, NEW version, Revoked(id, version) PROVE Revoked(id, version)'
    <2> HIDE DEF release, at
    <2> QED
      BY <1>2, <1>7 DEF Revoked
  <1>8. EventsInv'
    <2>2. e.kind = "publish"
      OBVIOUS
    <2> HIDE DEF e
    <2>3. EventMeant(e)
      BY <2>2 DEF EventMeant
    <2> QED
      BY <1>1, <1>7, <2>2, <2>3, EventAccepted DEF PluginsInv
  <1> QED
    BY <1>5, <1>6, <1>8 DEF PluginsInv

LEMMA PluginRevoked ==
    ASSUME PluginsInv, NEW from \in Plugins!Releases, NEW to \in Plugins!Releases, NEW key \in SigningKeys,
           Plugins!Revoke(Plugins!sign_plugin_revocation(from[1], from[2], "unsafe", key), to[1], to[2])
    PROVE  PluginsInv'
  <1> DEFINE signature == Plugins!sign(Plugins!revocation_payload(from[1], from[2], "unsafe"), key)
             r == Plugins!sign_plugin_revocation(from[1], from[2], "unsafe", key)
             readdressed == [r EXCEPT !.plugin_id = to[1], !.version = to[2]]
             stamped == [readdressed EXCEPT !.revocation_digest = Plugins!revocation_digest(readdressed)]
             e == [kind |-> "revoke", id |-> to[1], version |-> to[2], meant |-> <<from[1], from[2]>>]
             at == <<to[1], to[2]>>
  <1>1. /\ r.plugin_id = from[1] /\ r.version = from[2]
        /\ stamped.plugin_id = to[1] /\ stamped.version = to[2] /\ stamped.reason = "unsafe"
        /\ stamped.signature = signature
    BY DEF Plugins!sign_plugin_revocation
  <1>2. /\ Plugins!revoke(registry, stamped).ok
        /\ registry' = Plugins!revoke(registry, stamped).registry
        /\ accepted' = Append(accepted, e) /\ bundle' = bundle /\ loading' = loading
    <2>1. Plugins!execute_plugin_registry_operation(
              [kind |-> "revoke", id |-> to[1], version |-> to[2], meant |-> <<r.plugin_id, r.version>>],
              Plugins!revoke(registry, stamped))
      BY DEF Plugins!Revoke
    <2> HIDE DEF r, stamped
    <2> QED
      BY <1>1, <2>1 DEF Plugins!execute_plugin_registry_operation
  <1> HIDE DEF r, readdressed, stamped
  <1>3. /\ Plugins!verify_signed_bytes(signature, Plugins!revocation_payload(to[1], to[2], "unsafe"))
        /\ at \in DOMAIN registry
        /\ registry' = [registry EXCEPT ![at].revocation = <<stamped>>]
    BY <1>1, <1>2, Zenon DEF Plugins!revoke, Plugins!release_key
  <1>4. to[1] = from[1] /\ to[2] = from[2] /\ signature.by \in Trusted
    BY <1>3 DEF Plugins!verify_signed_bytes, Plugins!revocation_payload, Plugins!sign
  <1> HIDE DEF signature, at
  <1> DEFINE was == registry[at]
             release == [manifest |-> was.manifest, manifest_digest |-> was.manifest_digest,
                         signature |-> was.signature, revocation |-> <<stamped>>]
  <1>5. ReleaseSigned(was)
    BY <1>3 DEF PluginsInv, RegistryInv
  <1>6. registry' = [k \in DOMAIN registry |-> IF k = at THEN release ELSE registry[k]]
    <2>1. release = [was EXCEPT !.revocation = <<stamped>>]
      BY <1>5 DEF ReleaseSigned
    <2> HIDE DEF release
    <2> QED
      BY <1>3, <2>1, Zenon DEF PluginsInv, RegistryInv
  <1>7. ReleaseSigned(release)
    BY <1>1, <1>4, <1>5 DEF ReleaseSigned
  <1>8. release.revocation # <<>>
    OBVIOUS
  <1> HIDE DEF release, was
  <1>9. RegistryInv'
    <2>1. \A k \in DOMAIN registry' : ReleaseSigned(registry'[k])
      BY <1>6, <1>7 DEF PluginsInv, RegistryInv
    <2>2. registry' = [k \in DOMAIN registry' |-> registry'[k]]
      BY <1>6
    <2> QED
      BY <2>1, <2>2 DEF RegistryInv, ReleaseSigned
  <1>10. BundleInv'
    BY <1>2 DEF PluginsInv, BundleInv
  <1>11. ASSUME NEW id, NEW version, Revoked(id, version) PROVE Revoked(id, version)'
    BY <1>3, <1>6, <1>8, <1>11 DEF Revoked
  <1>12. Revoked(to[1], to[2])'
    BY <1>3, <1>6, <1>8 DEF Revoked, at
  <1>13. EventsInv'
    <2>2. e.kind = "revoke" /\ e.id = to[1] /\ e.version = to[2] /\ e.meant = <<to[1], to[2]>>
      BY <1>4
    <2> HIDE DEF e
    <2>3. EventMeant(e)
      BY <2>2 DEF EventMeant
    <2>4. Revoked(e.id, e.version)'
      BY <1>12, <2>2 DEF Revoked
    <2> QED
      BY <1>2, <1>11, <2>2, <2>3, <2>4, EventAccepted DEF PluginsInv
  <1> QED
    BY <1>9, <1>10, <1>13 DEF PluginsInv

LEMMA PackAdmitted ==
    ASSUME PluginsInv, NEW p \in Packs, Plugins!admit_solution_pack_workflow(p)
    PROVE  PluginsInv'
  <1> DEFINE e == [kind |-> "admit", pack |-> p]
  <1>1. /\ Plugins!verify_solution_pack(Plugins!seal_solution_pack(p), registry)
        /\ accepted' = Append(accepted, e) /\ registry' = registry /\ bundle' = bundle /\ loading' = loading
    BY DEF Plugins!admit_solution_pack_workflow
  <1>2. \A i \in DOMAIN p.plugins : ~Revoked(p.plugins[i].plugin_id, p.plugins[i].version)
    BY <1>1, Zenon DEF Plugins!verify_solution_pack, Plugins!seal_solution_pack, Plugins!resolve, Plugins!release_key, Revoked
  <1>4. e.kind = "admit" /\ e.pack = p
    OBVIOUS
  <1> HIDE DEF e
  <1>5. EventMeant(e)
    BY <1>4 DEF EventMeant
  <1>6. ASSUME NEW id, NEW version, Revoked(id, version) PROVE Revoked(id, version)'
    BY <1>1, <1>6 DEF Revoked
  <1>7. EventsInv'
    BY <1>1, <1>2, <1>4, <1>5, <1>6, EventAccepted DEF PluginsInv
  <1> QED
    BY <1>1, <1>7 DEF PluginsInv, RegistryInv, BundleInv, ReleaseSigned

LEMMA ArtifactAccepted ==
    ASSUME PluginsInv, NEW r \in Plugins!Releases, NEW bytes \in Wasm, Plugins!Artifact(r[1], r[2], bytes)
    PROVE  PluginsInv'
  <1> DEFINE e == [kind |-> "artifact", id |-> r[1], version |-> r[2], bytes |-> bytes]
  <1>1. /\ Plugins!verify_artifact(registry, r[1], r[2], bytes)
        /\ accepted' = Append(accepted, e) /\ registry' = registry /\ bundle' = bundle /\ loading' = loading
    BY DEF Plugins!Artifact
  <1>2. ~Revoked(r[1], r[2])
    BY <1>1 DEF Plugins!verify_artifact, Plugins!resolve, Plugins!release_key, Revoked
  <1>4. e.kind = "artifact" /\ e.id = r[1] /\ e.version = r[2]
    OBVIOUS
  <1> HIDE DEF e
  <1>5. EventMeant(e)
    BY <1>4 DEF EventMeant
  <1>6. ASSUME NEW id, NEW version, Revoked(id, version) PROVE Revoked(id, version)'
    BY <1>1, <1>6 DEF Revoked
  <1>7. EventsInv'
    BY <1>1, <1>2, <1>4, <1>5, <1>6, EventAccepted DEF PluginsInv
  <1> QED
    BY <1>1, <1>7 DEF PluginsInv, RegistryInv, BundleInv, ReleaseSigned

\* An event list that is left alone keeps what is known of it.
LEMMA EventsStay ==
    ASSUME EventsInv, accepted' = accepted, registry' = registry PROVE EventsInv'
  BY DEF EventsInv, EventFinal, EventMeant, Revoked, Plugins!RevokedBefore

LEMMA PluginLoaded ==
    ASSUME PluginsInv, Plugins!Load PROVE PluginsInv'
  <1>1. PICK m \in Manifests : loading = <<m>> /\ Plugins!discover_bundle(m)
    BY DEF PluginsInv, BundleInv, Plugins!Load
  <1> DEFINE w == bundle.wasm
             capabilities == Plugins!effective_capabilities(Allowed, m)
             e == [kind |-> "load", manifest |-> m, wasm |-> w, capabilities |-> capabilities]
  <1>2. /\ accepted' = IF Plugins!load_bundle(m, w) THEN Append(accepted, e) ELSE accepted
        /\ registry' = registry /\ bundle' = bundle /\ loading' = <<>>
    BY <1>1 DEF Plugins!Load
  <1>3. w \in Wasm
    BY DEF PluginsInv, BundleInv
  <1>4. capabilities = Plugins!Range(m.capabilities) /\ capabilities \subseteq Allowed
    BY <1>1 DEF Plugins!discover_bundle, Plugins!validate_manifest, Plugins!effective_capabilities
  <1> HIDE DEF w, capabilities
  <1>6. /\ e.kind = "load" /\ e.manifest = m /\ e.wasm = w /\ e.capabilities = capabilities
    OBVIOUS
  <1> HIDE DEF e
  <1>7. CASE Plugins!load_bundle(m, w)
    <2>1. EventMeant(e)
      BY <1>4, <1>6, <1>7, Zenon DEF EventMeant, Plugins!load_bundle
    <2>2. ASSUME NEW id, NEW version, Revoked(id, version) PROVE Revoked(id, version)'
      BY <1>2, <2>2 DEF Revoked
    <2>3. EventsInv'
      BY <1>2, <1>6, <1>7, <2>1, <2>2, EventAccepted DEF PluginsInv
    <2> QED
      BY <1>2, <2>3 DEF PluginsInv, RegistryInv, BundleInv, ReleaseSigned
  <1>8. CASE ~Plugins!load_bundle(m, w)
    BY <1>2, <1>8, EventsStay DEF PluginsInv, RegistryInv, BundleInv, ReleaseSigned
  <1> QED
    BY <1>7, <1>8

LEMMA PluginsNext ==
    ASSUME PluginsInv, Plugins!Next PROVE PluginsInv'
  <1>1. CASE Plugins!Discover
    <2>1. registry' = registry /\ bundle' = bundle /\ accepted' = accepted
          /\ loading' = <<bundle.manifest>> /\ Plugins!discover_bundle(bundle.manifest)
      BY <1>1 DEF Plugins!Discover
    <2>2. bundle.manifest \in Manifests
      BY DEF PluginsInv, BundleInv
    <2> QED
      BY <2>1, <2>2, EventsStay DEF PluginsInv, RegistryInv, BundleInv, ReleaseSigned
  <1>2. CASE Plugins!Install
    <2>1. registry' = registry /\ loading' = loading /\ accepted' = accepted
          /\ bundle' \in [manifest : Manifests, wasm : Wasm]
      BY <1>2 DEF Plugins!Install, PluginsInv, BundleInv
    <2> QED
      BY <2>1, EventsStay DEF PluginsInv, RegistryInv, BundleInv, ReleaseSigned
  <1> QED
    BY <1>1, <1>2, PluginPublished, PluginRevoked, PackAdmitted, ArtifactAccepted, PluginLoaded
       DEF Plugins!Next

\* Whatever the manifests, keys, packs, templates and module files are, and
\* however long the host runs: no event uses a release after its revocation,
\* no signature serves a release or a revocation it was not made for, and a
\* loaded module is the one its manifest declares.
THEOREM PluginsRunAsSignedTheorem ==
    SessionsSpec => []PluginsRunAsSigned
  <1>1. SessionsInit => PluginsInv
    BY PluginsStart DEF SessionsInit
  <1>2. PluginsInv /\ [SessionsNext]_allVars => PluginsInv'
    <2>1. ASSUME PluginsInv, Plugins!Next PROVE PluginsInv'
      BY <2>1, PluginsNext
    <2>2. ASSUME PluginsInv, UNCHANGED pluginVars PROVE PluginsInv'
      BY <2>2, EventsStay DEF PluginsInv, RegistryInv, BundleInv, ReleaseSigned, pluginVars
    <2> QED
      BY <2>1, <2>2 DEF SessionsNext, Still, allVars
  <1>3. PluginsInv => PluginsRunAsSigned
    <2> SUFFICES ASSUME PluginsInv PROVE PluginsRunAsSigned
      OBVIOUS
    <2>2. DOMAIN accepted = 1..Len(accepted)
      BY DEF PluginsInv, EventsInv
    <2>3. Plugins!RevocationIsFinal
      BY <2>2 DEF PluginsInv, EventsInv, EventFinal, Plugins!RevocationIsFinal
    <2>4. Plugins!SignaturesCoverTheirRelease
      BY <2>2 DEF PluginsInv, RegistryInv, ReleaseSigned, EventsInv, EventMeant, Plugins!SignaturesCoverTheirRelease
    <2>5. Plugins!LoadedAsDeclared
      BY <2>2 DEF PluginsInv, EventsInv, EventMeant, Plugins!LoadedAsDeclared
    <2> QED
      BY <2>3, <2>4, <2>5 DEF PluginsRunAsSigned, RevocationIsFinal, SignaturesCoverTheirRelease, LoadedAsDeclared
  <1> QED
    BY <1>1, <1>2, <1>3, PTL DEF SessionsSpec

-----------------------------------------------------------------------------
(* The versions in one line: those undo returns to, the draft, and those   *)
(* redo returns to, the next one first.                                    *)

Line(u, w, r) == u \o <<w>> \o Composer!Reverse(r)

LEMMA SameSequence ==
    ASSUME NEW S, NEW s \in Seq(S), NEW t \in Seq(S), Len(s) = Len(t),
           \A i \in 1 .. Len(s) : s[i] = t[i]
    PROVE  s = t
  OBVIOUS

LEMMA Reversed ==
    ASSUME NEW S, NEW r \in Seq(S)
    PROVE  /\ Composer!Reverse(r) \in Seq(S) /\ Len(Composer!Reverse(r)) = Len(r)
           /\ \A i \in 1 .. Len(r) : Composer!Reverse(r)[i] = r[(Len(r) - i) + 1]
  <1>1. Composer!Reverse(r) = [i \in 1 .. Len(r) |-> r[(Len(r) - i) + 1]]
    BY DEF Composer!Reverse
  <1>2. \A i \in 1 .. Len(r) : (Len(r) - i) + 1 \in 1 .. Len(r)
    OBVIOUS
  <1>3. [i \in 1 .. Len(r) |-> r[(Len(r) - i) + 1]] \in [1 .. Len(r) -> S]
    BY <1>2
  <1> QED
    BY <1>1, <1>3

\* c is s followed by t.
Joined(c, s, t) ==
    /\ Len(c) = Len(s) + Len(t)
    /\ \A i \in 1 .. Len(s) : c[i] = s[i]
    /\ \A i \in 1 .. Len(t) : c[Len(s) + i] = t[i]

LEMMA Concatenated ==
    ASSUME NEW S, NEW s \in Seq(S), NEW t \in Seq(S)
    PROVE  s \o t \in Seq(S) /\ Joined(s \o t, s, t)
  <1>1. s \o t \in Seq(S) /\ Len(s \o t) = Len(s) + Len(t)
    OBVIOUS
  <1>2. \A i \in 1 .. Len(s) : (s \o t)[i] = s[i]
    OBVIOUS
  <1>3. \A i \in 1 .. Len(t) : (s \o t)[Len(s) + i] = t[i]
    OBVIOUS
  <1> QED
    BY <1>1, <1>2, <1>3 DEF Joined

\* l holds the versions of the stack u, then w, then those of r from its top.
Lists(l, u, w, r) ==
    /\ Len(l) = Len(u) + 1 + Len(r)
    /\ \A i \in 1 .. Len(u) : l[i] = u[i]
    /\ l[Len(u) + 1] = w
    /\ \A i \in 1 .. Len(r) : l[Len(u) + 1 + i] = r[(Len(r) - i) + 1]

LEMMA LineVersions ==
    ASSUME NEW S, NEW u \in Seq(S), NEW w \in S, NEW r \in Seq(S)
    PROVE  Line(u, w, r) \in Seq(S) /\ Lists(Line(u, w, r), u, w, r)
  <1>1. PICK v, q : v = u \o <<w>> /\ q = Composer!Reverse(r)
    BY Zenon
  <1>2. <<w>> \in Seq(S) /\ Len(<<w>>) = 1 /\ <<w>>[1] = w
    OBVIOUS
  <1>3. v \in Seq(S) /\ Joined(v, u, <<w>>)
    BY <1>1, <1>2, Concatenated, Zenon
  <1>4. /\ v \in Seq(S) /\ Len(v) = Len(u) + 1 /\ v[Len(u) + 1] = w
        /\ \A i \in 1 .. Len(u) : v[i] = u[i]
    BY <1>2, <1>3 DEF Joined
  <1>5. /\ q \in Seq(S) /\ Len(q) = Len(r)
        /\ \A i \in 1 .. Len(r) : q[i] = r[(Len(r) - i) + 1]
    BY <1>1, Reversed
  <1>6. PICK l : l = v \o q
    BY Zenon
  <1>7. l \in Seq(S) /\ Joined(l, v, q)
    BY <1>4, <1>5, <1>6, Concatenated
  <1>8. Lists(l, u, w, r)
    <2>1. Len(u) \in Nat /\ Len(r) \in Nat
      OBVIOUS
    <2>2. Len(l) = Len(u) + 1 + Len(r)
      BY <1>4, <1>5, <1>7 DEF Joined
    <2>3. \A i \in 1 .. Len(u) + 1 : l[i] = v[i]
      BY <1>4, <1>7 DEF Joined
    <2>4. \A i \in 1 .. Len(r) : l[Len(u) + 1 + i] = q[i]
      BY <1>4, <1>5, <1>7 DEF Joined
    <2>5. \A i \in 1 .. Len(u) : l[i] = u[i]
      BY <1>4, <2>1, <2>3
    <2>6. l[Len(u) + 1] = w
      BY <1>4, <2>1, <2>3
    <2> QED
      BY <1>5, <2>2, <2>4, <2>5, <2>6 DEF Lists
  <1>9. l = Line(u, w, r)
    BY <1>1, <1>6 DEF Line
  <1> QED
    BY <1>7, <1>8, <1>9

LEMMA Cut ==
    ASSUME NEW S, NEW s \in Seq(S), NEW n \in 0 .. Len(s)
    PROVE  /\ SubSeq(s, 1, n) \in Seq(S) /\ Len(SubSeq(s, 1, n)) = n
           /\ \A i \in 1 .. n : SubSeq(s, 1, n)[i] = s[i]
  OBVIOUS

\* Taking the top of one stack and laying the draft on the other moves the
\* position and leaves the line as it is.
LEMMA SameLine ==
    ASSUME NEW S, NEW u \in Seq(S), NEW w \in S, NEW r \in Seq(S), u # << >>
    PROVE  /\ Composer!Front(u) \in Seq(S) /\ Composer!Last(u) \in S /\ Len(Composer!Front(u)) = Len(u) - 1
           /\ \A i \in 1 .. Len(u) - 1 : Composer!Front(u)[i] = u[i]
           /\ Composer!Last(u) = u[Len(u)] /\ Len(u) > 0
           /\ Line(Composer!Front(u), Composer!Last(u), Append(r, w)) = Line(u, w, r)
  <1> DEFINE f == Composer!Front(u)
             x == Composer!Last(u)
             t == Append(r, w)
  <1>1. Len(u) \in Nat /\ Len(u) > 0 /\ Len(r) \in Nat
    OBVIOUS
  <1>2. /\ f \in Seq(S) /\ Len(f) = Len(u) - 1
        /\ \A i \in 1 .. Len(u) - 1 : f[i] = u[i]
    <2>1. Len(u) - 1 \in 0 .. Len(u)
      BY <1>1
    <2>2. PICK n : n = Len(u) - 1
      OBVIOUS
    <2>3. /\ SubSeq(u, 1, n) \in Seq(S) /\ Len(SubSeq(u, 1, n)) = n
          /\ \A i \in 1 .. n : SubSeq(u, 1, n)[i] = u[i]
      BY <2>1, <2>2, Cut
    <2>4. f = SubSeq(u, 1, n)
      BY <2>2 DEF Composer!Front
    <2> QED
      BY <2>2, <2>3, <2>4
  <1>3. x = u[Len(u)] /\ x \in S
    BY <1>1 DEF Composer!Last
  <1>4. /\ t \in Seq(S) /\ Len(t) = Len(r) + 1 /\ t[Len(r) + 1] = w
        /\ \A i \in 1 .. Len(r) : t[i] = r[i]
    OBVIOUS
  <1> HIDE DEF f, x, t
  <1>5. PICK k, l : k = Line(f, x, t) /\ l = Line(u, w, r)
    OBVIOUS
  <1>6. k \in Seq(S) /\ Lists(k, f, x, t)
    BY <1>2, <1>3, <1>4, <1>5, LineVersions
  <1>7. l \in Seq(S) /\ Lists(l, u, w, r)
    BY <1>5, LineVersions
  <1>8. Len(k) = Len(l) /\ Len(l) \in Nat
    BY <1>1, <1>2, <1>4, <1>6, <1>7 DEF Lists
  <1>9. ASSUME NEW i \in 1 .. Len(l) PROVE k[i] = l[i]
    <2>1. CASE i \in 1 .. Len(u) - 1
      <3>1. i \in 1 .. Len(f) /\ i \in 1 .. Len(u)
        BY <1>1, <1>2, <2>1
      <3>2. k[i] = f[i] /\ f[i] = u[i] /\ l[i] = u[i]
        BY <1>2, <1>6, <1>7, <2>1, <3>1 DEF Lists
      <3> QED
        BY <3>2
    <2>2. CASE i = Len(u)
      BY <1>1, <1>2, <1>3, <1>6, <1>7, <2>2 DEF Lists
    <2>3. CASE i = Len(u) + 1
      <3>1. 1 \in 1 .. Len(t) /\ (Len(t) - 1) + 1 = Len(r) + 1 /\ Len(f) + 1 + 1 = i
        BY <1>1, <1>2, <1>4, <2>3
      <3> QED
        BY <1>4, <1>6, <1>7, <2>3, <3>1 DEF Lists
    <2>4. CASE i \in Len(u) + 2 .. Len(l)
      <3>1. PICK n \in 1 .. Len(r) : i = Len(u) + 1 + n
        <4>1. i - (Len(u) + 1) \in 1 .. Len(r) /\ i = Len(u) + 1 + (i - (Len(u) + 1))
          BY <1>1, <1>7, <2>4 DEF Lists
        <4> QED
          BY <4>1, Zenon
      <3>2. l[i] = r[(Len(r) - n) + 1]
        BY <1>7, <3>1 DEF Lists
      <3>3. n + 1 \in 1 .. Len(t) /\ i = Len(f) + 1 + (n + 1)
            /\ (Len(t) - (n + 1)) + 1 = (Len(r) - n) + 1
        BY <1>1, <1>2, <1>4, <3>1
      <3>4. k[i] = t[(Len(r) - n) + 1]
        BY <1>6, <3>3, Zenon DEF Lists
      <3>5. (Len(r) - n) + 1 \in 1 .. Len(r)
        BY <1>1, <3>1
      <3> QED
        BY <1>4, <3>2, <3>4, <3>5, Zenon
    <2> QED
      BY <1>1, <1>7, <2>1, <2>2, <2>3, <2>4
  <1>10. k = l
    BY <1>6, <1>7, <1>8, <1>9, SameSequence
  <1> QED
    BY <1>1, <1>2, <1>3, <1>5, <1>10 DEF f, x, t

-----------------------------------------------------------------------------
(* The invariant.                                                           *)

\* Draft and stacks hold versions of one kind, whatever that is.
Versions(S) == workflow \in S /\ undo \in Seq(S) /\ redo \in Seq(S)

\* What is running, and what was answered, is the reviewed graph.
ReviewedRuns ==
    /\ running # Null => Composer!stable_digest(running) = reviewed_digest
    /\ answer # Null =>
          answer.command = reviewed_digest /\ Composer!stable_digest(answer.executed) = reviewed_digest

ComposerInv == (\E S : Versions(S)) /\ Composer!UndoEndsAtReviewed /\ ReviewedRuns

Edit == \E kind, edited : Composer!Commit(kind, edited)

\* Steps that leave the session's versions alone.
Beside == UNCHANGED <<reviewed_digest, workflow, undo, redo>>

LEMMA NextCases ==
    ASSUME [Composer!Next]_Composer!vars
    PROVE  \/ /\ Edit \/ Composer!Undo \/ Composer!Redo
              /\ UNCHANGED <<reviewed_digest, running, answer>>
           \/ Beside /\ (Composer!StartRun \/ (\E w : Composer!FinishRun(w)) \/ UNCHANGED <<running, answer>>)
  <1>1. ASSUME Edit \/ Composer!Undo \/ Composer!Redo PROVE UNCHANGED <<reviewed_digest, running, answer>>
    BY <1>1, Zenon DEF Edit, Composer!Undo, Composer!Redo, Composer!Commit, Composer!Record
  <1>2. ASSUME NEW goal, Composer!SetGoal(goal) PROVE Edit
    BY <1>2 DEF Composer!SetGoal, Edit
  <1>3. ASSUME NEW id, NEW name, NEW new, Composer!AddReviewedNode(id, name, new) PROVE Edit
    BY <1>3 DEF Composer!AddReviewedNode, Edit
  <1>4. ASSUME NEW n, Composer!RemoveNode(n) PROVE Edit
    BY <1>4 DEF Composer!RemoveNode, Edit
  <1>5. ASSUME NEW n, NEW parameters, Composer!SetParameters(n, parameters) PROVE Edit
    BY <1>5 DEF Composer!SetParameters, Edit
  <1>6. ASSUME NEW n, NEW port, NEW m, Composer!Connect(n, port, m) PROVE Edit
    BY <1>6 DEF Composer!Connect, Edit
  <1>7. ASSUME NEW n, NEW m, Composer!Disconnect(n, m) PROVE Edit
    BY <1>7 DEF Composer!Disconnect, Edit
  <1>8. Composer!CatalogChanges => Beside /\ UNCHANGED <<running, answer>>
    BY DEF Composer!CatalogChanges, Beside, Composer!composer
  <1>9. Composer!StartRun => Beside
    BY DEF Composer!StartRun, Beside, Composer!composer
  <1>10. \A w : Composer!FinishRun(w) => Beside
    BY DEF Composer!FinishRun, Beside, Composer!composer
  <1>11. UNCHANGED Composer!vars => Beside /\ UNCHANGED <<running, answer>>
    BY DEF Composer!vars, Beside, Composer!composer
  <1> QED
    BY <1>1, <1>2, <1>3, <1>4, <1>5, <1>6, <1>7, <1>8, <1>9, <1>10, <1>11 DEF Composer!Next

\* What each step of the stacks does to them.
LEMMA EditStacks ==
    ASSUME NEW S, Versions(S), Edit
    PROVE  \E T : /\ S \subseteq T /\ workflow' \in T
                  /\ undo' = Append(undo, workflow) /\ redo' = << >>
  <1>1. PICK kind, edited : Composer!Commit(kind, edited)
    BY DEF Edit
  <1>2. workflow' = edited /\ undo' = Append(undo, workflow) /\ redo' = << >>
    BY <1>1 DEF Composer!Commit, Composer!Record
  <1> WITNESS S \cup {edited}
  <1> QED
    BY <1>2

LEMMA WiderSequences ==
    ASSUME NEW S, NEW T, S \subseteq T, NEW s \in Seq(S)
    PROVE  s \in Seq(T)
  <1>1. s \in [1 .. Len(s) -> T] /\ Len(s) \in Nat
    OBVIOUS
  <1> QED
    BY <1>1

LEMMA StacksInv ==
    ASSUME NEW S, Versions(S), Composer!UndoEndsAtReviewed, UNCHANGED reviewed_digest, Edit \/ Composer!Undo \/ Composer!Redo
    PROVE  (\E T : Versions(T)') /\ Composer!UndoEndsAtReviewed'
  <1>1. workflow \in S /\ undo \in Seq(S) /\ redo \in Seq(S) /\ Len(undo) \in Nat
    BY DEF Versions
  <1>2. PICK grown : grown = Append(undo, workflow)
    BY Zenon
  <1>3. /\ grown \in Seq(S) /\ Len(grown) = Len(undo) + 1 /\ grown # << >>
        /\ grown[Len(undo) + 1] = workflow
        /\ \A i \in 1 .. Len(undo) : grown[i] = undo[i]
    BY <1>1, <1>2
  <1>4. Composer!stable_digest(grown[1]) = reviewed_digest
    <2>1. CASE undo = << >>
      <3>1. Len(undo) = 0
        BY <2>1
      <3>2. grown[1] = workflow
        BY <1>3, <3>1
      <3> QED
        BY <2>1, <3>2 DEF Composer!UndoEndsAtReviewed
    <2>2. CASE undo # << >>
      <3>1. 1 \in 1 .. Len(undo)
        BY <1>1, <2>2
      <3>2. grown[1] = undo[1]
        BY <1>3, <3>1
      <3> QED
        BY <2>2, <3>2 DEF Composer!UndoEndsAtReviewed
    <2> QED
      BY <2>1, <2>2
  <1>5. CASE Edit
    <2>1. PICK T : /\ S \subseteq T /\ workflow' \in T
                   /\ undo' = grown /\ redo' = << >>
      BY <1>2, <1>5, EditStacks
    <2>2. undo' \in Seq(T) /\ redo' \in Seq(T)
      BY <1>3, <2>1, WiderSequences
    <2>3. Versions(T)'
      BY <2>1, <2>2 DEF Versions
    <2>4. Composer!UndoEndsAtReviewed'
      BY <1>3, <1>4, <2>1 DEF Composer!UndoEndsAtReviewed, Composer!stable_digest
    <2> QED
      BY <2>3, <2>4
  <1>6. CASE Composer!Undo
    <2>1. undo # << >> /\ undo' = Composer!Front(undo) /\ redo' = Append(redo, workflow)
          /\ workflow' = Composer!Last(undo)
      BY <1>6 DEF Composer!Undo, Composer!Record
    <2>2. /\ Composer!Front(undo) \in Seq(S) /\ Composer!Last(undo) \in S /\ Len(Composer!Front(undo)) = Len(undo) - 1
          /\ \A i \in 1 .. Len(undo) - 1 : Composer!Front(undo)[i] = undo[i]
          /\ Composer!Last(undo) = undo[Len(undo)] /\ Len(undo) > 0
      BY <1>1, <2>1, SameLine, Zenon
    <2>3. Append(redo, workflow) \in Seq(S)
      BY <1>1
    <2>4. Versions(S)'
      BY <2>1, <2>2, <2>3 DEF Versions
    <2>5. Composer!UndoEndsAtReviewed'
      <3>1. CASE Len(undo) = 1
        <4>1. undo' = << >> /\ workflow' = undo[1]
          BY <2>1, <2>2, <3>1
        <4> QED
          BY <2>1, <4>1 DEF Composer!UndoEndsAtReviewed, Composer!stable_digest
      <3>2. CASE Len(undo) > 1
        <4>1. undo' # << >> /\ undo'[1] = undo[1]
          BY <2>1, <2>2, <3>2
        <4> QED
          BY <2>1, <4>1 DEF Composer!UndoEndsAtReviewed, Composer!stable_digest
      <3> QED
        BY <1>1, <2>2, <3>1, <3>2
    <2> QED
      BY <2>4, <2>5
  <1>7. CASE Composer!Redo
    <2>1. redo # << >> /\ redo' = Composer!Front(redo) /\ undo' = grown /\ workflow' = Composer!Last(redo)
      BY <1>2, <1>7 DEF Composer!Redo, Composer!Record
    <2>2. Composer!Front(redo) \in Seq(S) /\ Composer!Last(redo) \in S
      BY <1>1, <2>1, SameLine
    <2>3. Versions(S)'
      BY <1>3, <2>1, <2>2 DEF Versions
    <2>4. Composer!UndoEndsAtReviewed'
      BY <1>3, <1>4, <2>1 DEF Composer!UndoEndsAtReviewed, Composer!stable_digest
    <2> QED
      BY <2>3, <2>4
  <1> QED
    BY <1>5, <1>6, <1>7

LEMMA InitComposer ==
    ASSUME Composer!Init
    PROVE  ComposerInv
  <1>1. Versions({workflow})
    BY DEF Composer!Init, Versions
  <1>2. Composer!UndoEndsAtReviewed
    BY DEF Composer!Init, Composer!UndoEndsAtReviewed
  <1>3. ReviewedRuns
    BY DEF Composer!Init, ReviewedRuns
  <1> QED
    BY <1>1, <1>2, <1>3 DEF ComposerInv

LEMMA NextComposer ==
    ASSUME ComposerInv, [Composer!Next]_Composer!vars
    PROVE  ComposerInv'
  <1>1. PICK S : Versions(S)
    BY DEF ComposerInv
  <1>2. Composer!UndoEndsAtReviewed /\ ReviewedRuns
    BY DEF ComposerInv
  <1>3. ASSUME Edit \/ Composer!Undo \/ Composer!Redo, UNCHANGED <<reviewed_digest, running, answer>>
        PROVE  ComposerInv'
    <2>1. (\E T : Versions(T)') /\ Composer!UndoEndsAtReviewed'
      BY <1>1, <1>2, <1>3, StacksInv
    <2>2. ReviewedRuns'
      BY <1>2, <1>3 DEF ReviewedRuns, Composer!stable_digest
    <2> QED
      BY <2>1, <2>2 DEF ComposerInv
  <1>4. ASSUME Beside, Composer!StartRun \/ (\E w : Composer!FinishRun(w)) \/ UNCHANGED <<running, answer>>
        PROVE  ComposerInv'
    <2>1. UNCHANGED <<reviewed_digest, workflow, undo, redo>>
      BY <1>4 DEF Beside
    <2>2. Versions(S)'
      BY <1>1, <2>1 DEF Versions
    <2>3. Composer!UndoEndsAtReviewed'
      BY <1>2, <2>1 DEF Composer!UndoEndsAtReviewed, Composer!stable_digest
    <2>4. ReviewedRuns'
      <3>1. CASE Composer!StartRun
        BY <1>2, <2>1, <3>1 DEF Composer!StartRun, ReviewedRuns, Composer!stable_digest
      <3>2. ASSUME NEW w, Composer!FinishRun(w) PROVE ReviewedRuns'
        <4>1. running # Null /\ running' = Null
          BY <3>2 DEF Composer!FinishRun
        <4>2. CASE Composer!AnswerOK(w)
          <5>1. PICK d, e : d = Composer!stable_digest(running) /\ e = Composer!stable_digest(w)
            OBVIOUS
          <5>2. d = reviewed_digest /\ e = d
            BY <1>2, <4>1, <4>2, <5>1 DEF ReviewedRuns, Composer!AnswerOK
          <5>3. answer' = [command |-> d, executed |-> w]
            BY <3>2, <4>2, <5>1 DEF Composer!FinishRun
          <5>4. answer'.command = d /\ answer'.executed = w
            BY <5>3
          <5>5. Composer!stable_digest(answer.executed)' = e
            BY <5>1, <5>4 DEF Composer!stable_digest
          <5> QED
            BY <2>1, <4>1, <5>2, <5>4, <5>5 DEF ReviewedRuns
        <4>3. CASE ~Composer!AnswerOK(w)
          <5>1. answer' = answer
            BY <3>2, <4>3 DEF Composer!FinishRun
          <5> QED
            BY <1>2, <2>1, <4>1, <5>1 DEF ReviewedRuns, Composer!stable_digest
        <4> QED
          BY <4>2, <4>3
      <3>3. CASE UNCHANGED <<running, answer>>
        BY <1>2, <2>1, <3>3 DEF ReviewedRuns, Composer!stable_digest
      <3> QED
        BY <1>4, <3>1, <3>2, <3>3
    <2> QED
      BY <2>2, <2>3, <2>4 DEF ComposerInv
  <1> QED
    BY <1>3, <1>4, NextCases

\* A session that was not picked has no draft; its stacks are empty.
SessionInv == (\E S : Versions(S)) /\ (part = "composer" => ComposerInv)

LEMMA SessionStarts ==
    ASSUME SessionsInit PROVE SessionInv /\ undo = << >> /\ redo = << >>
  <1>1. Composer!Init \/ NoComposer
    BY DEF SessionsInit
  <1>2. undo = << >> /\ redo = << >>
    BY <1>1 DEF Composer!Init, NoComposer
  <1>3. Versions({workflow})
    BY <1>2 DEF Versions
  <1>4. part = "composer" => ComposerInv
    BY InitComposer DEF SessionsInit
  <1> QED
    BY <1>2, <1>3, <1>4 DEF SessionInv

LEMMA SessionSteps ==
    ASSUME [SessionsNext]_allVars PROVE [Composer!Next]_Composer!vars /\ part' = part
  <1>1. UNCHANGED composerVars => UNCHANGED Composer!vars
    BY DEF composerVars, Composer!vars, Composer!composer
  <1> QED
    BY <1>1 DEF SessionsNext, Still, allVars

LEMMA SessionNext ==
    ASSUME SessionInv, [SessionsNext]_allVars PROVE SessionInv'
  <1>1. [Composer!Next]_Composer!vars /\ part' = part
    BY SessionSteps
  <1>2. PICK S : Versions(S)
    BY DEF SessionInv
  <1>3. CASE part = "composer"
    <2>1. ComposerInv'
      BY <1>1, <1>3, NextComposer DEF SessionInv
    <2> QED
      BY <2>1 DEF SessionInv, ComposerInv
  <1>4. CASE part # "composer"
    <2>1. UNCHANGED composerVars
      BY <1>4 DEF SessionsNext, Still, allVars
    <2>2. Versions(S)'
      BY <1>2, <2>1 DEF Versions, composerVars
    <2> QED
      BY <1>1, <1>4, <2>2 DEF SessionInv
  <1> QED
    BY <1>3, <1>4

\* Undo ends at the reviewed graph, and what a session runs or reports is it,
\* after any sequence of edits, undo, redo and runs (apply, StartRun).
THEOREM SessionInvariant == SessionsSpec => []SessionInv
  BY SessionStarts, SessionNext, PTL DEF SessionsSpec

\* However a draft was edited, undone and redone, the version undo ends at is
\* the reviewed graph, and a successful answer reports a run of that graph
\* (apply, run_composer_session).
THEOREM ReviewedTheorem ==
    SessionsSpec => [](UndoEndsAtReviewed /\ (part = "composer" => ReviewedRuns))
  <1>1. SessionInv => UndoEndsAtReviewed /\ (part = "composer" => ReviewedRuns)
    BY DEF SessionInv, ComposerInv, UndoEndsAtReviewed
  <1> QED
    BY <1>1, SessionInvariant, PTL

-----------------------------------------------------------------------------
(* The session implements LinearHistory.                                    *)

LEMMA InitHistory ==
    ASSUME undo = << >>, redo = << >>
    PROVE  Composer!History!Init
  <1>1. PICK S : S = {workflow}
    BY Zenon
  <1>2. workflow \in S /\ << >> \in Seq(S) /\ Len(<< >>) = 0
    BY <1>1
  <1>3. Lists(Line(<< >>, workflow, << >>), << >>, workflow, << >>)
    BY <1>2, LineVersions, Zenon
  <1>4. Len(Line(<< >>, workflow, << >>)) = 1
    BY <1>2, <1>3 DEF Lists
  <1> QED
    BY <1>2, <1>4 DEF Line, Composer!History!Init

LEMMA NextHistory ==
    ASSUME NEW S, Versions(S), [Composer!Next]_Composer!vars
    PROVE  \/ Composer!History!Next
           \/ UNCHANGED <<undo \o <<workflow>> \o Composer!Reverse(redo), Len(undo) + 1>>
  <1>1. Versions(S)
    OBVIOUS
  <1>2. workflow \in S /\ undo \in Seq(S) /\ redo \in Seq(S)
    BY <1>1 DEF Versions
  <1>3. PICK u, w, r, l : u = undo /\ w = workflow /\ r = redo /\ l = Line(u, w, r)
    OBVIOUS
  <1>4. /\ u \in Seq(S) /\ w \in S /\ r \in Seq(S) /\ Len(u) \in Nat /\ Len(r) \in Nat
    BY <1>2, <1>3
  <1>5. l \in Seq(S) /\ Lists(l, u, w, r)
    BY <1>3, <1>4, LineVersions
  <1>6. l = undo \o <<workflow>> \o Composer!Reverse(redo)
    BY <1>3 DEF Line
  <1>7. CASE Edit
    <2>1. PICK T : /\ S \subseteq T /\ workflow' \in T
                   /\ undo' = Append(undo, workflow) /\ redo' = << >>
      BY <1>1, <1>7, EditStacks
    <2>2. PICK v, x, m : v = Append(u, w) /\ x = workflow' /\ m = Line(v, x, << >>)
      BY Zenon
    <2>3. v \in Seq(S) /\ Len(v) = Len(u) + 1 /\ v[Len(u) + 1] = w
          /\ \A i \in 1 .. Len(u) : v[i] = u[i]
      BY <1>4, <2>2
    <2>4. v \in Seq(T) /\ x \in T /\ << >> \in Seq(T) /\ l \in Seq(T) /\ Len(<< >>) = 0
      BY <1>5, <2>1, <2>2, <2>3, WiderSequences
    <2>5. m \in Seq(T) /\ Lists(m, v, x, << >>)
      BY <2>2, <2>4, LineVersions, Zenon
    <2>6. Len(m) = Len(u) + 2 /\ \A i \in 1 .. Len(u) + 1 : m[i] = v[i]
      BY <1>4, <2>3, <2>4, <2>5 DEF Lists
    <2>7. ASSUME NEW i \in 1 .. Len(u) + 1 PROVE v[i] = l[i]
      <3>1. CASE i \in 1 .. Len(u)
        BY <1>5, <2>3, <3>1 DEF Lists
      <3>2. CASE i = Len(u) + 1
        BY <1>5, <2>3, <3>2 DEF Lists
      <3> QED
        BY <1>4, <3>1, <3>2
    <2>8. Len(l) >= Len(u) + 1
      BY <1>4, <1>5 DEF Lists
    <2>9. SubSeq(m, 1, Len(u) + 1) = SubSeq(l, 1, Len(u) + 1)
      <3>1. PICK n : n = Len(u) + 1
        OBVIOUS
      <3>2. n \in 0 .. Len(m) /\ n \in 0 .. Len(l)
        BY <1>4, <2>6, <2>8, <3>1
      <3>3. /\ SubSeq(m, 1, n) \in Seq(T) /\ Len(SubSeq(m, 1, n)) = n
            /\ \A i \in 1 .. n : SubSeq(m, 1, n)[i] = m[i]
        BY <2>5, <3>2, Cut
      <3>4. /\ SubSeq(l, 1, n) \in Seq(T) /\ Len(SubSeq(l, 1, n)) = n
            /\ \A i \in 1 .. n : SubSeq(l, 1, n)[i] = l[i]
        BY <2>4, <3>2, Cut
      <3>5. \A i \in 1 .. n : SubSeq(m, 1, n)[i] = SubSeq(l, 1, n)[i]
        BY <2>6, <2>7, <3>1, <3>3, <3>4
      <3>6. SubSeq(m, 1, n) = SubSeq(l, 1, n)
        BY <3>3, <3>4, <3>5, SameSequence
      <3> QED
        BY <3>1, <3>6
    <2>10. m = (undo \o <<workflow>> \o Composer!Reverse(redo))'
      BY <1>3, <2>1, <2>2 DEF Line
    <2>11. Len(undo) = Len(u) /\ Len(undo') = Len(u) + 1
      BY <1>3, <2>1, <2>2, <2>3
    <2>12. Composer!History!Edit
      BY <1>4, <1>6, <2>6, <2>9, <2>10, <2>11 DEF Composer!History!Edit
    <2> QED
      BY <2>12 DEF Composer!History!Next
  <1>8. CASE Composer!Undo
    <2>1. undo # << >> /\ undo' = Composer!Front(undo) /\ redo' = Append(redo, workflow)
          /\ workflow' = Composer!Last(undo)
      BY <1>8 DEF Composer!Undo, Composer!Record
    <2>2. /\ Len(Composer!Front(u)) = Len(u) - 1 /\ Len(u) > 0
          /\ Line(Composer!Front(u), Composer!Last(u), Append(r, w)) = l
      BY <1>3, <1>4, <2>1, SameLine
    <2>3. (undo \o <<workflow>> \o Composer!Reverse(redo))' = l
      BY <1>3, <2>1, <2>2, Zenon DEF Line
    <2>4. Composer!History!Undo
      BY <1>3, <1>4, <1>6, <2>1, <2>2, <2>3 DEF Composer!History!Undo
    <2> QED
      BY <2>4 DEF Composer!History!Next
  <1>9. CASE Composer!Redo
    <2>1. redo # << >> /\ redo' = Composer!Front(redo) /\ undo' = Append(undo, workflow)
          /\ workflow' = Composer!Last(redo)
      BY <1>9 DEF Composer!Redo, Composer!Record
    <2>2. PICK f, x, v : f = Composer!Front(r) /\ x = Composer!Last(r) /\ v = Append(u, w)
      BY Zenon
    <2>3. /\ f \in Seq(S) /\ x \in S /\ Len(f) = Len(r) - 1 /\ Len(r) > 0
          /\ x = r[Len(r)] /\ \A i \in 1 .. Len(r) - 1 : f[i] = r[i]
      BY <1>3, <1>4, <2>1, <2>2, SameLine, Zenon
    <2>4. v \in Seq(S) /\ v # << >> /\ Composer!Front(v) = u /\ Composer!Last(v) = w
      <3>1. v \in Seq(S) /\ Len(v) = Len(u) + 1 /\ v[Len(u) + 1] = w /\ v # << >>
            /\ \A i \in 1 .. Len(u) : v[i] = u[i]
        BY <1>4, <2>2
      <3>2. /\ Composer!Front(v) \in Seq(S) /\ Len(Composer!Front(v)) = Len(v) - 1 /\ Composer!Last(v) = v[Len(v)]
            /\ \A i \in 1 .. Len(v) - 1 : Composer!Front(v)[i] = v[i]
        BY <1>4, <3>1, SameLine, Zenon
      <3>3. Composer!Front(v) = u
        <4>1. Len(Composer!Front(v)) = Len(u) /\ \A i \in 1 .. Len(u) : Composer!Front(v)[i] = u[i]
          BY <1>4, <3>1, <3>2
        <4> QED
          BY <1>4, <3>2, <4>1, SameSequence
      <3> QED
        BY <3>1, <3>2, <3>3
    <2>5. Append(f, x) = r
      <3>1. PICK a : a = Append(f, x)
        BY Zenon
      <3>2. /\ a \in Seq(S) /\ Len(a) = Len(r) /\ a[Len(r)] = x
            /\ \A i \in 1 .. Len(r) - 1 : a[i] = r[i]
        BY <1>4, <2>3, <3>1
      <3>3. \A i \in 1 .. Len(r) : a[i] = r[i]
        BY <1>4, <2>3, <3>2
      <3> QED
        BY <1>4, <3>1, <3>2, <3>3, SameSequence
    <2>6. Line(Composer!Front(v), Composer!Last(v), Append(f, x)) = Line(v, x, f)
      <3>1. v \in Seq(S) /\ x \in S /\ f \in Seq(S) /\ v # << >>
        BY <2>3, <2>4
      <3> QED
        BY <3>1, SameLine
    <2>7. (undo \o <<workflow>> \o Composer!Reverse(redo))' = l
      BY <1>3, <2>1, <2>2, <2>4, <2>5, <2>6, Zenon DEF Line
    <2>8. Len(undo') = Len(undo) + 1 /\ Len(undo) \in Nat
      BY <1>3, <1>4, <2>1, <2>2
    <2>9. Len(undo) + 1 < Len(l)
      BY <1>3, <1>4, <1>5, <2>3 DEF Lists
    <2>10. Composer!History!Redo
      BY <1>6, <2>7, <2>8, <2>9, Zenon DEF Composer!History!Redo
    <2> QED
      BY <2>10 DEF Composer!History!Next
  <1>10. CASE Beside
    BY <1>10 DEF Beside
  <1> QED
    BY <1>7, <1>8, <1>9, <1>10, NextCases, Zenon

\* The two stacks of a session and the draft between them are one line of
\* versions along which undo and redo move and which an edit cuts off behind
\* itself: WorkflowComposer implements LinearHistory (StacksAreOneLine; apply,
\* undo and redo of the composer).
THEOREM StacksAreOneLineTheorem == SessionsSpec => StacksAreOneLine
  <1>1. SessionsInit => Composer!History!Init
    BY SessionStarts, InitHistory
  <1>2. SessionInv /\ [SessionsNext]_allVars =>
           [Composer!History!Next]_<<undo \o <<workflow>> \o Composer!Reverse(redo), Len(undo) + 1>>
    BY NextHistory, SessionSteps, Zenon DEF SessionInv
  <1> QED
    BY <1>1, <1>2, SessionInvariant, PTL DEF SessionsSpec, StacksAreOneLine, Composer!StacksAreOneLine, Composer!History!Spec

-----------------------------------------------------------------------------
(* Layer files.                                                            *)

NoFile == Store!NoFile

\* A file is one of these records; what it is made of does not matter here.
IsFile(f) == f = NoFile \/ f = Store!File(f.record, f.whole, f.open)

Writing(p, id) == Store!Putting(p, "write") /\ Head(calls[p]).id = id

\* Functions on processes and layers.
StoreShape ==
    /\ disk = [id \in Layers |-> disk[id]] /\ temp = [id \in Layers |-> temp[id]]
    /\ \A id \in Layers : IsFile(disk[id]) /\ IsFile(temp[id])
    /\ mem = [p \in Procs |-> mem[p]]
    /\ \A p \in Procs : mem[p] = [id \in Layers |-> mem[p][id]]
    /\ calls = [p \in Procs |-> calls[p]] /\ phase = [p \in Procs |-> phase[p]]
    /\ job = [p \in Procs |-> job[p]] /\ foreign = [p \in Procs |-> foreign[p]]
    /\ \A p \in Procs : foreign[p] \in BOOLEAN
    /\ kept \subseteq [old : Layers, new : Layers]

\* A process is past the opening of a file only while it is putting one.
PhaseInv ==
    \A p \in Procs : phase[p] # "open" =>
        /\ p \in up /\ calls[p] # <<>> /\ Head(calls[p]).op = "put"

\* Who has a file open is about to write it.
OpenInv ==
    \A id \in Layers :
        /\ disk[id] # NoFile => \A p \in disk[id].open : p \in Procs /\ Writing(p, id) /\ foreign[p]
        /\ temp[id] # NoFile => \A p \in temp[id].open : p \in Procs /\ Writing(p, id)

\* What is known of a process that nobody wrote behind.
AloneInv(p) ==
    /\ \A q \in Procs : q # p => phase[q] # "write"
    /\ \A id \in Layers : Store!load(disk[id]) = mem[p][id]
    /\ \A id \in Layers : Writing(p, id) =>
          temp[id] # NoFile /\ p \in temp[id].open /\ temp[id].record = Store!Empty
    /\ \A id \in Layers : Store!Putting(p, "rename") /\ Head(calls[p]).id = id =>
          temp[id] # NoFile /\ temp[id].whole = TRUE /\ temp[id].record = Head(calls[p]).record

RestartInv == \A p \in Procs : p \in up /\ ~foreign[p] => AloneInv(p)

\* The calls of a request.
Touches(k, id) == id \in {k.old, k.new}
Put(a) == a.op = "put" /\ a.id \in Layers
Freed(id) == \A k \in kept : ~Touches(k, id)
Succeeded(id) == \A k \in kept : Touches(k, id) => k.old = id /\ k.new # id /\ disk[k.new] # NoFile

CallsInv(p) ==
    \/ calls[p] = <<>>
    \/ \E a : Put(a) /\ calls[p] = <<a>>
    \/ \E a, b : Put(a) /\ Put(b) /\ calls[p] = <<a, b>>
    \/ \E id \in Layers : /\ calls[p] = <<Store!drop(id)>>
                          /\ Freed(id) \/ (p = Workbench /\ Succeeded(id))
    \/ /\ p = Workbench
       /\ \E a, id : /\ Put(a) /\ id \in Layers /\ id # a.id /\ calls[p] = <<a, Store!drop(id)>>
                     /\ \A k \in kept : Touches(k, id) => k.old = id /\ k.new = a.id

JobInv(p) ==
    job[p] # Store!NoJob =>
        /\ job[p].source \in Layers /\ job[p].output \in Layers /\ job[p].middle \in Layers
        /\ job[p].kind = "assign" => p = Workbench /\ job[p].keep = FALSE

ReplaceInv ==
    /\ \A p \in Procs : CallsInv(p) /\ JobInv(p)
    /\ Store!ReplacementNeverLosesBoth

StoreInv == StoreShape /\ PhaseInv /\ OpenInv /\ RestartInv /\ ReplaceInv

LEMMA FileFacts ==
    /\ \A r, w, o : Store!File(r, w, o) # NoFile
    /\ \A r, w, o : /\ Store!File(r, w, o).record = r /\ Store!File(r, w, o).whole = w
                    /\ Store!File(r, w, o).open = o
                    /\ IsFile(Store!File(r, w, o))
    /\ IsFile(NoFile)
    /\ Store!load(NoFile) = Store!Absent
<1>1. \A r, w, o : Store!File(r, w, o) # NoFile
  <2> SUFFICES ASSUME NEW r, NEW w, NEW o PROVE Store!File(r, w, o) # NoFile
    OBVIOUS
  <2>1. "missing" \in DOMAIN NoFile /\ "missing" \notin DOMAIN Store!File(r, w, o)
    BY DEF NoFile, Store!NoFile, Store!File
  <2> QED BY <2>1
<1> QED BY <1>1 DEF IsFile, Store!File, NoFile, Store!load

LEMMA StoreStarts == Store!Init => StoreInv
<1> SUFFICES ASSUME Store!Init PROVE StoreInv
  OBVIOUS
<1>1. StoreShape
  BY DEF Store!Init, StoreShape, IsFile, NoFile
<1>2. PhaseInv
  BY DEF Store!Init, PhaseInv
<1>3. OpenInv
  BY DEF Store!Init, OpenInv, NoFile
<1>4. RestartInv
  <2>1. \A id \in Layers : Store!load(disk[id]) = Store!Absent
    BY DEF Store!Init, Store!load
  <2> QED BY <2>1 DEF Store!Init, RestartInv, AloneInv, Writing, Store!Putting
<1>5. ReplaceInv
  BY DEF Store!Init, ReplaceInv, CallsInv, JobInv, Store!ReplacementNeverLosesBoth
<1> QED BY <1>1, <1>2, <1>3, <1>4, <1>5 DEF StoreInv

-----------------------------------------------------------------------------
(* Steps that only give an idle process calls to make.                     *)

LEMMA FilesStill ==
    ASSUME StoreShape, PhaseInv, OpenInv, RestartInv, NEW p \in Procs, NEW todo,
           Store!Idle(p), calls' = [calls EXCEPT ![p] = todo],
           UNCHANGED <<disk, temp, mem, up, phase, foreign>>
    PROVE PhaseInv' /\ OpenInv' /\ RestartInv'
<1>1. phase[p] = "open"
  BY DEF PhaseInv, Store!Idle
<1>2. \A q \in Procs : q # p => calls'[q] = calls[q]
  BY DEF StoreShape
<1>3. PhaseInv'
  BY <1>1, <1>2 DEF PhaseInv
<1>4. \A q \in Procs : \A id : Writing(q, id)' <=> Writing(q, id)
  BY <1>1, <1>2 DEF Writing, Store!Putting
<1>5. OpenInv'
  BY <1>4 DEF OpenInv
<1>6. \A q \in Procs : q # p => (Store!Putting(q, "rename")' <=> Store!Putting(q, "rename"))
  BY <1>2 DEF Store!Putting
<1>7. ~Store!Putting(p, "rename")'
  BY <1>1 DEF Store!Putting
<1>8. RestartInv'
  BY <1>2, <1>4, <1>6, <1>7 DEF RestartInv, AloneInv, Store!load
<1> QED BY <1>3, <1>5, <1>8

LEMMA FewerWatched ==
    ASSUME StoreShape, ReplaceInv, kept' \subseteq kept,
           \A id \in Layers : disk[id] # NoFile => disk'[id] # NoFile,
           NEW q \in Procs, calls'[q] = calls[q]
    PROVE CallsInv(q)'
<1>1. CallsInv(q)
  BY DEF ReplaceInv
<1>2. \A id : (Freed(id) => Freed(id)') /\ (Succeeded(id) => Succeeded(id)')
  BY Zenon DEF Freed, Succeeded, Touches, StoreShape, NoFile, Store!NoFile
<1>3. CASE calls[q] = <<>>
  BY <1>3 DEF CallsInv
<1>4. CASE \E a : Put(a) /\ calls[q] = <<a>>
  BY <1>4 DEF CallsInv
<1>5. CASE \E a, b : Put(a) /\ Put(b) /\ calls[q] = <<a, b>>
  BY <1>5 DEF CallsInv
<1>6. CASE \E id \in Layers : calls[q] = <<Store!drop(id)>> /\ (Freed(id) \/ (q = Workbench /\ Succeeded(id)))
  BY <1>2, <1>6 DEF CallsInv, Store!drop
<1>7. CASE /\ q = Workbench
           /\ \E a, id : /\ Put(a) /\ id \in Layers /\ id # a.id /\ calls[q] = <<a, Store!drop(id)>>
                         /\ \A k \in kept : Touches(k, id) => k.old = id /\ k.new = a.id
  <2>1. \E a, id : /\ Put(a) /\ id \in Layers /\ id # a.id /\ calls'[q] = <<a, Store!drop(id)>>
                   /\ \A k \in kept' : Touches(k, id) => k.old = id /\ k.new = a.id
    BY <1>7
  <2> QED BY <1>7, <2>1 DEF CallsInv, Store!drop
<1> QED BY <1>1, <1>3, <1>4, <1>5, <1>6, <1>7 DEF CallsInv

LEMMA Served ==
    ASSUME StoreInv, NEW p \in Procs, NEW todo, Store!Serve(p, todo),
           kept' \subseteq kept,
           job' = [q \in Procs |-> job'[q]], \A q \in Procs : JobInv(q)',
           CallsInv(p)'
    PROVE StoreInv'
<1> USE DEF StoreInv
<1>1. StoreShape'
  BY Zenon DEF Store!Serve, StoreShape
<1>2. PhaseInv' /\ OpenInv' /\ RestartInv'
  BY FilesStill, Zenon DEF Store!Serve
<1>3. \A q \in Procs : q # p => calls'[q] = calls[q]
  BY DEF StoreShape, Store!Serve
<1>4. \A q \in Procs : CallsInv(q)'
  BY <1>3, FewerWatched DEF Store!Serve
<1>5. Store!ReplacementNeverLosesBoth'
  BY DEF ReplaceInv, Store!ReplacementNeverLosesBoth, Store!Serve
<1> QED BY <1>1, <1>2, <1>4, <1>5 DEF ReplaceInv

LEMMA JobsStill ==
    ASSUME StoreInv, UNCHANGED job
    PROVE job' = [q \in Procs |-> job'[q]] /\ \A q \in Procs : JobInv(q)'
BY DEF StoreInv, StoreShape, ReplaceInv, JobInv

LEMMA OnePut ==
    ASSUME StoreInv, NEW p \in Procs, NEW id \in Layers, NEW record,
           Store!Serve(p, <<Store!put(id, record)>>), UNCHANGED <<job, kept>>
    PROVE StoreInv'
<1>1. Put(Store!put(id, record))
  BY DEF Put, Store!put
<1>2. calls'[p] = <<Store!put(id, record)>>
  BY DEF StoreInv, StoreShape, Store!Serve
<1>3. CallsInv(p)'
  BY <1>1, <1>2 DEF CallsInv
<1> QED BY <1>3, JobsStill, Served

LEMMA PutRequests ==
    ASSUME StoreInv, NEW p \in Procs,
           Store!Import(p) \/ Store!rename(p) \/ Store!set_style(p) \/ Store!classify_layer(p)
    PROVE StoreInv'
<1>1. ASSUME Store!Import(p) PROVE StoreInv'
  BY <1>1, OnePut DEF Store!Import, Store!insert
<1>2. ASSUME Store!rename(p) PROVE StoreInv'
  BY <1>2, OnePut DEF Store!rename
<1>3. ASSUME Store!set_style(p) PROVE StoreInv'
  BY <1>3, OnePut DEF Store!set_style
<1>4. ASSUME Store!classify_layer(p) PROVE StoreInv'
  BY <1>4, OnePut DEF Store!classify_layer
<1> QED BY <1>1, <1>2, <1>3, <1>4

LEMMA RemoveRequest ==
    ASSUME StoreInv, NEW p \in Procs, Store!remove(p)
    PROVE StoreInv'
<1> PICK id \in Layers : /\ Store!Serve(p, <<Store!drop(id)>>)
                         /\ kept' = {k \in kept : id \notin {k.old, k.new}}
                         /\ UNCHANGED job
  BY DEF Store!remove
<1>1. calls'[p] = <<Store!drop(id)>>
  BY DEF StoreInv, StoreShape, Store!Serve
<1>2. Freed(id)'
  BY DEF Freed, Touches
<1>3. CallsInv(p)'
  BY <1>1, <1>2 DEF CallsInv, Store!drop
<1> QED BY <1>3, JobsStill, Served

LEMMA StartRequests ==
    ASSUME StoreInv, NEW p \in Procs, Store!RunStarts(p) \/ Store!AssignStarts(p)
    PROVE StoreInv'
<1>1. PICK j : /\ job' = [job EXCEPT ![p] = j] /\ Store!Serve(p, <<>>) /\ UNCHANGED kept
               /\ j.source \in Layers /\ j.output \in Layers /\ j.middle \in Layers
               /\ j.kind = "assign" => p = Workbench /\ j.keep = FALSE
  <2>1. CASE Store!RunStarts(p)
    <3> PICK d \in Deriving, keep \in BOOLEAN :
            /\ job' = [job EXCEPT ![p] = [kind |-> "run", source |-> d.source, output |-> d.output,
                                          middle |-> d.middle, keep |-> keep]]
            /\ Store!Serve(p, <<>>) /\ UNCHANGED kept
      BY <2>1, Zenon DEF Store!RunStarts
    <3>1. PICK j : j = [kind |-> "run", source |-> d.source, output |-> d.output,
                        middle |-> d.middle, keep |-> keep]
      BY Zenon
    <3>2. j.source = d.source /\ j.output = d.output /\ j.middle = d.middle /\ j.kind = "run"
      BY <3>1
    <3>3. job' = [job EXCEPT ![p] = j]
      BY <3>1
    <3> QED BY <3>2, <3>3, DerivingAssumption, Zenon
  <2>2. CASE Store!AssignStarts(p)
    <3> PICK d \in Deriving :
            /\ job' = [job EXCEPT ![p] = [kind |-> "assign", source |-> d.source, output |-> d.output,
                                          middle |-> d.middle, keep |-> FALSE]]
            /\ Store!Serve(p, <<>>) /\ UNCHANGED kept /\ p = Workbench
      BY <2>2, Zenon DEF Store!AssignStarts
    <3>1. PICK j : j = [kind |-> "assign", source |-> d.source, output |-> d.output,
                        middle |-> d.middle, keep |-> FALSE]
      BY Zenon
    <3>2. j.source = d.source /\ j.output = d.output /\ j.middle = d.middle /\ j.keep = FALSE
      BY <3>1
    <3>3. job' = [job EXCEPT ![p] = j]
      BY <3>1
    <3> QED BY <3>2, <3>3, DerivingAssumption, Zenon
  <2> QED BY <2>1, <2>2, Zenon
<1>2. calls'[p] = <<>>
  BY <1>1 DEF StoreInv, StoreShape, Store!Serve
<1>3. CallsInv(p)'
  BY <1>2 DEF CallsInv
<1>4. \A q \in Procs : JobInv(q)'
  BY <1>1 DEF StoreInv, StoreShape, ReplaceInv, JobInv
<1>5. job' = [q \in Procs |-> job'[q]]
  BY <1>1, Zenon DEF StoreInv, StoreShape
<1> QED BY <1>1, <1>3, <1>4, <1>5, Served, Zenon

-----------------------------------------------------------------------------
(* The end of a run.                                                       *)

LEMMA ShortConcats ==
    ASSUME NEW a, NEW b
    PROVE  /\ <<a>> \o <<>> \o <<b>> = <<a, b>>
           /\ <<a>> \o <<b>> \o <<>> = <<a, b>>
           /\ <<a>> \o <<>> \o <<>> = <<a>>
<1>0. PICK S : S = {a, b}
  BY Zenon
<1>1. PICK x, y : x = <<a>> /\ y = <<b>>
  BY Zenon
<1>2. /\ x \in Seq(S) /\ y \in Seq(S) /\ <<a, b>> \in Seq(S) /\ <<>> \in Seq(S)
      /\ Len(x) = 1 /\ Len(y) = 1 /\ x[1] = a /\ y[1] = b
  BY <1>0, <1>1
<1>3. x \o <<>> = x /\ <<a, b>> \o <<>> = <<a, b>>
  BY <1>2
<1>4. x \o y = <<a, b>>
  <2>1. PICK xy : xy = x \o y
    BY Zenon
  <2>2. xy \in Seq(S) /\ Joined(xy, x, y)
    BY <1>2, <2>1, Concatenated
  <2>3. Len(xy) = 2 /\ xy[1] = a /\ xy[2] = b
    BY <1>2, <2>2 DEF Joined
  <2>4. xy = <<a, b>>
    BY <2>2, <2>3
  <2> QED BY <2>1, <2>4
<1> QED BY <1>1, <1>3, <1>4

LEMMA StoredCalls ==
    ASSUME NEW p \in Procs, JobInv(p), job[p] # Store!NoJob
    PROVE  \E todo : /\ todo = Store!store_run(p, job[p])
                     /\ \/ \E a : Put(a) /\ todo = <<a>>
                        \/ \E a, b : Put(a) /\ Put(b) /\ todo = <<a, b>>
                        \/ /\ p = Workbench /\ job[p].kind = "assign"
                           /\ \E a : /\ Put(a) /\ a.id = job[p].output /\ job[p].source # a.id
                                     /\ todo = <<a, Store!drop(job[p].source)>>
<1> DEFINE j == job[p]
<1>0. PICK name : name = IF j.kind = "assign" /\ mem[p][j.source] # Store!Absent
                        THEN mem[p][j.source].name ELSE CHOOSE n \in Names : TRUE
  OBVIOUS
<1>1. PICK a : a = Store!insert(p, j.output, name, "analysis")
  OBVIOUS
<1>2. PICK b : b = Store!insert(p, j.middle, CHOOSE n \in Names : TRUE, "intermediate")
  BY Zenon
<1>3. Put(a) /\ a.id = j.output
  BY <1>1 DEF Put, Store!insert, Store!put, JobInv
<1>4. Put(b)
  BY <1>2 DEF Put, Store!insert, Store!put, JobInv
<1>5. Store!store_run(p, j)
        = <<a>> \o (IF j.keep THEN <<b>> ELSE <<>>)
                \o (IF j.kind = "assign" /\ j.source # j.output THEN <<Store!drop(j.source)>> ELSE <<>>)
  BY <1>0, <1>1, <1>2 DEF Store!store_run
<1>6. CASE j.kind = "assign" /\ j.source # j.output
  <2>1. j.keep = FALSE /\ p = Workbench
    BY <1>6 DEF JobInv
  <2>2. Store!store_run(p, j) = <<a>> \o <<>> \o <<Store!drop(j.source)>>
    BY <1>5, <1>6, <2>1
  <2>3. Store!store_run(p, j) = <<a, Store!drop(j.source)>>
    BY <2>2, ShortConcats
  <2> QED BY <1>3, <1>6, <2>1, <2>3
<1>7. CASE ~(j.kind = "assign" /\ j.source # j.output)
  <2>1. CASE j.keep
    <3>1. Store!store_run(p, j) = <<a>> \o <<b>> \o <<>>
      BY <1>5, <1>7, <2>1
    <3>2. Store!store_run(p, j) = <<a, b>>
      BY <3>1, ShortConcats
    <3> QED BY <1>3, <1>4, <3>2
  <2>2. CASE ~j.keep
    <3>1. Store!store_run(p, j) = <<a>> \o <<>> \o <<>>
      BY <1>5, <1>7, <2>2, Zenon
    <3>2. Store!store_run(p, j) = <<a>>
      BY <3>1, ShortConcats
    <3> QED BY <1>3, <3>2
  <2> QED BY <2>1, <2>2
<1> QED BY <1>6, <1>7

LEMMA RunEnded ==
    ASSUME StoreInv, NEW p \in Procs, Store!RunEnds(p)
    PROVE StoreInv'
<1> USE DEF StoreInv
<1> DEFINE j == job[p]
           s == j.source
           o == j.output
<1>0. JobInv(p) /\ j # Store!NoJob /\ Store!Idle(p)
  BY DEF ReplaceInv, Store!RunEnds
<1>1. s \in Layers /\ o \in Layers
  BY <1>0 DEF JobInv
<1>2. PICK todo : /\ todo = Store!store_run(p, j)
                  /\ \/ \E a : Put(a) /\ todo = <<a>>
                     \/ \E a, b : Put(a) /\ Put(b) /\ todo = <<a, b>>
                     \/ /\ p = Workbench /\ j.kind = "assign"
                        /\ \E a : /\ Put(a) /\ a.id = o /\ s # a.id
                                  /\ todo = <<a, Store!drop(s)>>
  BY <1>0, StoredCalls
<1>3. calls' = [calls EXCEPT ![p] = todo] /\ UNCHANGED <<disk, temp, mem, up, phase, foreign>>
  BY <1>2 DEF Store!RunEnds
<1>4. job' = [job EXCEPT ![p] = Store!NoJob]
  BY DEF Store!RunEnds
<1>5. PICK new : /\ new = [old |-> s, new |-> o]
  BY Zenon
<1>6. new \in [old : Layers, new : Layers] /\ new.old = s /\ new.new = o
  BY <1>1, <1>5
<1>7. \/ kept' = kept /\ j.kind # "assign"
      \/ /\ j.kind = "assign"
         /\ kept' = {k \in kept : s \notin {k.old, k.new}}
      \/ /\ j.kind = "assign"
         /\ kept' = {k \in kept : s \notin {k.old, k.new}} \cup {new}
         /\ Store!load(disk[s]) # Store!Absent /\ ~Store!BeingRemoved(s) /\ ~Store!BeingRemoved(o)
  <2> DEFINE gone == Store!load(disk[s]) = Store!Absent \/ Store!BeingRemoved(s) \/ Store!BeingRemoved(o)
  <2>1. kept' = IF j.kind # "assign" THEN kept
                ELSE {k \in kept : s \notin {k.old, k.new}} \cup IF gone THEN {} ELSE {new}
    BY <1>5 DEF Store!RunEnds
  <2>2. CASE gone
    BY <2>1, <2>2
  <2>3. CASE ~gone
    BY <2>1, <2>3
  <2> QED BY <2>2, <2>3
<1>8. \A k \in kept' : k \in kept \/ (k = new /\ Store!load(disk[s]) # Store!Absent
                                        /\ ~Store!BeingRemoved(s) /\ ~Store!BeingRemoved(o))
  BY <1>7
<1>9. StoreShape'
  BY <1>3, <1>4, <1>6, <1>8, Zenon DEF StoreShape
<1>10. PhaseInv' /\ OpenInv' /\ RestartInv'
  BY <1>0, <1>3, FilesStill, Zenon
<1>11. \A q \in Procs : JobInv(q)'
  BY <1>4 DEF StoreShape, ReplaceInv, JobInv
<1>12. Store!ReplacementNeverLosesBoth'
  <2> SUFFICES ASSUME NEW k \in kept' PROVE disk[k.old] # NoFile \/ disk[k.new] # NoFile
    BY <1>3 DEF Store!ReplacementNeverLosesBoth, NoFile
  <2>1. CASE k \in kept
    BY <2>1 DEF ReplaceInv, Store!ReplacementNeverLosesBoth, NoFile
  <2>2. CASE k = new /\ Store!load(disk[s]) # Store!Absent
    BY <2>2, <1>6 DEF Store!load, NoFile
  <2> QED BY <1>8, <2>1, <2>2
<1>13. CallsInv(p)'
  <2>1. calls'[p] = todo
    BY <1>3 DEF StoreShape
  <2>2. CASE \E a : Put(a) /\ todo = <<a>>
    BY <2>1, <2>2 DEF CallsInv
  <2>3. CASE \E a, b : Put(a) /\ Put(b) /\ todo = <<a, b>>
    BY <2>1, <2>3 DEF CallsInv
  <2>4. CASE /\ p = Workbench /\ j.kind = "assign"
             /\ \E a : /\ Put(a) /\ a.id = o /\ s # a.id
                       /\ todo = <<a, Store!drop(s)>>
    <3>1. \A k \in kept' : Touches(k, s) => k.old = s /\ k.new = o
      <4> SUFFICES ASSUME NEW k \in kept', Touches(k, s) PROVE k = new
        BY <1>6
      <4> QED BY <1>7, <2>4 DEF Touches
    <3>2. \E a, id : /\ Put(a) /\ id \in Layers /\ id # a.id /\ calls'[p] = <<a, Store!drop(id)>>
                     /\ \A k \in kept' : Touches(k, id) => k.old = id /\ k.new = a.id
      BY <1>1, <2>1, <2>4, <3>1
    <3> QED BY <2>4, <3>2 DEF CallsInv, Store!drop
  <2> QED BY <1>2, <2>2, <2>3, <2>4
<1>14. ASSUME NEW q \in Procs, q # p PROVE CallsInv(q)'
  <2>1. calls'[q] = calls[q]
    BY <1>3, <1>14 DEF StoreShape
  <2>2. CASE kept' \subseteq kept
    BY <2>1, <2>2, <1>3, FewerWatched
  <2>3. CASE ~(kept' \subseteq kept)
    <3>1. /\ kept' \subseteq kept \cup {new}
          /\ ~Store!BeingRemoved(s) /\ ~Store!BeingRemoved(o) /\ j.kind = "assign"
      BY <2>3, <1>7
    <3>2. q # Workbench
      BY <3>1, <1>0, <1>14 DEF JobInv
    <3>3. CallsInv(q)
      BY DEF ReplaceInv
    <3>4. CASE calls[q] = <<>>
      BY <2>1, <3>4 DEF CallsInv
    <3>5. CASE \E a : Put(a) /\ calls[q] = <<a>>
      BY <2>1, <3>5 DEF CallsInv
    <3>6. CASE \E a, b : Put(a) /\ Put(b) /\ calls[q] = <<a, b>>
      BY <2>1, <3>6 DEF CallsInv
    <3>7. CASE \E id \in Layers : calls[q] = <<Store!drop(id)>> /\ Freed(id)
      <4> PICK id \in Layers : calls[q] = <<Store!drop(id)>> /\ Freed(id)
        BY <3>7
      <4>1. id # s /\ id # o
        BY <3>1 DEF Store!BeingRemoved
      <4>2. Freed(id)'
        BY <4>1, <3>1, <1>6 DEF Freed, Touches
      <4> QED BY <2>1, <4>2 DEF CallsInv, Store!drop
    <3> QED BY <3>2, <3>3, <3>4, <3>5, <3>6, <3>7 DEF CallsInv
  <2> QED BY <2>2, <2>3
<1> QED BY <1>9, <1>10, <1>11, <1>12, <1>13, <1>14 DEF ReplaceInv

LEMMA RunFailed ==
    ASSUME StoreInv, NEW p \in Procs, Store!RunFails(p)
    PROVE StoreInv'
<1> USE DEF StoreInv, Store!RunFails
<1>1. StoreShape'
  BY Zenon DEF StoreShape
<1>2. PhaseInv' /\ OpenInv' /\ RestartInv'
  BY DEF PhaseInv, OpenInv, RestartInv, AloneInv, Writing, Store!Putting
<1>3. \A q \in Procs : JobInv(q)'
  BY DEF StoreShape, ReplaceInv, JobInv
<1>4. \A q \in Procs : CallsInv(q)'
  BY FewerWatched
<1>5. Store!ReplacementNeverLosesBoth'
  BY DEF ReplaceInv, Store!ReplacementNeverLosesBoth
<1> QED BY <1>1, <1>2, <1>3, <1>4, <1>5 DEF ReplaceInv

-----------------------------------------------------------------------------
(* Writing a file.                                                         *)

LEMMA NoFileLost ==
    ASSUME StoreShape, ReplaceInv, UNCHANGED kept,
           \A id \in Layers : disk[id] # NoFile => disk'[id] # NoFile
    PROVE Store!ReplacementNeverLosesBoth'
<1>1. \A k \in kept : k.old \in Layers /\ k.new \in Layers
  BY DEF StoreShape
<1> QED BY <1>1 DEF ReplaceInv, Store!ReplacementNeverLosesBoth, NoFile, Store!NoFile

LEMMA PutAtHead ==
    ASSUME NEW p \in Procs, CallsInv(p), calls[p] # <<>>, Head(calls[p]).op = "put"
    PROVE  /\ Head(calls[p]).id \in Layers
           /\ \/ Tail(calls[p]) = <<>>
              \/ \E b : Put(b) /\ Tail(calls[p]) = <<b>>
              \/ /\ p = Workbench
                 /\ \E id \in Layers : /\ Tail(calls[p]) = <<Store!drop(id)>>
                                       /\ id # Head(calls[p]).id
                                       /\ \A k \in kept : Touches(k, id) => k.old = id /\ k.new = Head(calls[p]).id
<1>1. CASE \E a : Put(a) /\ calls[p] = <<a>>
  BY <1>1 DEF Put
<1>2. CASE \E a, b : Put(a) /\ Put(b) /\ calls[p] = <<a, b>>
  BY <1>2 DEF Put
<1>3. CASE \E id \in Layers : calls[p] = <<Store!drop(id)>>
  BY <1>3 DEF Store!drop
<1>4. CASE /\ p = Workbench
           /\ \E a, id : /\ Put(a) /\ id \in Layers /\ id # a.id /\ calls[p] = <<a, Store!drop(id)>>
                         /\ \A k \in kept : Touches(k, id) => k.old = id /\ k.new = a.id
  <2> PICK a, id : /\ Put(a) /\ id \in Layers /\ id # a.id /\ calls[p] = <<a, Store!drop(id)>>
                   /\ \A k \in kept : Touches(k, id) => k.old = id /\ k.new = a.id
    BY <1>4
  <2>1. Head(calls[p]) = a /\ Tail(calls[p]) = <<Store!drop(id)>>
    OBVIOUS
  <2> QED BY <1>4, <2>1 DEF Put
<1> QED BY <1>1, <1>2, <1>3, <1>4 DEF CallsInv

LEMMA Opened ==
    ASSUME StoreInv, NEW p \in Procs, Store!PersistOpen(p)
    PROVE StoreInv'
<1> USE DEF StoreInv
<1>1. PICK id : id = Head(calls[p]).id
  OBVIOUS
<1>2. /\ p \in up /\ calls[p] # <<>> /\ Head(calls[p]).op = "put" /\ phase[p] = "open"
      /\ UNCHANGED <<disk, mem, up, calls, job, kept>>
      /\ phase' = [phase EXCEPT ![p] = "write"] /\ foreign' = Store!Others(p)
  BY DEF Store!PersistOpen, Store!Putting
<1>3. id \in Layers
  BY <1>1, <1>2, PutAtHead DEF ReplaceInv
<1>4. PICK f : f = IF temp[id] = NoFile THEN Store!File(Store!Empty, FALSE, {p})
                   ELSE Store!File(Store!Empty, FALSE, temp[id].open \cup {p})
  BY Zenon
<1>5. temp' = [temp EXCEPT ![id] = f]
  BY <1>1, <1>3, <1>4 DEF Store!PersistOpen, StoreShape, NoFile
<1>6. /\ IsFile(f) /\ f # NoFile /\ f.record = Store!Empty /\ p \in f.open
      /\ \A q \in f.open : q = p \/ (temp[id] # NoFile /\ q \in temp[id].open)
  <2>1. CASE temp[id] = NoFile
    <3>1. f = Store!File(Store!Empty, FALSE, {p})
      BY <1>4, <2>1
    <3>2. f.open = {p}
      BY <3>1 DEF Store!File
    <3> QED BY <3>1, <3>2, FileFacts, Zenon
  <2>2. CASE temp[id] # NoFile
    <3>1. f = Store!File(Store!Empty, FALSE, temp[id].open \cup {p})
      BY <1>4, <2>2
    <3>2. f.open = temp[id].open \cup {p}
      BY <3>1 DEF Store!File
    <3> QED BY <2>2, <3>1, <3>2, FileFacts, Zenon
  <2> QED BY <2>1, <2>2
<1>7. \A x \in Layers : temp'[x] = IF x = id THEN f ELSE temp[x]
  BY <1>3, <1>5 DEF StoreShape
<1>8. \A q \in Procs : /\ phase'[q] = IF q = p THEN "write" ELSE phase[q]
                       /\ foreign'[q] = (foreign[q] \/ q # p)
                       /\ q # p => foreign'[q]
  BY <1>2, Zenon DEF StoreShape, Store!Others
<1>9. StoreShape'
  <2>1. temp' = [x \in Layers |-> temp'[x]]
    BY <1>5 DEF StoreShape
  <2>2. \A x \in Layers : IsFile(disk'[x]) /\ IsFile(temp'[x])
    BY <1>2, <1>6, <1>7 DEF StoreShape
  <2>3. phase' = [q \in Procs |-> phase'[q]] /\ foreign' = [q \in Procs |-> foreign'[q]]
    BY <1>2, Zenon DEF StoreShape, Store!Others
  <2>4. \A q \in Procs : foreign'[q] \in BOOLEAN
    BY <1>8, Zenon
  <2> QED BY <1>2, <2>1, <2>2, <2>3, <2>4 DEF StoreShape
<1>10. PhaseInv'
  BY <1>2, <1>8 DEF PhaseInv
<1>11. \A q \in Procs : \A x : Writing(q, x) => Writing(q, x)' /\ q # p
  BY <1>2, <1>8 DEF Writing, Store!Putting
<1>12. Writing(p, id)'
  BY <1>1, <1>2, <1>8 DEF Writing, Store!Putting
<1>13. OpenInv'
  <2> SUFFICES ASSUME NEW x \in Layers
               PROVE  /\ disk'[x] # NoFile => \A q \in disk'[x].open : q \in Procs /\ Writing(q, x)' /\ foreign'[q]
                      /\ temp'[x] # NoFile => \A q \in temp'[x].open : q \in Procs /\ Writing(q, x)'
    BY DEF OpenInv, NoFile, Store!NoFile
  <2>1. disk'[x] # NoFile => \A q \in disk'[x].open : q \in Procs /\ Writing(q, x)' /\ foreign'[q]
    BY <1>2, <1>8, <1>11 DEF OpenInv
  <2>2. temp'[x] # NoFile => \A q \in temp'[x].open : q \in Procs /\ Writing(q, x)'
    BY <1>6, <1>7, <1>11, <1>12 DEF OpenInv
  <2> QED BY <2>1, <2>2
<1>14. RestartInv'
  <2> SUFFICES ASSUME ~foreign'[p] PROVE AloneInv(p)'
    BY <1>8 DEF RestartInv
  <2>1. AloneInv(p)
    BY <1>2, <1>8 DEF RestartInv, StoreShape
  <2>2. \A q \in Procs : q # p => phase'[q] # "write"
    BY <1>8, <2>1 DEF AloneInv
  <2>3. \A x \in Layers : Store!load(disk'[x]) = mem'[p][x]
    BY <1>2, <2>1 DEF AloneInv
  <2>4. \A x \in Layers : Writing(p, x)' => x = id
    BY <1>1, <1>2 DEF Writing
  <2>5. ~Store!Putting(p, "rename")'
    BY <1>8 DEF Store!Putting
  <2> QED BY <2>2, <2>3, <2>4, <2>5, <1>3, <1>6, <1>7 DEF AloneInv, NoFile, Store!NoFile, Store!load, Store!Empty
<1>15. ReplaceInv'
  <2>1. \A q \in Procs : CallsInv(q)'
    BY <1>2, FewerWatched DEF StoreShape
  <2>2. \A q \in Procs : JobInv(q)'
    BY <1>2 DEF ReplaceInv, JobInv
  <2> QED BY <1>2, <2>1, <2>2, NoFileLost DEF ReplaceInv
<1> QED BY <1>9, <1>10, <1>13, <1>14, <1>15

LEMMA WhatIsWritten ==
    ASSUME NEW file, IsFile(file), NEW p, NEW record, NEW f \in Store!Written(file, p, record)
    PROVE  \/ f = file /\ (file = NoFile \/ p \notin file.open)
           \/ /\ file # NoFile /\ p \in file.open
              /\ f # NoFile /\ IsFile(f) /\ f.open = file.open \ {p} /\ f.record = record
              /\ file.record = Store!Empty => f.whole = TRUE
<1>1. CASE file = NoFile \/ p \notin file.open
  BY <1>1, Zenon DEF Store!Written, NoFile
<1>2. CASE ~(file = NoFile \/ p \notin file.open)
  <2>1. PICK whole \in IF file.record = Store!Empty THEN {TRUE} ELSE BOOLEAN : f = Store!File(record, whole, file.open \ {p})
    BY <1>2, Zenon DEF Store!Written, NoFile
  <2>2. f # NoFile /\ IsFile(f) /\ f.open = file.open \ {p} /\ f.record = record /\ f.whole = whole
    BY <2>1, FileFacts
  <2> QED BY <1>2, <2>1, <2>2, Zenon
<1> QED BY <1>1, <1>2, Zenon

LEMMA Wrote ==
    ASSUME StoreInv, NEW p \in Procs, Store!PersistWrite(p)
    PROVE StoreInv'
<1> USE DEF StoreInv
<1>1. PICK id, record : id = Head(calls[p]).id /\ record = Head(calls[p]).record
  BY Zenon
<1>2. /\ p \in up /\ calls[p] # <<>> /\ Head(calls[p]).op = "put" /\ phase[p] = "write"
      /\ UNCHANGED <<mem, up, calls, job, foreign, kept>>
      /\ phase' = [phase EXCEPT ![p] = "rename"]
  BY DEF Store!PersistWrite, Store!Putting
<1>3. id \in Layers
  BY <1>1, <1>2, PutAtHead DEF ReplaceInv
<1>4. PICK t \in Store!Written(temp[id], p, record) : temp' = [temp EXCEPT ![id] = t]
  BY <1>1, Zenon DEF Store!PersistWrite
<1>5. PICK d \in Store!Written(disk[id], p, record) : disk' = [disk EXCEPT ![id] = d]
  BY <1>1, Zenon DEF Store!PersistWrite
<1>6. \/ t = temp[id] /\ (temp[id] = NoFile \/ p \notin temp[id].open)
      \/ /\ temp[id] # NoFile /\ p \in temp[id].open
         /\ t # NoFile /\ IsFile(t) /\ t.open = temp[id].open \ {p} /\ t.record = record
         /\ temp[id].record = Store!Empty => t.whole = TRUE
  BY <1>3, WhatIsWritten, Zenon DEF StoreShape
<1>7. \/ d = disk[id] /\ (disk[id] = NoFile \/ p \notin disk[id].open)
      \/ /\ disk[id] # NoFile /\ p \in disk[id].open
         /\ d # NoFile /\ IsFile(d) /\ d.open = disk[id].open \ {p} /\ d.record = record
         /\ disk[id].record = Store!Empty => d.whole = TRUE
  <2>1. IsFile(disk[id])
    BY <1>3 DEF StoreShape
  <2> QED BY <2>1, WhatIsWritten, Zenon
<1>8. /\ \A x \in Layers : temp'[x] = IF x = id THEN t ELSE temp[x]
      /\ \A x \in Layers : disk'[x] = IF x = id THEN d ELSE disk[x]
  BY <1>3, <1>4, <1>5 DEF StoreShape
<1>9. \A q \in Procs : phase'[q] = IF q = p THEN "rename" ELSE phase[q]
  BY <1>2 DEF StoreShape
<1>10. StoreShape'
  <2>1. temp' = [x \in Layers |-> temp'[x]] /\ disk' = [x \in Layers |-> disk'[x]]
    BY <1>4, <1>5, Zenon DEF StoreShape
  <2>2. \A x \in Layers : IsFile(disk'[x]) /\ IsFile(temp'[x])
    BY <1>3, <1>6, <1>7, <1>8 DEF StoreShape
  <2>3. phase' = [q \in Procs |-> phase'[q]]
    BY <1>2, Zenon DEF StoreShape
  <2> QED BY <1>2, <2>1, <2>2, <2>3 DEF StoreShape
<1>11. PhaseInv'
  BY <1>2, <1>9 DEF PhaseInv
<1>12. \A q \in Procs : \A x : Writing(q, x) /\ q # p => Writing(q, x)'
  BY <1>2, <1>9 DEF Writing, Store!Putting
<1>13. \A x \in Layers : Writing(p, x) => x = id
  BY <1>1 DEF Writing
<1>14. OpenInv'
  <2> SUFFICES ASSUME NEW x \in Layers
               PROVE  /\ disk'[x] # NoFile => \A q \in disk'[x].open : q \in Procs /\ Writing(q, x)' /\ foreign'[q]
                      /\ temp'[x] # NoFile => \A q \in temp'[x].open : q \in Procs /\ Writing(q, x)'
    BY DEF OpenInv, NoFile, Store!NoFile
  <2>1. disk'[x] # NoFile => \A q \in disk'[x].open : q \in Procs /\ Writing(q, x)' /\ foreign'[q]
    BY <1>2, <1>7, <1>8, <1>12, <1>13 DEF OpenInv
  <2>2. temp'[x] # NoFile => \A q \in temp'[x].open : q \in Procs /\ Writing(q, x)'
    BY <1>6, <1>8, <1>12, <1>13 DEF OpenInv
  <2> QED BY <2>1, <2>2
<1>15. RestartInv'
  <2> SUFFICES ASSUME NEW q \in Procs, q \in up, ~foreign[q] PROVE AloneInv(q)'
    BY <1>2 DEF RestartInv
  <2>1. AloneInv(q)
    BY DEF RestartInv
  <2>2. q = p
    BY <1>2, <2>1 DEF AloneInv
  <2>3. Writing(p, id)
    BY <1>1, <1>2 DEF Writing, Store!Putting
  <2>4. d = disk[id]
    BY <1>3, <1>7, <2>2 DEF OpenInv
  <2>5. \A x \in Layers : disk'[x] = disk[x]
    BY <1>8, <2>4
  <2>6. t # NoFile /\ t.record = record /\ t.whole = TRUE
    BY <1>3, <1>6, <2>1, <2>2, <2>3 DEF AloneInv
  <2>7. \A r \in Procs : r # q => phase'[r] # "write"
    BY <1>9, <2>1, <2>2 DEF AloneInv
  <2>8. \A x \in Layers : Store!load(disk'[x]) = mem'[q][x]
    BY <1>2, <2>1, <2>5 DEF AloneInv
  <2>9. ~Writing(q, id)' /\ \A x \in Layers : ~Writing(q, x)'
    BY <1>9, <2>2 DEF Writing, Store!Putting
  <2>10. \A x \in Layers : Head(calls'[q]).id = x =>
            temp'[x] # NoFile /\ temp'[x].whole = TRUE /\ temp'[x].record = Head(calls'[q]).record
    BY <1>1, <1>2, <1>8, <2>2, <2>6
  <2> QED BY <2>7, <2>8, <2>9, <2>10 DEF AloneInv, NoFile, Store!NoFile, Store!load
<1>16. ReplaceInv'
  <2>0. \A x \in Layers : disk[x] # NoFile => disk'[x] # NoFile
    BY <1>7, <1>8
  <2>1. \A q \in Procs : CallsInv(q)'
    BY <1>2, <2>0, FewerWatched DEF StoreShape
  <2>2. \A q \in Procs : JobInv(q)'
    BY <1>2 DEF ReplaceInv, JobInv
  <2> QED BY <1>2, <2>0, <2>1, <2>2, NoFileLost DEF ReplaceInv
<1> QED BY <1>10, <1>11, <1>14, <1>15, <1>16

LEMMA Renamed ==
    ASSUME StoreInv, NEW p \in Procs, Store!PersistRename(p)
    PROVE StoreInv'
<1> USE DEF StoreInv
<1>1. PICK id, record : id = Head(calls[p]).id /\ record = Head(calls[p]).record
  BY Zenon
<1>2. /\ p \in up /\ calls[p] # <<>> /\ Head(calls[p]).op = "put" /\ phase[p] = "rename"
      /\ temp[id] # NoFile
      /\ UNCHANGED <<up, job, kept>>
      /\ disk' = [disk EXCEPT ![id] = temp[id]]
      /\ temp' = [temp EXCEPT ![id] = NoFile]
      /\ mem' = [mem EXCEPT ![p][id] = record]
      /\ phase' = [phase EXCEPT ![p] = "open"] /\ foreign' = Store!Others(p)
  BY <1>1 DEF Store!PersistRename, Store!Putting, NoFile
<1>3. CallsInv(p)
  BY DEF ReplaceInv
<1>4. id \in Layers
  BY <1>1, <1>2, <1>3, PutAtHead
<1>5. PICK rest : rest = Tail(calls[p])
  BY Zenon
<1>6. calls' = [calls EXCEPT ![p] = rest]
  BY <1>5 DEF Store!PersistRename, StoreShape
<1>7. /\ \A x \in Layers : temp'[x] = IF x = id THEN NoFile ELSE temp[x]
      /\ \A x \in Layers : disk'[x] = IF x = id THEN temp[id] ELSE disk[x]
  BY <1>2, <1>4 DEF StoreShape
<1>8. \A q \in Procs : /\ phase'[q] = IF q = p THEN "open" ELSE phase[q]
                       /\ foreign'[q] = (foreign[q] \/ q # p)
                       /\ q # p => foreign'[q]
                       /\ calls'[q] = IF q = p THEN rest ELSE calls[q]
  BY <1>2, <1>6, Zenon DEF StoreShape, Store!Others
<1>9. /\ mem' = [q \in Procs |-> mem'[q]]
      /\ \A q \in Procs : mem'[q] = [x \in Layers |-> mem'[q][x]]
      /\ \A x \in Layers : mem'[p][x] = IF x = id THEN record ELSE mem[p][x]
  BY <1>2, <1>4, Zenon DEF StoreShape
<1>10. StoreShape'
  <2>1. temp' = [x \in Layers |-> temp'[x]] /\ disk' = [x \in Layers |-> disk'[x]]
    BY <1>2, Zenon DEF StoreShape
  <2>2. \A x \in Layers : IsFile(disk'[x]) /\ IsFile(temp'[x])
    BY <1>4, <1>7, FileFacts DEF StoreShape
  <2>3. /\ phase' = [q \in Procs |-> phase'[q]] /\ foreign' = [q \in Procs |-> foreign'[q]]
        /\ calls' = [q \in Procs |-> calls'[q]]
    BY <1>2, <1>6, Zenon DEF StoreShape, Store!Others
  <2>4. \A q \in Procs : foreign'[q] \in BOOLEAN
    BY <1>8, Zenon
  <2> QED BY <1>2, <1>9, <2>1, <2>2, <2>3, <2>4, Zenon DEF StoreShape
<1>11. PhaseInv'
  BY <1>2, <1>8 DEF PhaseInv
<1>12. \A q \in Procs : \A x : Writing(q, x) => Writing(q, x)' /\ q # p
  BY <1>2, <1>8 DEF Writing, Store!Putting
<1>13. OpenInv'
  <2> SUFFICES ASSUME NEW x \in Layers
               PROVE  /\ disk'[x] # NoFile => \A q \in disk'[x].open : q \in Procs /\ Writing(q, x)' /\ foreign'[q]
                      /\ temp'[x] # NoFile => \A q \in temp'[x].open : q \in Procs /\ Writing(q, x)'
    BY DEF OpenInv, NoFile, Store!NoFile
  <2>1. disk'[x] # NoFile => \A q \in disk'[x].open : q \in Procs /\ Writing(q, x)' /\ foreign'[q]
    BY <1>2, <1>7, <1>8, <1>12 DEF OpenInv
  <2>2. temp'[x] # NoFile => \A q \in temp'[x].open : q \in Procs /\ Writing(q, x)'
    BY <1>7, <1>12 DEF OpenInv
  <2> QED BY <2>1, <2>2
<1>14. RestartInv'
  <2> SUFFICES ASSUME ~foreign'[p] PROVE AloneInv(p)'
    BY <1>8 DEF RestartInv
  <2>1. AloneInv(p)
    BY <1>2, <1>8 DEF RestartInv, StoreShape
  <2>2. \A q \in Procs : q # p => phase'[q] # "write"
    BY <1>8, <2>1 DEF AloneInv
  <2>3. temp[id] # NoFile /\ temp[id].whole = TRUE /\ temp[id].record = record
    BY <1>1, <1>2, <1>4, <2>1 DEF AloneInv, Store!Putting
  <2>4. Store!load(temp[id]) = record
    BY <2>3 DEF Store!load, NoFile
  <2>5. \A x \in Layers : Store!load(disk[x]) = mem[p][x]
    BY <2>1 DEF AloneInv
  <2>6. \A x \in Layers : Store!load(disk'[x]) = mem'[p][x]
    BY <1>7, <1>9, <2>4, <2>5
  <2>7. ~Store!Putting(p, "rename")' /\ ~Store!Putting(p, "write")'
    BY <1>8 DEF Store!Putting
  <2> QED BY <2>2, <2>6, <2>7 DEF AloneInv, Writing, Store!load, Store!Absent, Store!NoFile
<1>15. \A x \in Layers : disk[x] # NoFile => disk'[x] # NoFile
  BY <1>2, <1>7
<1>16. CallsInv(p)'
  <2>1. calls'[p] = rest
    BY <1>8
  <2>2. CASE rest = <<>>
    BY <2>1, <2>2 DEF CallsInv
  <2>3. CASE \E b : Put(b) /\ rest = <<b>>
    BY <2>1, <2>3 DEF CallsInv
  <2>4. CASE /\ p = Workbench
             /\ \E x \in Layers : /\ rest = <<Store!drop(x)>> /\ x # id
                                  /\ \A k \in kept : Touches(k, x) => k.old = x /\ k.new = id
    <3> PICK x \in Layers : /\ rest = <<Store!drop(x)>> /\ x # id
                            /\ \A k \in kept : Touches(k, x) => k.old = x /\ k.new = id
      BY <2>4
    <3>1. disk'[id] # NoFile
      BY <1>2, <1>4, <1>7
    <3>2. Succeeded(x)'
      BY <1>2, <3>1 DEF Succeeded, Touches, NoFile, Store!NoFile
    <3> QED BY <2>1, <2>4, <3>2 DEF CallsInv, Store!drop
  <2> QED BY <1>1, <1>2, <1>3, <1>5, <2>2, <2>3, <2>4, PutAtHead
<1>17. ReplaceInv'
  <2>1. \A q \in Procs : CallsInv(q)'
    BY <1>2, <1>8, <1>15, <1>16, FewerWatched
  <2>2. \A q \in Procs : JobInv(q)'
    BY <1>2 DEF ReplaceInv, JobInv
  <2> QED BY <1>2, <1>15, <2>1, <2>2, NoFileLost DEF ReplaceInv
<1> QED BY <1>10, <1>11, <1>13, <1>14, <1>17

LEMMA TempLost ==
    ASSUME StoreInv, NEW p \in Procs, Store!PersistLosesTemp(p)
    PROVE StoreInv'
<1> USE DEF StoreInv
<1>1. /\ p \in up /\ calls[p] # <<>> /\ phase[p] = "rename"
      /\ UNCHANGED <<disk, temp, mem, up, job, foreign, kept>>
      /\ calls' = [calls EXCEPT ![p] = <<>>] /\ phase' = [phase EXCEPT ![p] = "open"]
  BY DEF Store!PersistLosesTemp, Store!Putting
<1>2. \A q \in Procs : /\ phase'[q] = IF q = p THEN "open" ELSE phase[q]
                       /\ calls'[q] = IF q = p THEN <<>> ELSE calls[q]
  BY <1>1, Zenon DEF StoreShape
<1>3. StoreShape'
  <2>1. phase' = [q \in Procs |-> phase'[q]] /\ calls' = [q \in Procs |-> calls'[q]]
    BY <1>1, Zenon DEF StoreShape
  <2> QED BY <1>1, <2>1 DEF StoreShape
<1>4. PhaseInv'
  BY <1>1, <1>2 DEF PhaseInv
<1>5. \A q \in Procs : \A x : Writing(q, x)' <=> Writing(q, x)
  BY <1>1, <1>2 DEF Writing, Store!Putting
<1>6. OpenInv'
  BY <1>1, <1>5 DEF OpenInv
<1>7. \A q \in Procs : Store!Putting(q, "rename")' => Store!Putting(q, "rename") /\ q # p /\ calls'[q] = calls[q]
  BY <1>1, <1>2 DEF Store!Putting
<1>8. RestartInv'
  <2> SUFFICES ASSUME NEW q \in Procs, q \in up, ~foreign[q] PROVE AloneInv(q)'
    BY <1>1 DEF RestartInv
  <2>1. AloneInv(q)
    BY DEF RestartInv
  <2>2. \A r \in Procs : r # q => phase'[r] # "write"
    BY <1>2, <2>1 DEF AloneInv
  <2> QED BY <1>1, <1>5, <1>7, <2>1, <2>2 DEF AloneInv
<1>9. ReplaceInv'
  <2>1. CallsInv(p)'
    BY <1>2 DEF CallsInv
  <2>2. \A q \in Procs : CallsInv(q)'
    BY <1>1, <1>2, <2>1, FewerWatched
  <2>3. \A q \in Procs : JobInv(q)'
    BY <1>1 DEF ReplaceInv, JobInv
  <2> QED BY <1>1, <2>2, <2>3, NoFileLost DEF ReplaceInv
<1> QED BY <1>3, <1>4, <1>6, <1>8, <1>9

-----------------------------------------------------------------------------
(* Removing a file.                                                        *)

LEMMA DropAtHead ==
    ASSUME NEW p \in Procs, CallsInv(p), calls[p] # <<>>, Head(calls[p]).op = "drop"
    PROVE  /\ Head(calls[p]).id \in Layers /\ Tail(calls[p]) = <<>>
           /\ Freed(Head(calls[p]).id) \/ (p = Workbench /\ Succeeded(Head(calls[p]).id))
<1>1. ASSUME NEW a, Put(a), NEW rest, calls[p] = <<a>> \/ calls[p] = <<a, rest>> PROVE FALSE
  BY <1>1 DEF Put
<1>2. CASE \E id \in Layers : /\ calls[p] = <<Store!drop(id)>>
                              /\ Freed(id) \/ (p = Workbench /\ Succeeded(id))
  <2> PICK id \in Layers : /\ calls[p] = <<Store!drop(id)>>
                           /\ Freed(id) \/ (p = Workbench /\ Succeeded(id))
    BY <1>2
  <2>1. Head(calls[p]).id = id /\ Tail(calls[p]) = <<>>
    BY DEF Store!drop
  <2> QED BY <2>1
<1> QED BY <1>1, <1>2 DEF CallsInv

LEMMA Dropped ==
    ASSUME StoreInv, NEW p \in Procs, Store!Remove(p)
    PROVE StoreInv'
<1> USE DEF StoreInv
<1>1. PICK id : id = Head(calls[p]).id
  OBVIOUS
<1>2. /\ p \in up /\ calls[p] # <<>> /\ Head(calls[p]).op = "drop"
      /\ UNCHANGED <<temp, up, phase, job, kept>>
  BY DEF Store!Remove, Store!Dropping
<1>3. /\ id \in Layers /\ Tail(calls[p]) = <<>>
      /\ Freed(id) \/ (p = Workbench /\ Succeeded(id))
  BY <1>1, <1>2, DropAtHead DEF ReplaceInv
<1>4. phase[p] = "open"
  BY <1>2 DEF PhaseInv
<1>5. calls' = [calls EXCEPT ![p] = <<>>]
  BY <1>3, Zenon DEF Store!Remove, StoreShape
<1>6. \A q \in Procs : calls'[q] = IF q = p THEN <<>> ELSE calls[q]
  BY <1>5 DEF StoreShape
<1>7. \/ /\ mem' = [mem EXCEPT ![p][id] = Store!Absent]
         /\ disk' = [disk EXCEPT ![id] = NoFile]
         /\ foreign' = Store!Others(p)
      \/ /\ mem' = [mem EXCEPT ![p][id] = Store!Absent]
         /\ foreign' = [foreign EXCEPT ![p] = TRUE]
         /\ UNCHANGED disk
      \/ UNCHANGED <<disk, mem, foreign>>
  BY <1>1 DEF Store!Remove, NoFile
<1>8. /\ disk' = [x \in Layers |-> disk'[x]]
      /\ \A x \in Layers : disk'[x] = disk[x] \/ (x = id /\ disk'[x] = NoFile)
  BY <1>3, <1>7 DEF StoreShape
<1>9. /\ mem' = [q \in Procs |-> mem'[q]]
      /\ \A q \in Procs : mem'[q] = [x \in Layers |-> mem'[q][x]]
  BY <1>3, <1>7 DEF StoreShape
<1>10. /\ foreign' = [q \in Procs |-> foreign'[q]]
       /\ \A q \in Procs : foreign'[q] \in BOOLEAN
       /\ \A q \in Procs : foreign[q] => foreign'[q]
  BY <1>7, Zenon DEF StoreShape, Store!Others
<1>11. StoreShape'
  <2>1. calls' = [q \in Procs |-> calls'[q]]
    BY <1>5, Zenon DEF StoreShape
  <2>2. \A x \in Layers : IsFile(disk'[x]) /\ IsFile(temp'[x])
    BY <1>2, <1>8, FileFacts DEF StoreShape
  <2> QED BY <1>2, <1>8, <1>9, <1>10, <2>1, <2>2 DEF StoreShape
<1>12. PhaseInv'
  BY <1>2, <1>4, <1>6 DEF PhaseInv
<1>13. \A q \in Procs : \A x : Writing(q, x)' <=> Writing(q, x)
  BY <1>2, <1>4, <1>6 DEF Writing, Store!Putting
<1>14. OpenInv'
  <2> SUFFICES ASSUME NEW x \in Layers
               PROVE  /\ disk'[x] # NoFile => \A q \in disk'[x].open : q \in Procs /\ Writing(q, x)' /\ foreign'[q]
                      /\ temp'[x] # NoFile => \A q \in temp'[x].open : q \in Procs /\ Writing(q, x)'
    BY DEF OpenInv, NoFile, Store!NoFile
  <2> QED BY <1>2, <1>8, <1>10, <1>13 DEF OpenInv
<1>15. RestartInv'
  <2> SUFFICES ASSUME NEW q \in Procs, q \in up, ~foreign'[q] PROVE AloneInv(q)'
    BY <1>2 DEF RestartInv
  <2>1. AloneInv(q)
    BY <1>10 DEF RestartInv
  <2>2. \A x \in Layers : Store!load(disk[x]) = mem[q][x]
    BY <2>1 DEF AloneInv
  <2>3. \A x \in Layers : Store!load(disk'[x]) = mem'[q][x]
    <3>1. CASE UNCHANGED <<disk, mem, foreign>>
      BY <2>2, <3>1
    <3>2. CASE /\ mem' = [mem EXCEPT ![p][id] = Store!Absent]
               /\ disk' = [disk EXCEPT ![id] = NoFile]
               /\ foreign' = Store!Others(p)
      <4>1. q = p
        BY <3>2, Zenon DEF Store!Others
      <4>2. \A x \in Layers : mem'[p][x] = IF x = id THEN Store!Absent ELSE mem[p][x]
        BY <3>2, <1>3 DEF StoreShape
      <4>3. \A x \in Layers : disk'[x] = IF x = id THEN NoFile ELSE disk[x]
        BY <3>2, <1>3 DEF StoreShape
      <4> QED BY <2>2, <4>1, <4>2, <4>3, FileFacts
    <3>3. CASE /\ mem' = [mem EXCEPT ![p][id] = Store!Absent]
               /\ foreign' = [foreign EXCEPT ![p] = TRUE]
               /\ UNCHANGED disk
      <4>1. q # p
        BY <3>3 DEF StoreShape
      <4>2. mem'[q] = mem[q]
        BY <3>3, <4>1 DEF StoreShape
      <4> QED BY <2>2, <3>3, <4>2
    <3> QED BY <1>7, <3>1, <3>2, <3>3
  <2>4. \A r \in Procs : Store!Putting(r, "rename")' => Store!Putting(r, "rename") /\ calls'[r] = calls[r]
    BY <1>2, <1>4, <1>6 DEF Store!Putting
  <2>5. \A r \in Procs : r # q => phase'[r] # "write"
    BY <1>2, <2>1 DEF AloneInv
  <2>6. \A x \in Layers : Writing(q, x)' => temp'[x] # NoFile /\ q \in temp'[x].open /\ temp'[x].record = Store!Empty
    BY <1>2, <1>13, <2>1 DEF AloneInv
  <2>7. \A x \in Layers : Store!Putting(q, "rename")' /\ Head(calls'[q]).id = x =>
          temp'[x] # NoFile /\ temp'[x].whole = TRUE /\ temp'[x].record = Head(calls'[q]).record
    BY <1>2, <2>1, <2>4 DEF AloneInv
  <2> QED BY <2>3, <2>5, <2>6, <2>7 DEF AloneInv, NoFile, Store!NoFile, Store!load, Store!Absent, Store!Empty
<1>16. \A k \in kept : k.old \in Layers /\ k.new \in Layers
  BY DEF StoreShape
<1>17. Store!ReplacementNeverLosesBoth'
  <2> SUFFICES ASSUME NEW k \in kept PROVE disk'[k.old] # NoFile \/ disk'[k.new] # NoFile
    BY <1>2 DEF Store!ReplacementNeverLosesBoth, NoFile, Store!NoFile
  <2>1. disk[k.old] # NoFile \/ disk[k.new] # NoFile
    BY DEF ReplaceInv, Store!ReplacementNeverLosesBoth, NoFile
  <2>2. CASE Touches(k, id)
    <3>1. k.new # id /\ disk[k.new] # NoFile
      BY <1>3, <2>2 DEF Freed, Succeeded
    <3> QED BY <1>8, <1>16, <3>1
  <2>3. CASE ~Touches(k, id)
    BY <1>8, <1>16, <2>1, <2>3 DEF Touches
  <2> QED BY <2>2, <2>3
<1>18. ASSUME NEW q \in Procs PROVE CallsInv(q)'
  <2>1. CASE q = p
    BY <1>6, <2>1 DEF CallsInv
  <2>2. CASE q # p
    <3>1. calls'[q] = calls[q]
      BY <1>6, <2>2
    <3>2. CallsInv(q)
      BY DEF ReplaceInv
    <3>3. CASE calls[q] = <<>>
      BY <3>1, <3>3 DEF CallsInv
    <3>4. CASE \E a : Put(a) /\ calls[q] = <<a>>
      BY <3>1, <3>4 DEF CallsInv
    <3>5. CASE \E a, b : Put(a) /\ Put(b) /\ calls[q] = <<a, b>>
      BY <3>1, <3>5 DEF CallsInv
    <3>6. CASE \E x \in Layers : /\ calls[q] = <<Store!drop(x)>>
                                 /\ Freed(x) \/ (q = Workbench /\ Succeeded(x))
      <4> PICK x \in Layers : /\ calls[q] = <<Store!drop(x)>>
                              /\ Freed(x) \/ (q = Workbench /\ Succeeded(x))
        BY <3>6
      <4>1. CASE Freed(x)
        <5>1. Freed(x)'
          BY <1>2, <4>1 DEF Freed, Touches
        <5> QED BY <3>1, <5>1 DEF CallsInv, Store!drop
      <4>2. CASE q = Workbench /\ Succeeded(x)
        <5>1. Freed(id)
          BY <1>3, <2>2, <4>2
        <5>2. \A k \in kept : Touches(k, x) => k.old = x /\ k.new # x /\ disk'[k.new] # NoFile
          BY <1>8, <1>16, <4>2, <5>1 DEF Freed, Succeeded, Touches
        <5>3. Succeeded(x)'
          BY <1>2, <5>2 DEF Succeeded, Touches, NoFile, Store!NoFile
        <5> QED BY <3>1, <4>2, <5>3 DEF CallsInv, Store!drop
      <4> QED BY <4>1, <4>2
    <3>7. CASE /\ q = Workbench
               /\ \E a, x : /\ Put(a) /\ x \in Layers /\ x # a.id /\ calls[q] = <<a, Store!drop(x)>>
                            /\ \A k \in kept : Touches(k, x) => k.old = x /\ k.new = a.id
      <4>1. \E a, x : /\ Put(a) /\ x \in Layers /\ x # a.id /\ calls'[q] = <<a, Store!drop(x)>>
                      /\ \A k \in kept' : Touches(k, x) => k.old = x /\ k.new = a.id
        BY <1>2, <3>1, <3>7
      <4> QED BY <3>7, <4>1 DEF CallsInv, Store!drop
    <3> QED BY <3>2, <3>3, <3>4, <3>5, <3>6, <3>7 DEF CallsInv
  <2> QED BY <2>1, <2>2
<1>19. \A q \in Procs : JobInv(q)'
  BY <1>2 DEF ReplaceInv, JobInv
<1> QED BY <1>11, <1>12, <1>14, <1>15, <1>17, <1>18, <1>19 DEF ReplaceInv

-----------------------------------------------------------------------------
(* Crash and restart.                                                      *)

LEMMA ClosedFile ==
    ASSUME NEW f, IsFile(f), NEW p, NEW g,
           g = IF f = NoFile THEN NoFile ELSE [f EXCEPT !.open = @ \ {p}]
    PROVE  /\ IsFile(g)
           /\ g = NoFile <=> f = NoFile
           /\ f # NoFile => g.record = f.record /\ g.whole = f.whole /\ g.open = f.open \ {p}
           /\ Store!load(g) = Store!load(f)
<1>1. CASE f = NoFile
  BY <1>1
<1>2. CASE f # NoFile
  <2>1. f = Store!File(f.record, f.whole, f.open)
    BY <1>2 DEF IsFile
  <2>2. g = Store!File(f.record, f.whole, f.open \ {p})
    BY <1>2, <2>1 DEF Store!File
  <2>3. g.record = f.record /\ g.whole = f.whole /\ g.open = f.open \ {p}
    BY <2>2 DEF Store!File
  <2>4. IsFile(g) /\ g # NoFile
    <3>1. PICK r, w, o : r = f.record /\ w = f.whole /\ o = f.open \ {p}
      BY Zenon
    <3>2. g = Store!File(r, w, o)
      BY <2>2, <3>1
    <3>3. IsFile(Store!File(r, w, o)) /\ Store!File(r, w, o) # NoFile
      BY FileFacts, Zenon
    <3> QED BY <3>2, <3>3, Zenon
  <2> QED BY <1>2, <2>3, <2>4 DEF Store!load, NoFile
<1> QED BY <1>1, <1>2

LEMMA Crashed ==
    ASSUME StoreInv, NEW p \in Procs, Store!Crash(p)
    PROVE StoreInv'
<1> USE DEF StoreInv
<1>1. /\ p \in up /\ up' = up \ {p} /\ UNCHANGED <<foreign, kept>>
      /\ mem' = [mem EXCEPT ![p] = [id \in Layers |-> Store!Absent]]
      /\ calls' = [calls EXCEPT ![p] = <<>>] /\ phase' = [phase EXCEPT ![p] = "open"]
      /\ job' = [job EXCEPT ![p] = Store!NoJob]
      /\ disk' = Store!Closed(disk, p) /\ temp' = Store!Closed(temp, p)
  BY DEF Store!Crash
<1>2. \A q \in Procs : /\ phase'[q] = IF q = p THEN "open" ELSE phase[q]
                       /\ calls'[q] = IF q = p THEN <<>> ELSE calls[q]
                       /\ q # p => mem'[q] = mem[q]
  BY <1>1, Zenon DEF StoreShape
<1>3. \A x \in Layers :
        /\ disk'[x] = IF disk[x] = NoFile THEN NoFile ELSE [disk[x] EXCEPT !.open = @ \ {p}]
        /\ temp'[x] = IF temp[x] = NoFile THEN NoFile ELSE [temp[x] EXCEPT !.open = @ \ {p}]
  BY <1>1 DEF Store!Closed, NoFile
<1>4. ASSUME NEW x \in Layers
      PROVE  /\ IsFile(disk'[x]) /\ (disk'[x] = NoFile <=> disk[x] = NoFile)
             /\ disk[x] # NoFile => disk'[x].open = disk[x].open \ {p}
             /\ Store!load(disk'[x]) = Store!load(disk[x])
  <2>1. PICK f, g : f = disk[x] /\ g = disk'[x]
    OBVIOUS
  <2>2. IsFile(f) /\ g = IF f = NoFile THEN NoFile ELSE [f EXCEPT !.open = @ \ {p}]
    BY <1>3, <2>1, Zenon DEF StoreShape
  <2>3. /\ IsFile(g)
        /\ g = NoFile <=> f = NoFile
        /\ f # NoFile => g.record = f.record /\ g.whole = f.whole /\ g.open = f.open \ {p}
        /\ Store!load(g) = Store!load(f)
    BY <2>2, ClosedFile
  <2> QED BY <2>1, <2>3
<1>5. ASSUME NEW x \in Layers
      PROVE  /\ IsFile(temp'[x]) /\ (temp'[x] = NoFile <=> temp[x] = NoFile)
             /\ temp[x] # NoFile => /\ temp'[x].open = temp[x].open \ {p}
                                    /\ temp'[x].whole = temp[x].whole /\ temp'[x].record = temp[x].record
  <2>1. PICK f, g : f = temp[x] /\ g = temp'[x]
    OBVIOUS
  <2>2. IsFile(f) /\ g = IF f = NoFile THEN NoFile ELSE [f EXCEPT !.open = @ \ {p}]
    BY <1>3, <2>1, Zenon DEF StoreShape
  <2>3. /\ IsFile(g)
        /\ g = NoFile <=> f = NoFile
        /\ f # NoFile => g.record = f.record /\ g.whole = f.whole /\ g.open = f.open \ {p}
        /\ Store!load(g) = Store!load(f)
    BY <2>2, ClosedFile
  <2> QED BY <2>1, <2>3
<1>6. StoreShape'
  <2>1. temp' = [x \in Layers |-> temp'[x]] /\ disk' = [x \in Layers |-> disk'[x]]
    BY <1>1 DEF Store!Closed
  <2>2. /\ phase' = [q \in Procs |-> phase'[q]] /\ calls' = [q \in Procs |-> calls'[q]]
        /\ job' = [q \in Procs |-> job'[q]] /\ mem' = [q \in Procs |-> mem'[q]]
    BY <1>1, Zenon DEF StoreShape
  <2>3. \A q \in Procs : mem'[q] = [x \in Layers |-> mem'[q][x]]
    BY <1>1 DEF StoreShape
  <2>4. \A x \in Layers : IsFile(disk'[x]) /\ IsFile(temp'[x])
    BY <1>4, <1>5
  <2> QED BY <1>1, <2>1, <2>2, <2>3, <2>4, Zenon DEF StoreShape
<1>7. PhaseInv'
  BY <1>1, <1>2 DEF PhaseInv
<1>8. \A q \in Procs : \A x : q # p => (Writing(q, x)' <=> Writing(q, x))
  BY <1>1, <1>2 DEF Writing, Store!Putting
<1>9. OpenInv'
  <2> SUFFICES ASSUME NEW x \in Layers
               PROVE  /\ disk'[x] # NoFile => \A q \in disk'[x].open : q \in Procs /\ Writing(q, x)' /\ foreign'[q]
                      /\ temp'[x] # NoFile => \A q \in temp'[x].open : q \in Procs /\ Writing(q, x)'
    BY DEF OpenInv, NoFile, Store!NoFile
  <2> QED BY <1>1, <1>4, <1>5, <1>8 DEF OpenInv
<1>10. RestartInv'
  <2> SUFFICES ASSUME NEW q \in Procs, q \in up, q # p, ~foreign[q] PROVE AloneInv(q)'
    BY <1>1 DEF RestartInv
  <2>1. AloneInv(q)
    BY DEF RestartInv
  <2>2. \A r \in Procs : r # q => phase'[r] # "write"
    BY <1>2, <2>1 DEF AloneInv
  <2>3. \A x \in Layers : Store!load(disk'[x]) = mem'[q][x]
    BY <1>2, <1>4, <2>1 DEF AloneInv
  <2>4. \A x \in Layers : Writing(q, x)' => temp'[x] # NoFile /\ q \in temp'[x].open /\ temp'[x].record = Store!Empty
    BY <1>5, <1>8, <2>1 DEF AloneInv
  <2>5. Store!Putting(q, "rename")' => Store!Putting(q, "rename") /\ calls'[q] = calls[q]
    BY <1>1, <1>2 DEF Store!Putting
  <2>6. \A x \in Layers : Store!Putting(q, "rename")' /\ Head(calls'[q]).id = x =>
          temp'[x] # NoFile /\ temp'[x].whole = TRUE /\ temp'[x].record = Head(calls'[q]).record
    BY <1>5, <2>1, <2>5 DEF AloneInv
  <2> QED BY <2>2, <2>3, <2>4, <2>6 DEF AloneInv, NoFile, Store!NoFile, Store!load, Store!Absent, Store!Empty
<1>11. ReplaceInv'
  <2>0. \A x \in Layers : disk[x] # NoFile => disk'[x] # NoFile
    BY <1>4
  <2>1. CallsInv(p)'
    BY <1>2 DEF CallsInv
  <2>2. \A q \in Procs : CallsInv(q)'
    BY <1>1, <1>2, <2>0, <2>1, FewerWatched
  <2>3. \A q \in Procs : JobInv(q)'
    BY <1>1 DEF StoreShape, ReplaceInv, JobInv
  <2> QED BY <1>1, <2>0, <2>2, <2>3, NoFileLost DEF ReplaceInv
<1> QED BY <1>6, <1>7, <1>9, <1>10, <1>11

LEMMA Restarted ==
    ASSUME StoreInv, NEW p \in Procs, Store!open(p)
    PROVE StoreInv'
<1> USE DEF StoreInv
<1>1. /\ p \notin up /\ up' = up \cup {p}
      /\ UNCHANGED <<disk, temp, calls, phase, job, kept>>
      /\ mem' = [mem EXCEPT ![p] = [id \in Layers |-> Store!load(disk[id])]]
  BY DEF Store!open
<1>2. PICK busy : busy = (\E q \in up : calls[q] # <<>>)
  BY Zenon
<1>3. foreign' = [foreign EXCEPT ![p] = busy]
  BY <1>2 DEF Store!open
<1>4. busy \in BOOLEAN
  BY <1>2
<1>5. \A q \in Procs : foreign'[q] = IF q = p THEN busy ELSE foreign[q]
  BY <1>3 DEF StoreShape
<1>6. phase[p] = "open"
  BY <1>1 DEF PhaseInv
<1>7. StoreShape'
  <2>1. /\ foreign' = [q \in Procs |-> foreign'[q]]
        /\ mem' = [q \in Procs |-> mem'[q]]
    BY <1>1, <1>3, Zenon DEF StoreShape
  <2>2. \A q \in Procs : foreign'[q] \in BOOLEAN
    BY <1>4, <1>5 DEF StoreShape
  <2>3. \A q \in Procs : mem'[q] = [x \in Layers |-> mem'[q][x]]
    BY <1>1 DEF StoreShape
  <2> QED BY <1>1, <2>1, <2>2, <2>3 DEF StoreShape
<1>8. PhaseInv'
  BY <1>1 DEF PhaseInv
<1>9. \A q \in Procs : \A x : (Writing(q, x)' <=> Writing(q, x)) /\ ~Writing(p, x)
  BY <1>1, <1>6 DEF Writing, Store!Putting
<1>10. OpenInv'
  <2> SUFFICES ASSUME NEW x \in Layers
               PROVE  /\ disk'[x] # NoFile => \A q \in disk'[x].open : q \in Procs /\ Writing(q, x)' /\ foreign'[q]
                      /\ temp'[x] # NoFile => \A q \in temp'[x].open : q \in Procs /\ Writing(q, x)'
    BY DEF OpenInv, NoFile, Store!NoFile
  <2> QED BY <1>1, <1>5, <1>9 DEF OpenInv
<1>11. \A q \in Procs : Store!Putting(q, "rename")' => Store!Putting(q, "rename") /\ q # p
  BY <1>1, <1>6 DEF Store!Putting
<1>12. RestartInv'
  <2> SUFFICES ASSUME NEW q \in Procs, q \in up', ~foreign'[q] PROVE AloneInv(q)'
    BY DEF RestartInv
  <2>1. CASE q = p
    <3>1. ~busy
      BY <1>5, <2>1
    <3>2. \A r \in Procs : phase[r] = "open"
      BY <1>2, <3>1 DEF PhaseInv
    <3>3. \A x \in Layers : Store!load(disk'[x]) = mem'[p][x]
      BY <1>1 DEF StoreShape
    <3> QED BY <1>1, <1>9, <1>11, <2>1, <3>2, <3>3 DEF AloneInv
  <2>2. CASE q # p
    <3>1. AloneInv(q)
      BY <1>1, <1>5, <2>2 DEF RestartInv
    <3>2. mem'[q] = mem[q]
      BY <1>1, <2>2 DEF StoreShape
    <3> QED BY <1>1, <1>9, <1>11, <2>2, <3>1, <3>2 DEF AloneInv
  <2> QED BY <2>1, <2>2
<1>13. ReplaceInv'
  <2>1. \A q \in Procs : CallsInv(q)'
    BY <1>1, FewerWatched
  <2>2. \A q \in Procs : JobInv(q)'
    BY <1>1 DEF ReplaceInv, JobInv
  <2> QED BY <1>1, <2>1, <2>2, NoFileLost DEF ReplaceInv
<1> QED BY <1>7, <1>8, <1>10, <1>12, <1>13

-----------------------------------------------------------------------------

LEMMA StoreNext == StoreInv /\ Store!Next => StoreInv'
<1> SUFFICES ASSUME StoreInv, Store!Next PROVE StoreInv'
  OBVIOUS
<1> PICK p \in Procs :
      \/ Store!Import(p) \/ Store!rename(p) \/ Store!set_style(p) \/ Store!classify_layer(p) \/ Store!remove(p)
      \/ Store!RunStarts(p) \/ Store!AssignStarts(p) \/ Store!RunEnds(p) \/ Store!RunFails(p)
      \/ Store!PersistOpen(p) \/ Store!PersistWrite(p) \/ Store!PersistRename(p) \/ Store!PersistLosesTemp(p)
      \/ Store!Remove(p) \/ Store!Crash(p) \/ Store!open(p)
  BY DEF Store!Next
<1> QED BY PutRequests, RemoveRequest, StartRequests, RunEnded, RunFailed, Opened, Wrote, Renamed, TempLost,
           Dropped, Crashed, Restarted

LEMMA StoreStays == StoreInv /\ UNCHANGED storeVars => StoreInv'
<1> SUFFICES ASSUME StoreInv, UNCHANGED storeVars PROVE StoreInv'
  OBVIOUS
<1>1. UNCHANGED <<disk, temp, mem, up, calls, phase, job, foreign, kept>>
  BY DEF storeVars
<1> USE <1>1 DEF StoreInv
<1>2. StoreShape' /\ PhaseInv'
  BY DEF StoreShape, PhaseInv
<1>3. OpenInv' /\ RestartInv'
  BY DEF OpenInv, RestartInv, AloneInv, Writing, Store!Putting
<1>4. \A q \in Procs : CallsInv(q)'
  BY FewerWatched
<1>5. \A q \in Procs : JobInv(q)'
  BY DEF ReplaceInv, JobInv
<1>6. Store!ReplacementNeverLosesBoth'
  BY NoFileLost
<1> QED BY <1>2, <1>3, <1>4, <1>5, <1>6 DEF ReplaceInv

(* Whatever processes share the directory, and wherever they are stopped:  *)
(* a process nobody wrote behind would load what it holds, and a layer     *)
(* being replaced or its successor keeps its file.                         *)
THEOREM LayerFilesSurviveTheorem == SessionsSpec => []LayerFilesSurvive
<1>1. SessionsInit => StoreInv
  BY StoreStarts DEF SessionsInit
<1>2. StoreInv /\ [SessionsNext]_allVars => StoreInv'
  BY StoreNext, StoreStays DEF SessionsNext, Still, allVars
<1>3. StoreInv => LayerFilesSurvive
  BY DEF StoreInv, RestartInv, AloneInv, ReplaceInv, LayerFilesSurvive, RestartIsInvisible,
         Store!RestartIsInvisible, Store!Alone, ReplacementNeverLosesBoth
<1> QED BY <1>1, <1>2, <1>3, PTL DEF SessionsSpec

-----------------------------------------------------------------------------
(* The data-analysis view.                                                 *)

NoLayer == View!NoLayer

IsRequest(r) == r = [kind |-> r.kind, arg |-> r.arg, then |-> r.then, step |-> r.step, answer |-> r.answer]

\* Requests are numbered as they are sent, and an answer is applied once.
FlightInv ==
    /\ sent \in Nat
    /\ flight = [n \in DOMAIN flight |-> flight[n]] /\ DOMAIN flight \subseteq 1..sent
    /\ \A n \in DOMAIN flight :
          /\ IsRequest(flight[n])
          /\ flight[n].step = "running" => flight[n].kind \in {"ask", "crs"}
          /\ flight[n].kind \in {"import", "import_crs"} => flight[n].arg \in Ids

AppliedInv ==
    /\ applied = [list |-> applied.list, rows |-> applied.rows]
    /\ applied.list \in 0..sent /\ applied.list \notin DOMAIN flight
    /\ applied.rows \in 0..sent /\ applied.rows \notin DOMAIN flight
    /\ table = [page |-> table.page, total |-> table.total]

PromptInv == pending \in Ids \cup {NoLayer} /\ prompt \in BOOLEAN /\ View!PromptMatchesPending

\* The request of one kind that was sent last, when it is newer than a.
Latest(kind, a, n) ==
    /\ n \in DOMAIN flight /\ flight[n].kind = kind /\ n > a
    /\ \A m \in DOMAIN flight : flight[m].kind = kind => m <= n
AllOlder(kind, a) == \A m \in DOMAIN flight : flight[m].kind = kind => m < a

\* A change whose continuation will ask for the listing.
Changed(n) ==
    /\ n \in DOMAIN flight
    /\ flight[n].kind \in {"import", "import_crs", "delete", "classify", "clear", "ask", "crs"}
    /\ flight[n].step = "answered" /\ flight[n].answer = "ok"

\* The listing asked for last, or the one on screen, is that of the server,
\* or another one is about to be asked for.
ListInv ==
    \/ "list" \in spoilt
    \/ \E n \in DOMAIN flight : Changed(n)
    \/ /\ \A n : Latest("list", applied.list, n) => flight[n].step = "sent" \/ flight[n].answer = stored
       /\ AllOlder("list", applied.list) => list = stored

\* The page asked for last, or the one on screen, is that of the open table.
RowsInv ==
    \/ "rows" \in spoilt
    \/ active = NoLayer
    \/ /\ \A n : Latest("table", applied.rows, n) => flight[n].arg = [id |-> active, page |-> table.page]
       /\ AllOlder("table", applied.rows) => rows = [id |-> active, page |-> table.page]

ViewInv == FlightInv /\ AppliedInv /\ PromptInv /\ ListInv /\ RowsInv

-----------------------------------------------------------------------------
(* What sending, answering and consuming do to the requests under way.     *)

Sent0(under) == sent' = sent /\ flight' = [n \in under |-> flight[n]]
Sent1(under, r) ==
    /\ sent' = sent + 1
    /\ flight' = [n \in under \cup {sent + 1} |-> IF n = sent + 1 THEN r ELSE flight[n]]

LEMMA WithNone ==
    ASSUME sent \in Nat, NEW under, under \subseteq 1..sent
    PROVE  View!With(<<>>, under) = [n \in under |-> flight[n]]
<1>1. (sent + 1)..(sent + Len(<<>>)) = {}
  OBVIOUS
<1>2. under \cup (sent + 1)..(sent + Len(<<>>)) = under
  BY <1>1
<1>3. \A n \in under : n <= sent
  OBVIOUS
<1> QED BY <1>2, <1>3 DEF View!With

LEMMA WithOne ==
    ASSUME sent \in Nat, NEW under, under \subseteq 1..sent, NEW r
    PROVE  View!With(<<r>>, under) = [n \in under \cup {sent + 1} |-> IF n = sent + 1 THEN r ELSE flight[n]]
<1>0. Len(<<r>>) = 1 /\ <<r>>[1] = r
  OBVIOUS
<1>1. (sent + 1)..(sent + Len(<<r>>)) = {sent + 1}
  BY <1>0
<1>2. under \cup (sent + 1)..(sent + Len(<<r>>)) = under \cup {sent + 1}
  BY <1>1
<1>3. \A n \in under \cup {sent + 1} : /\ n = sent + 1 => ~(n <= sent) /\ n - sent = 1
                                      /\ n # sent + 1 => n <= sent
  OBVIOUS
<1> QED BY <1>0, <1>2, <1>3 DEF View!With

LEMMA SendsNone ==
    ASSUME FlightInv, View!Send(<<>>)
    PROVE  Sent0(DOMAIN flight)
<1>1. Len(<<>>) = 0
  OBVIOUS
<1>2. sent' = sent + Len(<<>>) /\ flight' = View!With(<<>>, DOMAIN flight)
  BY DEF View!Send
<1> QED BY <1>1, <1>2, WithNone DEF FlightInv, Sent0

LEMMA SendsOne ==
    ASSUME FlightInv, NEW r, View!Send(<<r>>)
    PROVE  Sent1(DOMAIN flight, r)
<1>1. Len(<<r>>) = 1
  OBVIOUS
<1>2. sent' = sent + Len(<<r>>) /\ flight' = View!With(<<r>>, DOMAIN flight)
  BY DEF View!Send
<1> QED BY <1>1, <1>2, WithOne DEF FlightInv, Sent1

LEMMA ContinuesNone ==
    ASSUME FlightInv, NEW n, View!Continue(n, <<>>)
    PROVE  Sent0(DOMAIN flight \ {n})
<1>1. Len(<<>>) = 0
  OBVIOUS
<1>2. DOMAIN flight \ {n} \subseteq 1..sent
  BY DEF FlightInv
<1>3. sent' = sent + Len(<<>>) /\ flight' = View!With(<<>>, DOMAIN flight \ {n})
  BY DEF View!Continue
<1> QED BY <1>1, <1>2, <1>3, WithNone DEF FlightInv, Sent0

LEMMA ContinuesOne ==
    ASSUME FlightInv, NEW n, NEW r, View!Continue(n, <<r>>)
    PROVE  Sent1(DOMAIN flight \ {n}, r)
<1>1. Len(<<r>>) = 1
  OBVIOUS
<1>2. PICK under : under = DOMAIN flight \ {n}
  BY Zenon
<1>3. sent \in Nat /\ under \subseteq 1..sent
  BY <1>2 DEF FlightInv
<1>4. sent' = sent + Len(<<r>>) /\ flight' = View!With(<<r>>, under)
  BY <1>2 DEF View!Continue
<1>5. flight' = [m \in under \cup {sent + 1} |-> IF m = sent + 1 THEN r ELSE flight[m]]
  BY <1>3, <1>4, WithOne, Zenon
<1>6. sent' = sent + 1
  BY <1>1, <1>4
<1> QED BY <1>2, <1>5, <1>6 DEF Sent1

\* A request that is sent: new, and not yet served.
New(r) == /\ IsRequest(r) /\ r.step = "sent"
          /\ r.kind \in {"import", "import_crs"} => r.arg \in Ids

LEMMA RequestIsNew ==
    ASSUME NEW kind, NEW arg, NEW then, kind \in {"import", "import_crs"} => arg \in Ids
    PROVE  /\ New(View!Request(kind, arg, then))
           /\ View!Request(kind, arg, then).kind = kind /\ View!Request(kind, arg, then).arg = arg
           /\ View!Request(kind, arg, then).step = "sent"
BY DEF New, IsRequest, View!Request

LEMMA FlightSent ==
    ASSUME FlightInv, NEW under, under \subseteq DOMAIN flight,
           Sent0(under) \/ \E r : New(r) /\ Sent1(under, r)
    PROVE  FlightInv'
<1>1. CASE Sent0(under)
  BY <1>1 DEF FlightInv, Sent0, IsRequest
<1>2. CASE \E r : New(r) /\ Sent1(under, r)
  <2> PICK r : New(r) /\ Sent1(under, r)
    BY <1>2
  <2>1. DOMAIN flight' = under \cup {sent + 1} /\ sent' = sent + 1
    BY DEF Sent1
  <2>2. \A n \in DOMAIN flight' : flight'[n] = IF n = sent + 1 THEN r ELSE flight[n]
    BY DEF Sent1
  <2>3. flight' = [n \in DOMAIN flight' |-> flight'[n]]
    BY DEF Sent1
  <2>4. sent' \in Nat /\ DOMAIN flight' \subseteq 1..sent'
    BY <2>1 DEF FlightInv
  <2>5. ASSUME NEW n \in DOMAIN flight'
        PROVE  /\ IsRequest(flight'[n])
               /\ flight'[n].step = "running" => flight'[n].kind \in {"ask", "crs"}
               /\ flight'[n].kind \in {"import", "import_crs"} => flight'[n].arg \in Ids
    <3>1. CASE n = sent + 1
      BY <2>2, <3>1 DEF New
    <3>2. CASE n # sent + 1
      BY <2>1, <2>2, <3>2 DEF FlightInv
    <3> QED BY <3>1, <3>2
  <2> QED BY <2>3, <2>4, <2>5 DEF FlightInv, IsRequest
<1> QED BY <1>1, <1>2

LEMMA AppliedSent ==
    ASSUME FlightInv, AppliedInv, NEW under, under \subseteq DOMAIN flight,
           Sent0(under) \/ \E r : Sent1(under, r),
           UNCHANGED applied, table' = [page |-> table'.page, total |-> table'.total]
    PROVE  AppliedInv'
<1>1. sent' \in {sent, sent + 1} /\ DOMAIN flight' \subseteq DOMAIN flight \cup {sent + 1}
  BY DEF Sent0, Sent1
<1> QED BY <1>1 DEF AppliedInv, FlightInv

\* The requests that remain are those of before.
LEMMA Remaining ==
    ASSUME FlightInv, NEW under, under \subseteq DOMAIN flight,
           NEW n \in under, Sent0(under) \/ \E r : Sent1(under, r)
    PROVE  n \in DOMAIN flight' /\ flight'[n] = flight[n]
<1>1. n # sent + 1
  BY DEF FlightInv
<1> QED BY <1>1 DEF Sent0, Sent1

LEMMA Remained ==
    ASSUME NEW under,
           NEW n \in DOMAIN flight', Sent0(under) \/ \E r : Sent1(under, r)
    PROVE  \/ n \in under /\ flight'[n] = flight[n]
           \/ n = sent + 1 /\ sent' = sent + 1 /\ \E r : Sent1(under, r) /\ flight'[n] = r
BY DEF Sent0, Sent1

-----------------------------------------------------------------------------
(* The listing.                                                            *)

\* Nothing of the listing, and no change, is consumed or asked for.
LEMMA ListKept ==
    ASSUME FlightInv, AppliedInv, ListInv, NEW under, under \subseteq DOMAIN flight,
           Sent0(under) \/ \E r : r.kind # "list" /\ Sent1(under, r),
           \A n \in DOMAIN flight \ under : flight[n].kind # "list" /\ ~Changed(n),
           UNCHANGED <<stored, list>>, applied'.list = applied.list, spoilt \subseteq spoilt'
    PROVE  ListInv'
<1>1. \A n \in under : n \in DOMAIN flight' /\ flight'[n] = flight[n]
  BY Remaining
<1>2. \A n \in DOMAIN flight' : flight'[n].kind = "list" => n \in under
  <2> SUFFICES ASSUME NEW n \in DOMAIN flight', n \notin under PROVE flight'[n].kind # "list"
    OBVIOUS
  <2> QED BY DEF Sent0, Sent1
<1>3. CASE "list" \in spoilt
  BY <1>3 DEF ListInv
<1>4. CASE \E n \in DOMAIN flight : Changed(n)
  <2> PICK n \in DOMAIN flight : Changed(n)
    BY <1>4
  <2>1. n \in under
    OBVIOUS
  <2> QED BY <1>1, <2>1 DEF ListInv, Changed
<1>5. CASE /\ \A n : Latest("list", applied.list, n) => flight[n].step = "sent" \/ flight[n].answer = stored
           /\ AllOlder("list", applied.list) => list = stored
  <2>1. ASSUME NEW n, Latest("list", applied.list, n)'
        PROVE  flight'[n].step = "sent" \/ flight'[n].answer = stored
    <3>1. n \in under /\ flight'[n] = flight[n]
      BY <1>1, <1>2, <2>1 DEF Latest
    <3>2. \A m \in DOMAIN flight : flight[m].kind = "list" => m \in under
      OBVIOUS
    <3>3. Latest("list", applied.list, n)
      BY <1>1, <2>1, <3>1, <3>2 DEF Latest
    <3> QED BY <1>5, <3>1, <3>3
  <2>2. AllOlder("list", applied.list)' => AllOlder("list", applied.list)
    BY <1>1 DEF AllOlder
  <2> QED BY <1>5, <2>1, <2>2 DEF ListInv
<1> QED BY <1>3, <1>4, <1>5 DEF ListInv

LEMMA ListAsked ==
    ASSUME FlightInv, AppliedInv, NEW under, under \subseteq DOMAIN flight, NEW r, r.kind = "list", r.step = "sent",
           Sent1(under, r), UNCHANGED applied
    PROVE  ListInv'
<1>1. sent + 1 \in DOMAIN flight' /\ flight'[sent + 1] = r
  BY DEF Sent1
<1>2. \A n \in DOMAIN flight' : n <= sent + 1
  BY DEF Sent1, FlightInv
<1>3. applied.list <= sent
  BY DEF AppliedInv, FlightInv
<1>4. ASSUME NEW n, Latest("list", applied.list, n)' PROVE n = sent + 1
  <2>1. n \in DOMAIN flight' /\ sent + 1 <= n
    BY <1>1, <1>4 DEF Latest
  <2>2. n \in Nat /\ sent \in Nat
    BY <2>1 DEF Sent1, FlightInv
  <2> QED BY <1>2, <2>1, <2>2
<1>5. ~AllOlder("list", applied.list)'
  BY <1>1, <1>3 DEF AllOlder, FlightInv, AppliedInv
<1> QED BY <1>1, <1>4, <1>5 DEF ListInv

-----------------------------------------------------------------------------
(* The rows.                                                               *)

LEMMA RowsKept ==
    ASSUME FlightInv, AppliedInv, RowsInv, NEW under, under \subseteq DOMAIN flight,
           Sent0(under) \/ \E r : r.kind # "table" /\ Sent1(under, r),
           \A n \in DOMAIN flight \ under : flight[n].kind # "table",
           UNCHANGED <<active, rows>>, table'.page = table.page, applied'.rows = applied.rows, spoilt \subseteq spoilt'
    PROVE  RowsInv'
<1>1. \A n \in under : n \in DOMAIN flight' /\ flight'[n] = flight[n]
  BY Remaining
<1>2. \A n \in DOMAIN flight' : flight'[n].kind = "table" => n \in under
  <2> SUFFICES ASSUME NEW n \in DOMAIN flight', n \notin under PROVE flight'[n].kind # "table"
    OBVIOUS
  <2> QED BY DEF Sent0, Sent1
<1>3. CASE "rows" \in spoilt \/ active = NoLayer
  BY <1>3 DEF RowsInv, NoLayer, View!NoLayer
<1>4. CASE /\ \A n : Latest("table", applied.rows, n) => flight[n].arg = [id |-> active, page |-> table.page]
           /\ AllOlder("table", applied.rows) => rows = [id |-> active, page |-> table.page]
  <2>1. ASSUME NEW n, Latest("table", applied.rows, n)'
        PROVE  flight'[n].arg = [id |-> active, page |-> table.page]
    <3>1. n \in under /\ flight'[n] = flight[n]
      BY <1>1, <1>2, <2>1 DEF Latest
    <3>2. \A m \in DOMAIN flight : flight[m].kind = "table" => m \in under
      OBVIOUS
    <3>3. Latest("table", applied.rows, n)
      BY <1>1, <2>1, <3>1, <3>2 DEF Latest
    <3> QED BY <1>4, <3>1, <3>3
  <2>2. AllOlder("table", applied.rows)' => AllOlder("table", applied.rows)
    BY <1>1 DEF AllOlder
  <2> QED BY <1>4, <2>1, <2>2 DEF RowsInv
<1> QED BY <1>3, <1>4 DEF RowsInv

LEMMA RowsAsked ==
    ASSUME FlightInv, AppliedInv, NEW under, under \subseteq DOMAIN flight, NEW r, r.kind = "table",
           r.arg = [id |-> active', page |-> table'.page],
           Sent1(under, r), applied'.rows = applied.rows
    PROVE  RowsInv'
<1>1. sent + 1 \in DOMAIN flight' /\ flight'[sent + 1] = r
  BY DEF Sent1
<1>2. \A n \in DOMAIN flight' : n <= sent + 1
  BY DEF Sent1, FlightInv
<1>3. applied.rows <= sent
  BY DEF AppliedInv, FlightInv
<1>4. ASSUME NEW n, Latest("table", applied.rows, n)' PROVE n = sent + 1
  <2>1. n \in DOMAIN flight' /\ sent + 1 <= n
    BY <1>1, <1>4 DEF Latest
  <2>2. n \in Nat /\ sent \in Nat
    BY <2>1 DEF Sent1, FlightInv
  <2> QED BY <1>2, <2>1, <2>2
<1>5. ~AllOlder("table", applied.rows)'
  BY <1>1, <1>3 DEF AllOlder, FlightInv, AppliedInv
<1> QED BY <1>1, <1>4, <1>5 DEF RowsInv

-----------------------------------------------------------------------------
(* What the user does.                                                     *)

LEMMA ViewStarts == View!Init => ViewInv
<1> SUFFICES ASSUME View!Init PROVE ViewInv
  OBVIOUS
<1>0. DOMAIN flight = {}
  BY DEF View!Init
<1>1. FlightInv
  BY <1>0 DEF View!Init, FlightInv
<1>2. AppliedInv
  BY <1>0 DEF View!Init, AppliedInv
<1>3. PromptInv
  BY Zenon DEF View!Init, PromptInv, View!PromptMatchesPending, NoLayer
<1>4. ListInv
  BY <1>0 DEF View!Init, ListInv, Latest
<1>5. RowsInv
  BY DEF View!Init, RowsInv, NoLayer
<1> QED BY <1>1, <1>2, <1>3, <1>4, <1>5 DEF ViewInv

LEMMA PromptKept ==
    ASSUME PromptInv, UNCHANGED <<pending, prompt>>
    PROVE  PromptInv'
BY DEF PromptInv, View!PromptMatchesPending, View!NoLayer, NoLayer

LEMMA FlightStays ==
    ASSUME FlightInv, UNCHANGED <<flight, sent>>
    PROVE  Sent0(DOMAIN flight)
BY DEF FlightInv, Sent0

LEMMA UserAsks ==
    ASSUME ViewInv, NEW r, New(r), r.kind \notin {"list", "table"},
           View!Send(<<r>>), UNCHANGED stored, View!UNCHANGED_view
    PROVE  ViewInv'
<1> USE DEF ViewInv
<1>1. Sent1(DOMAIN flight, r)
  BY SendsOne
<1>2. UNCHANGED <<list, active, table, rows, pending, prompt, applied, spoilt>>
  BY DEF View!UNCHANGED_view
<1>3. FlightInv'
  BY <1>1, FlightSent
<1>4. AppliedInv'
  <2>1. table' = [page |-> table'.page, total |-> table'.total]
    BY <1>2 DEF AppliedInv
  <2> QED BY <1>1, <1>2, <2>1, AppliedSent, Zenon
<1>5. ListInv'
  BY <1>1, <1>2, ListKept
<1>6. RowsInv'
  BY <1>1, <1>2, RowsKept
<1> QED BY <1>2, <1>3, <1>4, <1>5, <1>6, PromptKept

LEMMA UserRequests ==
    ASSUME ViewInv,
           \/ View!Import \/ View!RetryImport \/ View!removeLayer \/ View!classifyPanel
           \/ View!crsPanel \/ View!setupAsk \/ View!drawMap
    PROVE  ViewInv'
<1>1. \E kind, arg :
         /\ kind \in {"import", "import_crs", "delete", "classify", "clear", "crs", "ask", "geometry"}
         /\ kind \in {"import", "import_crs"} => arg \in Ids
         /\ View!Send(<<View!Request(kind, arg, View!NoLayer)>>) /\ UNCHANGED stored /\ View!UNCHANGED_view
  <2>1. CASE View!Import
    BY <2>1 DEF View!Import
  <2>2. CASE View!RetryImport
    BY <2>2 DEF View!RetryImport, ViewInv, PromptInv, NoLayer
  <2>3. CASE View!removeLayer
    BY <2>3 DEF View!removeLayer
  <2>4. CASE View!classifyPanel
    BY <2>4 DEF View!classifyPanel
  <2>5. CASE View!crsPanel
    BY <2>5 DEF View!crsPanel
  <2>6. CASE View!setupAsk
    BY <2>6 DEF View!setupAsk
  <2>7. CASE View!drawMap
    BY <2>7 DEF View!drawMap
  <2> QED BY <2>1, <2>2, <2>3, <2>4, <2>5, <2>6, <2>7
<1>2. PICK kind, arg :
         /\ kind \in {"import", "import_crs", "delete", "classify", "clear", "crs", "ask", "geometry"}
         /\ kind \in {"import", "import_crs"} => arg \in Ids
         /\ View!Send(<<View!Request(kind, arg, View!NoLayer)>>) /\ UNCHANGED stored /\ View!UNCHANGED_view
  BY <1>1
<1>3. PICK r : r = View!Request(kind, arg, View!NoLayer)
  OBVIOUS
<1>4. New(r) /\ r.kind = kind
  BY <1>2, <1>3, RequestIsNew
<1>5. r.kind \notin {"list", "table"}
  BY <1>2, <1>4
<1> QED BY <1>2, <1>3, <1>4, <1>5, UserAsks

LEMMA Cancelled ==
    ASSUME ViewInv, View!CancelImport
    PROVE  ViewInv'
<1> USE DEF ViewInv
<1>1. /\ UNCHANGED <<stored, flight, sent, list, active, table, rows, applied, spoilt>>
      /\ pending' = View!NoLayer /\ prompt' = FALSE
  BY DEF View!CancelImport
<1>2. Sent0(DOMAIN flight)
  BY <1>1, FlightStays
<1>3. FlightInv'
  BY <1>2, FlightSent
<1>4. AppliedInv'
  BY <1>1 DEF AppliedInv
<1>5. ListInv'
  BY <1>1, <1>2, ListKept
<1>6. RowsInv'
  BY <1>1, <1>2, RowsKept
<1>7. PromptInv'
  BY <1>1, Zenon DEF PromptInv, View!PromptMatchesPending, View!NoLayer, NoLayer
<1> QED BY <1>3, <1>4, <1>5, <1>6, <1>7

LEMMA TablePageIs ==
    ASSUME NEW id, NEW page
    PROVE  /\ New(View!TablePage(id, page))
           /\ View!TablePage(id, page).kind = "table"
           /\ View!TablePage(id, page).arg = [id |-> id, page |-> page]
BY DEF New, IsRequest, View!Request, View!TablePage

LEMMA ListIs ==
    ASSUME NEW then
    PROVE  /\ New(View!List(then))
           /\ View!List(then).kind = "list" /\ View!List(then).step = "sent"
BY DEF New, IsRequest, View!Request, View!List

\* Opening a table or turning its page, with a request for the rows.
LEMMA RowsRequested ==
    ASSUME ViewInv, NEW page, View!Send(<<View!TablePage(active', page)>>),
           table'.page = page, table' = [page |-> table'.page, total |-> table'.total],
           UNCHANGED <<stored, list, pending, prompt, applied>>, spoilt \subseteq spoilt'
    PROVE  ViewInv'
<1> USE DEF ViewInv
<1>1. PICK r : r = View!TablePage(active', page)
  OBVIOUS
<1>2. New(r) /\ r.kind = "table" /\ r.arg = [id |-> active', page |-> page]
  BY <1>1, TablePageIs
<1>3. Sent1(DOMAIN flight, r)
  BY <1>1, SendsOne
<1>4. FlightInv'
  BY <1>2, <1>3, FlightSent, Zenon
<1>5. AppliedInv'
  BY <1>3, AppliedSent, Zenon
<1>6. ListInv'
  BY <1>2, <1>3, ListKept, Zenon
<1>7. RowsInv'
  BY <1>2, <1>3, RowsAsked
<1> QED BY <1>4, <1>5, <1>6, <1>7, PromptKept

LEMMA TableOpened ==
    ASSUME ViewInv, View!openTable
    PROVE  ViewInv'
<1> PICK id \in View!Present(list) :
      /\ active' = id /\ table' = [page |-> 0, total |-> 0] /\ View!Send(View!loadTable(id, 0))
      /\ UNCHANGED <<stored, list, geo, visible, rows, pending, prompt, applied, spoilt>>
  BY DEF View!openTable
<1>1. View!loadTable(id, 0) = <<View!TablePage(active', 0)>>
  BY DEF View!loadTable
<1>2. table'.page = 0 /\ table' = [page |-> table'.page, total |-> table'.total]
  OBVIOUS
<1> QED BY <1>1, <1>2, RowsRequested

LEMMA PageTurned ==
    ASSUME ViewInv, View!TurnPage
    PROVE  ViewInv'
<1> USE DEF ViewInv
<1>1. PICK page \in 0..Pages : table' = [table EXCEPT !.page = page] /\ View!Send(View!loadTable(active, page))
  BY DEF View!TurnPage
<1>2. /\ spoilt' = spoilt \cup View!NotLoaded(active, list)
      /\ UNCHANGED <<stored, list, geo, visible, active, rows, pending, prompt, applied>>
  BY DEF View!TurnPage
<1>3. table'.page = page /\ table' = [page |-> table'.page, total |-> table'.total]
  BY <1>1 DEF AppliedInv
<1>4. CASE active \in View!Present(list)
  <2>1. View!loadTable(active, page) = <<View!TablePage(active', page)>>
    BY <1>2, <1>4 DEF View!loadTable
  <2> QED BY <1>1, <1>2, <1>3, <2>1, RowsRequested
<1>5. CASE active \notin View!Present(list)
  <2>1. View!loadTable(active, page) = <<>>
    BY <1>5 DEF View!loadTable
  <2>2. Sent0(DOMAIN flight)
    BY <1>1, <2>1, SendsNone
  <2>3. FlightInv'
    BY <2>2, FlightSent
  <2>4. AppliedInv'
    BY <1>2, <1>3, <2>2, AppliedSent
  <2>5. ListInv'
    BY <1>2, <2>2, ListKept
  <2>6. RowsInv'
    <3>1. active = NoLayer \/ "rows" \in spoilt'
      BY <1>2, <1>5 DEF View!NotLoaded, NoLayer
    <3> QED BY <1>2, <3>1 DEF RowsInv, NoLayer, View!NoLayer
  <2> QED BY <1>2, <2>3, <2>4, <2>5, <2>6, PromptKept
<1> QED BY <1>4, <1>5

-----------------------------------------------------------------------------
(* What the server does.                                                   *)

\* Request n is answered or begun: r is what becomes of it.
Replied(n, r) ==
    /\ n \in DOMAIN flight /\ flight' = [flight EXCEPT ![n] = r] /\ sent' = sent
    /\ IsRequest(r) /\ r.kind = flight[n].kind /\ r.arg = flight[n].arg
    /\ r.step = "running" => r.kind \in {"ask", "crs"}

LEMMA RequestServed ==
    ASSUME NEW q, IsRequest(q), NEW step
    PROVE  [q EXCEPT !.step = step]
             = [kind |-> q.kind, arg |-> q.arg, then |-> q.then, step |-> step, answer |-> q.answer]
BY DEF IsRequest

LEMMA RequestAnswered ==
    ASSUME NEW q, IsRequest(q), NEW a
    PROVE  [q EXCEPT !.answer = a]
             = [kind |-> q.kind, arg |-> q.arg, then |-> q.then, step |-> q.step, answer |-> a]
BY DEF IsRequest

LEMMA AnsweredReplies ==
    ASSUME FlightInv, NEW n \in DOMAIN flight, NEW a, View!Answered(n, a), UNCHANGED sent
    PROVE  \E r : Replied(n, r) /\ r.step = "answered" /\ r.answer = a
<1>1. PICK q : q = flight[n] /\ IsRequest(q)
  BY DEF FlightInv
<1>2. PICK r : r = [kind |-> q.kind, arg |-> q.arg, then |-> q.then, step |-> "answered", answer |-> a]
  BY Zenon
<1>3. r = [[q EXCEPT !.step = "answered"] EXCEPT !.answer = a]
  <2>1. PICK h : h = [q EXCEPT !.step = "answered"]
    BY Zenon
  <2>2. h = [kind |-> q.kind, arg |-> q.arg, then |-> q.then, step |-> "answered", answer |-> q.answer]
    BY <1>1, <2>1, RequestServed
  <2>3. /\ IsRequest(h) /\ h.kind = q.kind /\ h.arg = q.arg /\ h.then = q.then /\ h.step = "answered"
    BY <2>2 DEF IsRequest
  <2>4. [h EXCEPT !.answer = a] = [kind |-> h.kind, arg |-> h.arg, then |-> h.then, step |-> h.step, answer |-> a]
    BY <2>3, RequestAnswered
  <2> QED BY <1>2, <2>1, <2>3, <2>4
<1>4. flight' = [flight EXCEPT ![n] = r]
  <2>1. flight' = [[flight EXCEPT ![n].step = "answered"] EXCEPT ![n].answer = a]
    BY DEF View!Answered
  <2>2. PICK half : half = [flight EXCEPT ![n].step = "answered"]
    BY Zenon
  <2>3. half = [flight EXCEPT ![n] = [q EXCEPT !.step = "answered"]]
    BY <1>1, <2>2
  <2>4. half[n] = [q EXCEPT !.step = "answered"] /\ DOMAIN half = DOMAIN flight
    BY <2>3
  <2>5. flight' = [half EXCEPT ![n] = [half[n] EXCEPT !.answer = a]]
    BY <2>1, <2>2
  <2>6. flight' = [half EXCEPT ![n] = r]
    BY <1>3, <2>4, <2>5
  <2> QED BY <2>3, <2>6, Zenon
<1>5. IsRequest(r) /\ r.kind = q.kind /\ r.arg = q.arg /\ r.step = "answered" /\ r.answer = a
  BY <1>2 DEF IsRequest
<1> QED BY <1>1, <1>4, <1>5, Zenon DEF Replied

LEMMA RunningReplies ==
    ASSUME FlightInv, NEW n \in DOMAIN flight, flight[n].kind \in {"ask", "crs"},
           flight' = [flight EXCEPT ![n].step = "running"], UNCHANGED sent
    PROVE  \E r : Replied(n, r) /\ r.step = "running"
<1>1. PICK q : q = flight[n] /\ IsRequest(q)
  BY DEF FlightInv
<1>2. PICK r : r = [kind |-> q.kind, arg |-> q.arg, then |-> q.then, step |-> "running", answer |-> q.answer]
  BY Zenon
<1>3. r = [q EXCEPT !.step = "running"]
  BY <1>1, <1>2 DEF IsRequest
<1>4. flight' = [flight EXCEPT ![n] = r]
  BY <1>1, <1>3
<1>5. IsRequest(r) /\ r.kind = q.kind /\ r.arg = q.arg /\ r.step = "running"
  BY <1>2 DEF IsRequest
<1> QED BY <1>1, <1>4, <1>5, Zenon DEF Replied

LEMMA RepliedFlight ==
    ASSUME FlightInv, NEW n, NEW r, Replied(n, r)
    PROVE  /\ FlightInv'
           /\ DOMAIN flight' = DOMAIN flight /\ sent' = sent /\ flight'[n] = r
           /\ \A m \in DOMAIN flight : /\ flight'[m].kind = flight[m].kind /\ flight'[m].arg = flight[m].arg
                                       /\ m # n => flight'[m] = flight[m]
<1>1. n \in DOMAIN flight /\ flight' = [flight EXCEPT ![n] = r] /\ sent' = sent
  BY DEF Replied
<1>2. DOMAIN flight' = DOMAIN flight /\ flight'[n] = r /\ \A m \in DOMAIN flight : m # n => flight'[m] = flight[m]
  BY <1>1 DEF FlightInv
<1>3. r.kind = flight[n].kind /\ r.arg = flight[n].arg
  BY DEF Replied
<1>4. \A m \in DOMAIN flight : flight'[m].kind = flight[m].kind /\ flight'[m].arg = flight[m].arg
  BY <1>2, <1>3
<1>5. flight' = [m \in DOMAIN flight' |-> flight'[m]]
  BY <1>1, Zenon
<1>6. ASSUME NEW m \in DOMAIN flight
      PROVE  /\ IsRequest(flight'[m])
             /\ flight'[m].step = "running" => flight'[m].kind \in {"ask", "crs"}
             /\ flight'[m].kind \in {"import", "import_crs"} => flight'[m].arg \in Ids
  <2>1. CASE m = n
    BY <1>2, <1>3, <2>1 DEF Replied, FlightInv
  <2>2. CASE m # n
    BY <1>2, <2>2 DEF FlightInv
  <2> QED BY <2>1, <2>2
<1>7. FlightInv'
  BY <1>1, <1>2, <1>5, <1>6 DEF FlightInv, IsRequest
<1> QED BY <1>1, <1>2, <1>4, <1>7

\* What a reply leaves to show: everything but the listing.
LEMMA RepliedRest ==
    ASSUME ViewInv, NEW n, NEW r, Replied(n, r),
           UNCHANGED <<active, table, rows, pending, prompt, applied>>, spoilt \subseteq spoilt', ListInv'
    PROVE  ViewInv'
<1> USE DEF ViewInv
<1>1. /\ FlightInv' /\ DOMAIN flight' = DOMAIN flight /\ sent' = sent
      /\ \A m \in DOMAIN flight : flight'[m].kind = flight[m].kind /\ flight'[m].arg = flight[m].arg
  BY RepliedFlight
<1>2. AppliedInv'
  BY <1>1 DEF AppliedInv
<1>3. RowsInv'
  <2>1. CASE "rows" \in spoilt \/ active = NoLayer
    BY <2>1 DEF RowsInv, NoLayer, View!NoLayer
  <2>2. CASE /\ \A m : Latest("table", applied.rows, m) => flight[m].arg = [id |-> active, page |-> table.page]
             /\ AllOlder("table", applied.rows) => rows = [id |-> active, page |-> table.page]
    <3>1. \A m : Latest("table", applied.rows, m)' => Latest("table", applied.rows, m)
      BY <1>1 DEF Latest
    <3>2. AllOlder("table", applied.rows)' => AllOlder("table", applied.rows)
      BY <1>1 DEF AllOlder
    <3>3. \A m : Latest("table", applied.rows, m)' => flight'[m].arg = [id |-> active, page |-> table.page]
      BY <1>1, <2>2, <3>1 DEF Latest
    <3> QED BY <2>2, <3>2, <3>3 DEF RowsInv
  <2> QED BY <2>1, <2>2 DEF RowsInv
<1> QED BY <1>1, <1>2, <1>3, PromptKept

\* A change that succeeded will be followed by a listing.
LEMMA RepliedChange ==
    ASSUME ViewInv, NEW n, NEW r, Replied(n, r), r.step = "answered", r.answer = "ok",
           r.kind \in {"import", "import_crs", "delete", "classify", "clear", "ask", "crs"}
    PROVE  ListInv'
<1>1. DOMAIN flight' = DOMAIN flight /\ flight'[n] = r /\ n \in DOMAIN flight
  BY RepliedFlight DEF ViewInv, Replied
<1>2. Changed(n)'
  BY <1>1 DEF Changed
<1> QED BY <1>1, <1>2 DEF ListInv

\* A reply that changed nothing; a listing is the server's of now.
LEMMA RepliedOther ==
    ASSUME ViewInv, NEW n, NEW r, Replied(n, r), ~Changed(n),
           r.kind = "list" => r.answer = stored,
           UNCHANGED <<stored, list, applied, spoilt>>
    PROVE  ListInv'
<1> USE DEF ViewInv
<1>1. /\ DOMAIN flight' = DOMAIN flight /\ flight'[n] = r
      /\ \A m \in DOMAIN flight : /\ flight'[m].kind = flight[m].kind
                                  /\ m # n => flight'[m] = flight[m]
  BY RepliedFlight
<1>2. CASE "list" \in spoilt
  BY <1>2 DEF ListInv
<1>3. CASE \E m \in DOMAIN flight : Changed(m)
  <2> PICK m \in DOMAIN flight : Changed(m)
    BY <1>3
  <2>1. m # n
    OBVIOUS
  <2> QED BY <1>1, <2>1 DEF ListInv, Changed
<1>4. CASE /\ \A m : Latest("list", applied.list, m) => flight[m].step = "sent" \/ flight[m].answer = stored
           /\ AllOlder("list", applied.list) => list = stored
  <2>1. \A m : Latest("list", applied.list, m)' => Latest("list", applied.list, m)
    BY <1>1 DEF Latest
  <2>2. AllOlder("list", applied.list)' => AllOlder("list", applied.list)
    BY <1>1 DEF AllOlder
  <2>3. ASSUME NEW m, Latest("list", applied.list, m)' PROVE flight'[m].step = "sent" \/ flight'[m].answer = stored
    <3>1. m \in DOMAIN flight' /\ flight'[m].kind = "list"
      BY <2>3 DEF Latest
    <3>2. CASE m = n
      BY <1>1, <3>1, <3>2
    <3>3. CASE m # n
      BY <1>1, <1>4, <2>1, <2>3, <3>1, <3>3
    <3> QED BY <3>2, <3>3
  <2> QED BY <1>4, <2>2, <2>3 DEF ListInv
<1> QED BY <1>2, <1>3, <1>4 DEF ListInv

LEMMA ServedRead ==
    ASSUME ViewInv, NEW n \in DOMAIN flight, View!ServeRead(n)
    PROVE  ViewInv'
<1> USE DEF ViewInv
<1>1. /\ flight[n].kind \in {"list", "table", "geometry"}
      /\ UNCHANGED <<stored, sent, list, active, table, rows, pending, prompt, applied, spoilt>>
  BY DEF View!ServeRead, View!Serves, View!UNCHANGED_view
<1>2. PICK a : View!Answered(n, a) /\ (flight[n].kind = "list" => a = stored)
  <2>1. CASE flight[n].kind = "list"
    BY <2>1 DEF View!ServeRead
  <2>2. CASE flight[n].kind # "list"
    BY <2>2 DEF View!ServeRead
  <2> QED BY <2>1, <2>2
<1>3. PICK r : Replied(n, r) /\ r.answer = a
  BY <1>1, <1>2, AnsweredReplies
<1>4. ~Changed(n)
  BY <1>1 DEF Changed
<1>5. r.kind = "list" => r.answer = stored
  BY <1>2, <1>3 DEF Replied
<1>6. ListInv'
  BY <1>1, <1>3, <1>4, <1>5, RepliedOther
<1> QED BY <1>1, <1>3, <1>6, RepliedRest

\* A request that is served has not succeeded yet.
LEMMA ServedChange ==
    ASSUME ViewInv, NEW n \in DOMAIN flight, NEW a, View!Answered(n, a), UNCHANGED sent,
           flight[n].step # "answered",
           flight[n].kind \in {"import", "import_crs", "delete", "classify", "clear", "ask", "crs"},
           a = "ok" \/ UNCHANGED stored \/ "list" \in spoilt', spoilt \subseteq spoilt',
           UNCHANGED <<list, active, table, rows, pending, prompt, applied>>,
           "list" \notin spoilt' => spoilt' = spoilt
    PROVE  ViewInv'
<1> USE DEF ViewInv
<1>1. PICK r : Replied(n, r) /\ r.step = "answered" /\ r.answer = a
  BY AnsweredReplies
<1>2. r.kind = flight[n].kind
  BY <1>1 DEF Replied
<1>3. ~Changed(n)
  BY DEF Changed
<1>4. CASE a = "ok"
  BY <1>1, <1>2, <1>4, RepliedChange, RepliedRest
<1>5. CASE "list" \in spoilt'
  <2>1. ListInv'
    BY <1>5 DEF ListInv
  <2> QED BY <1>1, <2>1, RepliedRest
<1>6. CASE UNCHANGED stored /\ "list" \notin spoilt'
  <2>1. ListInv'
    BY <1>1, <1>2, <1>3, <1>6, RepliedOther
  <2> QED BY <1>1, <2>1, RepliedRest
<1> QED BY <1>4, <1>5, <1>6

LEMMA ServedRequests ==
    ASSUME ViewInv, NEW n \in DOMAIN flight,
           View!ServeImport(n) \/ View!ServeChange(n) \/ View!ServeRunStarts(n) \/ View!ServeRunEnds(n)
    PROVE  ViewInv'
<1>1. CASE View!ServeImport(n)
  <2>1. /\ flight[n].step # "answered" /\ flight[n].kind \in {"import", "import_crs"}
        /\ UNCHANGED <<sent, list, active, table, rows, pending, prompt, applied, spoilt>>
    BY <1>1 DEF View!ServeImport, View!Serves, View!UNCHANGED_view
  <2>2. \E a : View!Answered(n, a) /\ (a = "ok" \/ UNCHANGED stored)
    <3>1. \/ View!Answered(n, "needs_crs") /\ UNCHANGED stored
          \/ View!Answered(n, "ok")
      BY <1>1 DEF View!ServeImport
    <3> QED BY <3>1
  <2> QED BY <2>1, <2>2, ServedChange
<1>2. CASE View!ServeChange(n)
  <2>1. /\ flight[n].step # "answered" /\ flight[n].kind \in {"delete", "classify", "clear"}
        /\ UNCHANGED <<sent, list, active, table, rows, pending, prompt, applied, spoilt>>
    BY <1>2 DEF View!ServeChange, View!Serves, View!UNCHANGED_view
  <2>2. \E a : View!Answered(n, a) /\ (a = "ok" \/ UNCHANGED stored)
    <3>1. \/ View!Answered(n, "error") /\ UNCHANGED stored
          \/ View!Answered(n, "ok")
      BY <1>2 DEF View!ServeChange
    <3> QED BY <3>1
  <2> QED BY <2>1, <2>2, ServedChange
<1>3. CASE View!ServeRunStarts(n)
  <2>1. /\ flight[n].step # "answered" /\ flight[n].kind \in {"ask", "crs"}
        /\ UNCHANGED <<stored, sent, list, active, table, rows, pending, prompt, applied, spoilt>>
    BY <1>3 DEF View!ServeRunStarts, View!Serves, View!UNCHANGED_view
  <2>2. \/ View!Answered(n, "error")
        \/ flight' = [flight EXCEPT ![n].step = "running"]
    BY <1>3 DEF View!ServeRunStarts
  <2>3. CASE View!Answered(n, "error")
    BY <2>1, <2>3, ServedChange
  <2>4. CASE flight' = [flight EXCEPT ![n].step = "running"]
    <3>1. PICK r : Replied(n, r)
      BY <2>1, <2>4, RunningReplies, Zenon DEF ViewInv
    <3>2. ~Changed(n)
      BY <2>1 DEF Changed
    <3>3. r.kind # "list"
      BY <2>1, <3>1 DEF Replied
    <3>4. ListInv'
      BY <2>1, <3>1, <3>2, <3>3, RepliedOther
    <3> QED BY <2>1, <3>1, <3>4, RepliedRest
  <2> QED BY <2>2, <2>3, <2>4
<1>4. CASE View!ServeRunEnds(n)
  <2>1. /\ flight[n].step = "running"
        /\ UNCHANGED <<sent, list, active, table, rows, pending, prompt, applied>>
    BY <1>4 DEF View!ServeRunEnds
  <2>2. flight[n].kind \in {"ask", "crs"}
    BY <2>1 DEF ViewInv, FlightInv
  <2>3. \/ View!Answered(n, "ok") /\ spoilt' = spoilt
        \/ View!Answered(n, "error") /\ spoilt' = spoilt \cup {"list"}
    BY <1>4 DEF View!ServeRunEnds
  <2>4. CASE View!Answered(n, "ok") /\ spoilt' = spoilt
    BY <2>1, <2>2, <2>4, ServedChange
  <2>5. CASE View!Answered(n, "error") /\ spoilt' = spoilt \cup {"list"}
    <3>1. "list" \in spoilt' /\ spoilt \subseteq spoilt'
      BY <2>5
    <3> QED BY <2>1, <2>2, <2>5, <3>1, ServedChange
  <2> QED BY <2>3, <2>4, <2>5
<1> QED BY <1>1, <1>2, <1>3, <1>4

-----------------------------------------------------------------------------
(* The continuations.                                                      *)

\* What follows a consumed request that applied no answer of its own.
LEMMA ContinuedRest ==
    ASSUME ViewInv, NEW under, under \subseteq DOMAIN flight,
           Sent0(under) \/ \E r : New(r) /\ r.kind # "table" /\ Sent1(under, r),
           \A m \in DOMAIN flight \ under : flight[m].kind # "table",
           UNCHANGED <<table, applied, spoilt>>,
           UNCHANGED <<active, rows>> \/ active' = NoLayer, PromptInv', ListInv'
    PROVE  ViewInv'
<1> USE DEF ViewInv
<1>1. FlightInv'
  BY FlightSent, Zenon
<1>2. AppliedInv'
  <2>1. table' = [page |-> table'.page, total |-> table'.total]
    BY DEF AppliedInv
  <2> QED BY <2>1, AppliedSent, Zenon
<1>3. RowsInv'
  <2>1. CASE active' = NoLayer
    BY <2>1 DEF RowsInv, NoLayer, View!NoLayer
  <2>2. CASE UNCHANGED <<active, rows>>
    BY <2>2, RowsKept
  <2> QED BY <2>1, <2>2
<1> QED BY <1>1, <1>2, <1>3

\* A request whose continuation asks for the listing, or for nothing.
LEMMA Continued ==
    ASSUME ViewInv, NEW n \in DOMAIN flight, flight[n].kind \notin {"list", "table"},
           \/ ~Changed(n) /\ View!Continue(n, <<>>) /\ UNCHANGED <<stored, list>>
           \/ \E then : View!Continue(n, <<View!List(then)>>),
           UNCHANGED <<table, applied, spoilt>>,
           UNCHANGED <<active, rows>> \/ active' = NoLayer, PromptInv'
    PROVE  ViewInv'
<1> USE DEF ViewInv
<1>1. PICK under : under = DOMAIN flight \ {n}
  BY Zenon
<1>2. under \subseteq DOMAIN flight /\ \A m \in DOMAIN flight \ under : m = n
  BY <1>1
<1>3. CASE ~Changed(n) /\ View!Continue(n, <<>>) /\ UNCHANGED <<stored, list>>
  <2>1. Sent0(under)
    BY <1>1, <1>3, ContinuesNone
  <2>2. ListInv'
    BY <1>2, <1>3, <2>1, ListKept
  <2> QED BY <1>2, <2>1, <2>2, ContinuedRest
<1>4. CASE \E then : View!Continue(n, <<View!List(then)>>)
  <2>1. PICK then : View!Continue(n, <<View!List(then)>>)
    BY <1>4
  <2>2. PICK r : r = View!List(then)
    OBVIOUS
  <2>3. New(r) /\ r.kind = "list" /\ r.step = "sent"
    BY <2>2, ListIs
  <2>4. Sent1(under, r)
    BY <1>1, <2>1, <2>2, ContinuesOne
  <2>5. ListInv'
    BY <1>2, <2>3, <2>4, ListAsked
  <2> QED BY <1>2, <2>3, <2>4, <2>5, ContinuedRest, Zenon
<1> QED BY <1>3, <1>4

LEMMA ImportArrived ==
    ASSUME ViewInv, NEW n \in DOMAIN flight, View!importFile(n)
    PROVE  ViewInv'
<1>1. /\ flight[n].kind \in {"import", "import_crs"}
      /\ UNCHANGED <<stored, list, active, table, rows, applied, spoilt>>
  BY DEF View!importFile, View!Arrives
<1>2. flight[n].arg \in Ids
  BY <1>1 DEF ViewInv, FlightInv
<1>3. CASE flight[n].answer = "needs_crs"
  <2>1. pending' = flight[n].arg /\ prompt' = TRUE /\ View!Continue(n, <<>>)
    BY <1>3 DEF View!importFile
  <2>2. PromptInv'
    BY <1>2, <2>1, LayerIdsAssumption DEF PromptInv, View!PromptMatchesPending, View!NoLayer, NoLayer
  <2>3. ~Changed(n)
    BY <1>3 DEF Changed
  <2> QED BY <1>1, <2>1, <2>2, <2>3, Continued
<1>4. CASE flight[n].answer # "needs_crs"
  <2>1. pending' = View!NoLayer /\ prompt' = FALSE /\ View!Continue(n, <<View!List(View!NoLayer)>>)
    BY <1>4 DEF View!importFile
  <2>2. PromptInv'
    BY <2>1, Zenon DEF PromptInv, View!PromptMatchesPending, View!NoLayer, NoLayer
  <2> QED BY <1>1, <2>1, <2>2, Continued
<1> QED BY <1>3, <1>4

LEMMA ChangeArrived ==
    ASSUME ViewInv, NEW n \in DOMAIN flight, View!ChangeArrives(n)
    PROVE  ViewInv'
<1>1. /\ flight[n].kind \in {"delete", "classify", "clear", "crs"}
      /\ UNCHANGED <<stored, list, table, pending, prompt, applied, spoilt>>
  BY DEF View!ChangeArrives, View!Arrives
<1>2. UNCHANGED <<active, rows>> \/ active' = NoLayer
  BY DEF View!ChangeArrives, NoLayer
<1>3. PromptInv'
  BY <1>1, PromptKept DEF ViewInv
<1>4. CASE flight[n].answer = "ok"
  <2>1. View!Continue(n, <<View!List(View!NoLayer)>>)
    BY <1>4 DEF View!ChangeArrives
  <2> QED BY <1>1, <1>2, <1>3, <2>1, Continued
<1>5. CASE flight[n].answer # "ok"
  <2>1. View!Continue(n, <<>>)
    BY <1>5 DEF View!ChangeArrives
  <2>2. ~Changed(n)
    BY <1>5 DEF Changed
  <2> QED BY <1>1, <1>2, <1>3, <2>1, <2>2, Continued
<1> QED BY <1>4, <1>5

LEMMA AskArrived ==
    ASSUME ViewInv, NEW n \in DOMAIN flight, View!AskArrives(n)
    PROVE  ViewInv'
<1>1. /\ flight[n].kind = "ask"
      /\ UNCHANGED <<stored, list, active, table, rows, pending, prompt, applied, spoilt>>
  BY DEF View!AskArrives, View!Arrives
<1>2. PromptInv'
  BY <1>1, PromptKept DEF ViewInv
<1>3. CASE flight[n].answer = "ok"
  <2>1. View!Continue(n, <<View!List(Answer)>>)
    BY <1>3 DEF View!AskArrives
  <2> QED BY <1>1, <1>2, <2>1, Continued
<1>4. CASE flight[n].answer # "ok"
  <2>1. View!Continue(n, <<>>)
    BY <1>4 DEF View!AskArrives
  <2>2. ~Changed(n)
    BY <1>4 DEF Changed
  <2> QED BY <1>1, <1>2, <2>1, <2>2, Continued
<1> QED BY <1>3, <1>4

LEMMA GeometryArrived ==
    ASSUME ViewInv, NEW n \in DOMAIN flight, View!loadGeometry(n)
    PROVE  ViewInv'
<1>1. /\ flight[n].kind = "geometry" /\ View!Continue(n, <<>>)
      /\ UNCHANGED <<stored, list, active, table, rows, pending, prompt, applied, spoilt>>
  BY DEF View!loadGeometry, View!Arrives
<1>2. PromptInv'
  BY <1>1, PromptKept DEF ViewInv
<1>3. ~Changed(n)
  BY <1>1 DEF Changed
<1> QED BY <1>1, <1>2, <1>3, Continued

\* The newest answer applied, after answer n.
LEMMA NewestIs ==
    ASSUME FlightInv, AppliedInv, NEW n \in DOMAIN flight
    PROVE  /\ applied' = View!Newest("list", n) =>
                /\ applied' = [list |-> applied'.list, rows |-> applied'.rows] /\ applied'.rows = applied.rows
                /\ applied'.list = IF n > applied.list THEN n ELSE applied.list
           /\ applied' = View!Newest("rows", n) =>
                /\ applied' = [list |-> applied'.list, rows |-> applied'.rows] /\ applied'.list = applied.list
                /\ applied'.rows = IF n > applied.rows THEN n ELSE applied.rows
BY DEF AppliedInv, View!Newest

LEMMA TableArrived ==
    ASSUME ViewInv, NEW n \in DOMAIN flight, View!TableArrives(n)
    PROVE  ViewInv'
<1> USE DEF ViewInv
<1>1. /\ flight[n].kind = "table" /\ applied' = View!Newest("rows", n) /\ View!Continue(n, <<>>)
      /\ UNCHANGED <<stored, list, active, pending, prompt>>
  BY DEF View!TableArrives, View!Arrives
<1>2. PICK under : under = DOMAIN flight \ {n}
  BY Zenon
<1>3. Sent0(under)
  BY <1>1, <1>2, ContinuesNone
<1>4. /\ under \subseteq DOMAIN flight /\ \A m \in DOMAIN flight \ under : m = n
      /\ DOMAIN flight' = under /\ sent' = sent /\ \A m \in under : flight'[m] = flight[m]
  BY <1>2, <1>3 DEF Sent0
<1>5. /\ applied' = [list |-> applied'.list, rows |-> applied'.rows] /\ applied'.list = applied.list
      /\ applied'.rows = IF n > applied.rows THEN n ELSE applied.rows
  BY <1>1, NewestIs
<1>6. \/ /\ flight[n].answer = "ok" /\ rows' = flight[n].arg
         /\ table' = [table EXCEPT !.total = Pages] /\ spoilt' = View!Overtaken("rows", n)
      \/ UNCHANGED <<rows, table>> /\ spoilt' = spoilt \cup {"rows"}
  BY DEF View!TableArrives
<1>7. table' = [page |-> table'.page, total |-> table'.total] /\ table'.page = table.page
  BY <1>6 DEF AppliedInv
<1>8. spoilt \subseteq spoilt' /\ (n < applied.rows => "rows" \in spoilt')
  BY <1>6 DEF View!Overtaken
<1>9. FlightInv'
  BY <1>3, <1>4, FlightSent
<1>10. AppliedInv'
  <2>1. n \in 1..sent /\ n \notin DOMAIN flight'
    BY <1>2, <1>4 DEF FlightInv
  <2> QED BY <1>4, <1>5, <1>7, <2>1 DEF AppliedInv, FlightInv
<1>11. ~Changed(n)
  BY <1>1 DEF Changed
<1>12. ListInv'
  BY <1>1, <1>3, <1>4, <1>5, <1>8, <1>11, ListKept
<1>13. RowsInv'
  <2>1. CASE "rows" \in spoilt' \/ active = NoLayer
    BY <1>1, <2>1 DEF RowsInv, NoLayer, View!NoLayer
  <2>2. CASE "rows" \notin spoilt' /\ active # NoLayer
    <3>1. flight[n].answer = "ok" /\ rows' = flight[n].arg
      BY <1>6, <2>2
    <3>2. n \in Nat /\ applied.rows \in Nat /\ n # applied.rows
      BY DEF FlightInv, AppliedInv
    <3>3. n > applied.rows /\ applied'.rows = n
      BY <1>5, <1>8, <2>2, <3>2
    <3>4. /\ \A m : Latest("table", applied.rows, m) => flight[m].arg = [id |-> active, page |-> table.page]
          /\ AllOlder("table", applied.rows) => rows = [id |-> active, page |-> table.page]
      BY <1>8, <2>2 DEF RowsInv
    <3>5. \A m \in DOMAIN flight : m \in Nat
      BY DEF FlightInv
    <3>6. ASSUME NEW m, Latest("table", applied.rows, m)' PROVE Latest("table", applied.rows, m)
      BY <1>2, <1>4, <3>2, <3>3, <3>5, <3>6 DEF Latest
    <3>7. ASSUME AllOlder("table", applied.rows)' PROVE Latest("table", applied.rows, n)
      BY <1>1, <1>2, <1>4, <3>2, <3>3, <3>5, <3>7 DEF Latest, AllOlder
    <3>8. \A m : Latest("table", applied.rows, m)' => flight'[m].arg = [id |-> active, page |-> table.page]
      BY <1>4, <3>4, <3>6 DEF Latest
    <3> QED BY <1>1, <1>7, <3>1, <3>4, <3>7, <3>8 DEF RowsInv
  <2> QED BY <2>1, <2>2
<1> QED BY <1>1, <1>9, <1>10, <1>12, <1>13, PromptKept

LEMMA ListArrived ==
    ASSUME ViewInv, NEW n \in DOMAIN flight, View!refreshLayers(n)
    PROVE  ViewInv'
<1> USE DEF ViewInv
<1>0. PICK now, out : now = flight[n].answer /\ out = flight[n].then
  OBVIOUS
<1>1. /\ flight[n].kind = "list" /\ flight[n].step = "answered" /\ list' = now
      /\ applied' = View!Newest("list", n)
      /\ spoilt' = View!Overtaken("list", n) \cup View!NotLoaded(out, now)
      /\ active' = IF out = NoLayer THEN active ELSE out
      /\ table' = IF out = NoLayer THEN table ELSE [page |-> 0, total |-> 0]
      /\ View!Continue(n, IF out \in View!Present(now) THEN <<View!TablePage(out, 0)>> ELSE <<>>)
      /\ UNCHANGED <<stored, rows, pending, prompt>>
  BY <1>0 DEF View!refreshLayers, View!Arrives, NoLayer
<1>2. PICK under : under = DOMAIN flight \ {n}
  BY Zenon
<1>3. \/ out \notin View!Present(now) /\ Sent0(under)
      \/ /\ out \in View!Present(now)
         /\ \E r : /\ New(r) /\ r.kind = "table" /\ r.arg = [id |-> out, page |-> 0]
                   /\ Sent1(under, r)
  <2>1. CASE out \notin View!Present(now)
    BY <1>1, <1>2, <2>1, ContinuesNone
  <2>2. CASE out \in View!Present(now)
    <3>1. View!Continue(n, <<View!TablePage(out, 0)>>)
      BY <1>1, <2>2
    <3>2. PICK r : r = View!TablePage(out, 0)
      OBVIOUS
    <3>3. Sent1(under, r)
      BY <1>2, <3>1, <3>2, ContinuesOne
    <3> QED BY <2>2, <3>2, <3>3, TablePageIs
  <2> QED BY <2>1, <2>2
<1>4. under \subseteq DOMAIN flight /\ \A m \in DOMAIN flight \ under : m = n
  BY <1>2
<1>5. /\ applied' = [list |-> applied'.list, rows |-> applied'.rows] /\ applied'.rows = applied.rows
      /\ applied'.list = IF n > applied.list THEN n ELSE applied.list
  BY <1>1, NewestIs
<1>6. spoilt \subseteq spoilt' /\ (n < applied.list => "list" \in spoilt')
  BY <1>1 DEF View!Overtaken
<1>7. table' = [page |-> table'.page, total |-> table'.total]
  BY <1>1 DEF AppliedInv
<1>8. FlightInv'
  BY <1>3, <1>4, FlightSent, Zenon
<1>9. /\ \A m \in under : m \in DOMAIN flight' /\ flight'[m] = flight[m]
      /\ \A m \in DOMAIN flight' : m \in under \/ (m = sent + 1 /\ flight'[m].kind = "table")
      /\ sent' \in {sent, sent + 1}
  <2>1. \A m \in under : m \in DOMAIN flight' /\ flight'[m] = flight[m]
    BY <1>3, <1>4, Remaining
  <2>2. \A m \in DOMAIN flight' : m \in under \/ (m = sent + 1 /\ flight'[m].kind = "table")
    BY <1>3 DEF Sent0, Sent1
  <2>3. sent' \in {sent, sent + 1}
    BY <1>3 DEF Sent0, Sent1
  <2> QED BY <2>1, <2>2, <2>3
<1>10. n \in 1..sent /\ n \notin DOMAIN flight'
  BY <1>2, <1>9 DEF FlightInv
<1>11. AppliedInv'
  BY <1>2, <1>5, <1>7, <1>9, <1>10 DEF AppliedInv, FlightInv
<1>12. ListInv'
  <2>1. CASE "list" \in spoilt'
    BY <2>1 DEF ListInv
  <2>2. CASE "list" \notin spoilt' /\ \E m \in DOMAIN flight : Changed(m)
    <3> PICK m \in DOMAIN flight : Changed(m)
      BY <2>2
    <3>1. m # n
      BY <1>1 DEF Changed
    <3> QED BY <1>2, <1>9, <3>1 DEF ListInv, Changed
  <2>3. CASE "list" \notin spoilt' /\ ~\E m \in DOMAIN flight : Changed(m)
    <3>1. n \in Nat /\ applied.list \in Nat /\ n # applied.list
      BY DEF FlightInv, AppliedInv
    <3>2. n > applied.list /\ applied'.list = n
      BY <1>5, <1>6, <2>3, <3>1
    <3>3. \A m : Latest("list", applied.list, m) => flight[m].step = "sent" \/ flight[m].answer = stored
      BY <1>6, <2>3 DEF ListInv
    <3>4. \A m \in DOMAIN flight : m \in Nat
      BY DEF FlightInv
    <3>5. \A m \in DOMAIN flight' : flight'[m].kind = "list" => m \in under /\ flight'[m] = flight[m]
      BY <1>9
    <3>6. ASSUME NEW m, Latest("list", applied.list, m)' PROVE Latest("list", applied.list, m) /\ flight'[m] = flight[m]
      <4>1. m \in DOMAIN flight' /\ flight'[m].kind = "list" /\ m > n
        BY <3>2, <3>6 DEF Latest
      <4>2. m \in under /\ flight'[m] = flight[m]
        BY <3>5, <4>1
      <4>3. \A k \in under : flight[k].kind = "list" => k <= m
        BY <1>9, <3>6 DEF Latest
      <4>4. m \in Nat /\ m > applied.list
        BY <1>4, <3>1, <3>2, <3>4, <4>1, <4>2
      <4>5. \A k \in DOMAIN flight : flight[k].kind = "list" => k <= m
        BY <1>4, <3>1, <4>1, <4>3, <4>4
      <4> QED BY <1>4, <4>1, <4>2, <4>4, <4>5 DEF Latest
    <3>7. ASSUME AllOlder("list", applied.list)' PROVE Latest("list", applied.list, n)
      <4>1. \A k \in under : flight[k].kind = "list" => k < n
        BY <1>9, <3>2, <3>7 DEF AllOlder
      <4>2. \A k \in DOMAIN flight : flight[k].kind = "list" => k <= n
        BY <1>4, <3>1, <3>4, <4>1
      <4> QED BY <1>1, <3>2, <4>2 DEF Latest
    <3>8. \A m : Latest("list", applied.list, m)' => flight'[m].step = "sent" \/ flight'[m].answer = stored
      BY <3>3, <3>6
    <3>9. AllOlder("list", applied.list)' => list' = stored
      BY <1>0, <1>1, <3>3, <3>7
    <3> QED BY <1>1, <3>8, <3>9 DEF ListInv
  <2> QED BY <2>1, <2>2, <2>3
<1>13. RowsInv'
  <2>1. CASE out \in View!Present(now)
    <3>1. PICK r : /\ New(r) /\ r.kind = "table" /\ r.arg = [id |-> out, page |-> 0] /\ Sent1(under, r)
      BY <1>3, <2>1
    <3>2. out # NoLayer
      BY <2>1, LayerIdsAssumption DEF View!Present, NoLayer
    <3>3. r.arg = [id |-> active', page |-> table'.page]
      BY <1>1, <3>1, <3>2
    <3> QED BY <1>4, <1>5, <3>1, <3>3, RowsAsked
  <2>2. CASE out \notin View!Present(now) /\ out # NoLayer
    <3>1. "rows" \in spoilt'
      BY <1>1, <2>2 DEF View!NotLoaded, NoLayer
    <3> QED BY <3>1 DEF RowsInv
  <2>3. CASE out = NoLayer
    <3>1. Sent0(under)
      BY <1>3, <2>3, LayerIdsAssumption DEF View!Present, NoLayer
    <3>2. UNCHANGED <<active, table, rows>>
      BY <1>1, <2>3
    <3>3. \A m \in DOMAIN flight \ under : flight[m].kind # "table"
      BY <1>1, <1>4
    <3> QED BY <1>4, <1>5, <1>6, <3>1, <3>2, <3>3, RowsKept
  <2> QED BY <2>1, <2>2, <2>3
<1> QED BY <1>1, <1>8, <1>11, <1>12, <1>13, PromptKept

-----------------------------------------------------------------------------

LEMMA ViewNext == ViewInv /\ View!Next => ViewInv'
<1> SUFFICES ASSUME ViewInv, View!Next PROVE ViewInv'
  OBVIOUS
<1>1. CASE \/ View!Import \/ View!RetryImport \/ View!removeLayer \/ View!classifyPanel
           \/ View!crsPanel \/ View!setupAsk \/ View!drawMap
  BY <1>1, UserRequests
<1>2. CASE View!CancelImport \/ View!openTable \/ View!TurnPage
  BY <1>2, Cancelled, TableOpened, PageTurned
<1>3. ASSUME NEW n \in DOMAIN flight,
             \/ View!ServeRead(n) \/ View!ServeImport(n) \/ View!ServeChange(n)
             \/ View!ServeRunStarts(n) \/ View!ServeRunEnds(n)
      PROVE  ViewInv'
  BY <1>3, ServedRead, ServedRequests
<1>4. ASSUME NEW n \in DOMAIN flight,
             \/ View!refreshLayers(n) \/ View!TableArrives(n) \/ View!loadGeometry(n)
             \/ View!importFile(n) \/ View!ChangeArrives(n) \/ View!AskArrives(n)
      PROVE  ViewInv'
  BY <1>4, ListArrived, TableArrived, GeometryArrived, ImportArrived, ChangeArrived, AskArrived
<1> QED BY <1>1, <1>2, <1>3, <1>4 DEF View!Next

LEMMA ViewStays == ViewInv /\ UNCHANGED viewVars => ViewInv'
<1> SUFFICES ASSUME ViewInv, UNCHANGED viewVars PROVE ViewInv'
  OBVIOUS
<1> USE DEF ViewInv
<1>1. UNCHANGED <<stored, flight, sent, list, active, table, rows, pending, prompt, applied, spoilt>>
  BY DEF viewVars
<1>2. Sent0(DOMAIN flight)
  BY <1>1, FlightStays
<1>3. FlightInv' /\ AppliedInv'
  BY <1>1, <1>2, FlightSent DEF AppliedInv
<1>4. ListInv' /\ RowsInv'
  BY <1>1, <1>2, ListKept, RowsKept
<1> QED BY <1>1, <1>3, <1>4, PromptKept

(* However requests, answers and clicks interleave, and however many of    *)
(* them there are: a page with nothing on its way shows the server's       *)
(* listing and the page of the open table it stands at, unless one of the  *)
(* named accidents happened, and the CRS prompt is open exactly while an   *)
(* import waits for it.                                                    *)
THEOREM QuietPageAgreesTheorem == SessionsSpec => []QuietPageAgrees
<1>1. SessionsInit => ViewInv
  BY ViewStarts DEF SessionsInit
<1>2. ViewInv /\ [SessionsNext]_allVars => ViewInv'
  BY ViewNext, ViewStays DEF SessionsNext, Still, allVars
<1>3. ViewInv => QuietPageAgrees
  <2> SUFFICES ASSUME ViewInv PROVE QuietPageAgrees
    OBVIOUS
  <2> USE DEF ViewInv
  <2>1. QuietListIsCurrent
    BY DEF QuietListIsCurrent, View!QuietListIsCurrent, View!Quiet, ListInv, AllOlder
  <2>2. QuietTableIsActive
    BY DEF QuietTableIsActive, View!QuietTableIsActive, View!Quiet, RowsInv, AllOlder, NoLayer
  <2>3. PromptMatchesPending
    BY DEF PromptMatchesPending, PromptInv
  <2> QED BY <2>1, <2>2, <2>3 DEF QuietPageAgrees
<1> QED BY <1>1, <1>2, <1>3, PTL DEF SessionsSpec


-----------------------------------------------------------------------------
(* Incremental runs.  What spreads along the edges is closed under them.   *)

\* A non-empty set of naturals has a least element.
LEMMA LeastNatural ==
    ASSUME NEW T, T \subseteq Nat, T # {}
    PROVE  \E n \in T : \A m \in T : n <= m
  <1>1. \E x \in T : \A y \in T : ~ (<<y, x>> \in OpToRel(<, Nat))
    BY NatLessThanWellFounded, WFMin, Zenon
  <1>2. OpToRel(<, Nat) = {ss \in Nat \X Nat : ss[1] < ss[2]}
    BY Zenon DEF OpToRel
  <1>3. PICK x \in T : \A y \in T : ~ (<<y, x>> \in {ss \in Nat \X Nat : ss[1] < ss[2]})
    BY <1>1, <1>2, Zenon
  <1>4. ASSUME NEW y \in T PROVE x <= y
    <2>1. <<y, x>> \in Nat \X Nat /\ <<y, x>>[1] = y /\ <<y, x>>[2] = x
      OBVIOUS
    <2>2. ~ (y < x)
      BY <1>3, <2>1
    <2> QED
      BY <2>2
  <1> QED
    BY <1>4

\* Where the edges that leave a set lead.
Beyond(seen, edges) == {e[2] : e \in {f \in edges : f[1] \in seen}}

\* One round after the other, as far as m.
IsRounds(f, start, edges, m) ==
    f = [k \in 0 .. m |-> IF k = 0 THEN start ELSE f[k - 1] \cup Beyond(f[k - 1], edges)]

LEMMA RoundsExist ==
    ASSUME NEW start, NEW edges, NEW N \in Nat
    PROVE  \E f : IsRounds(f, start, edges, N)
  <1> DEFINE T == {m \in Nat : ~ \E f : IsRounds(f, start, edges, m)}
  <1> SUFFICES ASSUME T # {} PROVE FALSE
    OBVIOUS
  <1>1. PICK m \in T : \A o \in T : m <= o
    <2>1. T \subseteq Nat
      OBVIOUS
    <2> HIDE DEF T
    <2> QED BY <2>1, LeastNatural, Zenon
  <1>2. CASE m = 0
    <2> DEFINE f == [k \in 0 .. 0 |-> start]
    <2>1. f = [k \in 0 .. 0 |-> IF k = 0 THEN start ELSE f[k - 1] \cup Beyond(f[k - 1], edges)]
      <3>1. \A k \in 0 .. 0 : k = 0
        OBVIOUS
      <3> QED BY <3>1
    <2> QED BY <1>1, <1>2, <2>1, Zenon DEF IsRounds
  <1>3. CASE m # 0
    <2>1. m - 1 \in Nat /\ m - 1 \notin T
      BY <1>1, <1>3
    <2>2. PICK f : IsRounds(f, start, edges, m - 1)
      BY <2>1
    <2> DEFINE g == [k \in 0 .. m |-> IF k < m THEN f[k] ELSE f[m - 1] \cup Beyond(f[m - 1], edges)]
    <2>3. \A k \in 0 .. m : g[k] = IF k = 0 THEN start ELSE g[k - 1] \cup Beyond(g[k - 1], edges)
      <3> SUFFICES ASSUME NEW k \in 0 .. m
                   PROVE  g[k] = IF k = 0 THEN start ELSE g[k - 1] \cup Beyond(g[k - 1], edges)
        BY Zenon
      <3>1. CASE k < m
        <4>1. k \in 0 .. m - 1 /\ g[k] = f[k] /\ (k # 0 => k - 1 \in 0 .. m /\ k - 1 < m /\ g[k - 1] = f[k - 1])
          BY <2>1, <3>1, <1>1
        <4>2. f[k] = IF k = 0 THEN start ELSE f[k - 1] \cup Beyond(f[k - 1], edges)
          BY <2>2, <4>1, Zenon DEF IsRounds
        <4> HIDE DEF g
        <4> QED BY <4>1, <4>2, Zenon
      <3>2. CASE k = m
        <4>1. k # 0 /\ k - 1 \in 0 .. m /\ k - 1 < m
          BY <1>3, <3>2, <1>1
        <4>2. g[k - 1] = f[m - 1] /\ g[k] = f[m - 1] \cup Beyond(f[m - 1], edges)
          BY <3>2, <4>1
        <4> HIDE DEF g
        <4> QED BY <4>1, <4>2
      <3> QED BY <3>1, <3>2, <1>1
    <2>4. g = [k \in 0 .. m |-> IF k = 0 THEN start ELSE g[k - 1] \cup Beyond(g[k - 1], edges)]
      <3>1. DOMAIN g = 0 .. m /\ g = [k \in DOMAIN g |-> g[k]]
        OBVIOUS
      <3> HIDE DEF g
      <3> QED BY <2>3, <3>1
    <2> HIDE DEF g
    <2> QED BY <1>1, <2>4 DEF IsRounds
  <1> QED BY <1>2, <1>3

RoundByRound(f, start, edges, m) ==
    /\ f[0] = start
    /\ \A k \in 1 .. m : f[k] = f[k - 1] \cup Beyond(f[k - 1], edges)

LEMMA RoundsFollow ==
    ASSUME NEW start, NEW edges, NEW N \in Nat, NEW f, IsRounds(f, start, edges, N)
    PROVE  RoundByRound(f, start, edges, N)
  <1>1. PICK g : g = [k \in 0 .. N |-> IF k = 0 THEN start ELSE f[k - 1] \cup Beyond(f[k - 1], edges)]
    BY Zenon
  <1>2. f = g
    BY <1>1, Zenon DEF IsRounds
  <1>3. g[0] = start
    BY <1>1
  <1>4. \A k \in 1 .. N : g[k] = f[k - 1] \cup Beyond(f[k - 1], edges)
    <2> SUFFICES ASSUME NEW k \in 1 .. N PROVE g[k] = f[k - 1] \cup Beyond(f[k - 1], edges)
      OBVIOUS
    <2>1. k \in 0 .. N /\ k # 0
      OBVIOUS
    <2> QED BY <1>1, <2>1, Zenon
  <1> QED BY <1>2, <1>3, <1>4 DEF RoundByRound

LEMMA SpreadIsLastRound ==
    ASSUME NEW start, NEW edges, IsFiniteSet(edges)
    PROVE  \E f : /\ IsRounds(f, start, edges, Cardinality(edges))
                  /\ Spread(start, edges) = f[Cardinality(edges)]
  <1>1. Cardinality(edges) \in Nat
    BY FS_CardinalityType
  <1>2. \E f : IsRounds(f, start, edges, Cardinality(edges))
    BY <1>1, RoundsExist
  <1> DEFINE f == CHOOSE f : IsRounds(f, start, edges, Cardinality(edges))
  <1>3. IsRounds(f, start, edges, Cardinality(edges))
    BY <1>2
  <1>4. Spread(start, edges) = f[Cardinality(edges)]
    BY DEF Spread, IsRounds, Beyond
  <1> QED BY <1>3, <1>4, Zenon

\* As many rounds as there are edges are enough: a round that adds a node
\* follows an edge no earlier round could.
LEMMA SpreadCloses ==
    ASSUME NEW start, NEW edges, IsFiniteSet(edges)
    PROVE  /\ start \subseteq Spread(start, edges)
           /\ \A e \in edges : e[1] \in Spread(start, edges) => e[2] \in Spread(start, edges)
  <1>1. PICK N \in Nat : N = Cardinality(edges)
    BY FS_CardinalityType
  <1>2. PICK f : IsRounds(f, start, edges, N) /\ Spread(start, edges) = f[N]
    BY <1>1, SpreadIsLastRound
  <1>3. /\ f[0] = start
        /\ \A k \in 1 .. N : f[k] = f[k - 1] \cup Beyond(f[k - 1], edges)
    <2>1. RoundByRound(f, start, edges, N)
      BY <1>1, <1>2, RoundsFollow
    <2> QED BY <2>1 DEF RoundByRound
  <1> DEFINE used(k) == {e \in edges : e[1] \in f[k]}
             open(k) == ~ (Beyond(f[k], edges) \subseteq f[k])
             ample(k) == start \subseteq f[k] /\ (open(k) => Cardinality(used(k)) >= k + 1)
             T == {k \in 0 .. N : ~ ample(k)}
  <1>4. \A k : IsFiniteSet(used(k)) /\ Cardinality(used(k)) \in Nat /\ Cardinality(used(k)) <= N
    <2> SUFFICES ASSUME NEW k
                 PROVE  IsFiniteSet(used(k)) /\ Cardinality(used(k)) \in Nat /\ Cardinality(used(k)) <= N
      BY Zenon
    <2>1. used(k) \in SUBSET edges
      OBVIOUS
    <2> HIDE DEF used
    <2>2. IsFiniteSet(used(k)) /\ Cardinality(used(k)) <= Cardinality(edges)
      BY <2>1, FS_Subset
    <2> QED BY <2>2, FS_CardinalityType, <1>1
  <1>5. T = {}
    <2> SUFFICES ASSUME T # {} PROVE FALSE
      BY Zenon
    <2>1. PICK k \in T : \A o \in T : k <= o
      <3>1. T \subseteq Nat
        BY <1>1
      <3> HIDE DEF T
      <3> QED BY <3>1, LeastNatural, Zenon
    <2>2. CASE k = 0
      <3>1. open(0) /\ ~ (Cardinality(used(0)) >= 1)
        <4>1. ~ ample(0)
          BY <2>1, <2>2
        <4> HIDE DEF open, used
        <4> QED BY <1>3, <4>1
      <3>2. used(0) # {}
        BY <3>1 DEF Beyond
      <3> HIDE DEF used
      <3>3. Cardinality(used(0)) # 0
        BY <1>4, <3>2, FS_EmptySet
      <3> QED BY <1>4, <3>1, <3>3
    <2>3. CASE k # 0
      <3>1. k \in 1 .. N /\ k - 1 \in 0 .. N /\ k - 1 \notin T
        <4> HIDE DEF ample
        <4> QED BY <1>1, <2>1, <2>3
      <3>2. start \subseteq f[k - 1] /\ f[k - 1] \subseteq f[k] /\ f[k] = f[k - 1] \cup Beyond(f[k - 1], edges)
        BY <1>3, <3>1
      <3>3. open(k) /\ ~ (Cardinality(used(k)) >= k + 1)
        BY <2>1, <3>2, Zenon
      <3>4. open(k - 1)
        <4>1. SUFFICES ASSUME Beyond(f[k - 1], edges) \subseteq f[k - 1] PROVE FALSE
          OBVIOUS
        <4>2. f[k] = f[k - 1]
          BY <3>2, <4>1
        <4> QED BY <3>3, <4>1, <4>2
      <3>5. Cardinality(used(k - 1)) >= k
        BY <3>1, <3>4
      <3>6. used(k - 1) \subseteq used(k)
        BY <3>2
      <3>7. used(k - 1) # used(k)
        <4>1. SUFFICES ASSUME used(k - 1) = used(k) PROVE FALSE
          OBVIOUS
        <4>2. Beyond(f[k], edges) = {e[2] : e \in used(k)} /\ Beyond(f[k - 1], edges) = {e[2] : e \in used(k - 1)}
          BY DEF Beyond
        <4> HIDE DEF used
        <4>3. Beyond(f[k], edges) = Beyond(f[k - 1], edges)
          BY <4>1, <4>2
        <4> QED BY <3>2, <3>3, <4>3
      <3> HIDE DEF used
      <3>8. Cardinality(used(k - 1)) <= Cardinality(used(k)) /\ Cardinality(used(k - 1)) # Cardinality(used(k))
        BY <1>4, <3>6, <3>7, FS_Subset
      <3> QED BY <1>4, <3>1, <3>3, <3>5, <3>8
    <2> QED BY <2>2, <2>3
  <1>6. start \subseteq f[N] /\ (open(N) => Cardinality(used(N)) >= N + 1)
    BY <1>1, <1>5
  <1>7. ~ open(N)
    <2> HIDE DEF open, used
    <2> QED BY <1>1, <1>4, <1>6
  <1> QED BY <1>2, <1>6, <1>7 DEF Beyond

\* Every node that is reached is a start or the head of an edge.
LEMMA SpreadStays ==
    ASSUME NEW start, NEW edges, IsFiniteSet(edges), NEW S, start \subseteq S, \A e \in edges : e[2] \in S
    PROVE  Spread(start, edges) \subseteq S
  <1>1. PICK N \in Nat : N = Cardinality(edges)
    BY FS_CardinalityType
  <1>2. PICK f : IsRounds(f, start, edges, N) /\ Spread(start, edges) = f[N]
    BY <1>1, SpreadIsLastRound
  <1>3. /\ f[0] = start
        /\ \A k \in 1 .. N : f[k] = f[k - 1] \cup Beyond(f[k - 1], edges)
    <2>1. RoundByRound(f, start, edges, N)
      BY <1>1, <1>2, RoundsFollow
    <2> QED BY <2>1 DEF RoundByRound
  <1> DEFINE T == {k \in 0 .. N : ~ (f[k] \subseteq S)}
  <1>4. T = {}
    <2> SUFFICES ASSUME T # {} PROVE FALSE
      OBVIOUS
    <2>1. PICK k \in T : \A o \in T : k <= o
      <3>1. T \subseteq Nat
        BY <1>1
      <3> HIDE DEF T
      <3> QED BY <3>1, LeastNatural, Zenon
    <2>2. k # 0
      BY <1>3, <2>1
    <2>3. k \in 1 .. N /\ f[k - 1] \subseteq S
      BY <1>1, <2>1, <2>2
    <2> QED BY <1>3, <2>1, <2>3 DEF Beyond
  <1> QED BY <1>1, <1>2, <1>4

-----------------------------------------------------------------------------
(* The plan of a run lists every affected node once.                       *)

LEMMA FiniteImage ==
    ASSUME NEW n \in Nat, NEW S, NEW f \in [1 .. n -> S], \A t \in S : \E i \in 1 .. n : f[i] = t
    PROVE  IsFiniteSet(S)
  <1>1. IsFiniteSet(1 .. n)
    BY FS_Interval
  <1>2. f \in Surjection(1 .. n, S)
    BY DEF Surjection
  <1> QED BY <1>1, <1>2, FS_Surjection

LEMMA StepsListed == Len(Workflow.steps) \in Nat /\ DOMAIN Workflow.steps = 1 .. Len(Workflow.steps)
  BY WorkflowAssumption

LEMMA StableIdsFinite == IsFiniteSet(StableIds)
  <1> DEFINE f == [i \in 1 .. Len(Workflow.steps) |-> Workflow.steps[i].stable_id]
  <1>1. f \in [1 .. Len(Workflow.steps) -> StableIds]
    BY StepsListed DEF StableIds
  <1>2. \A t \in StableIds : \E i \in 1 .. Len(Workflow.steps) : f[i] = t
    BY StepsListed DEF StableIds
  <1> HIDE DEF f
  <1> QED BY <1>1, <1>2, StepsListed, FiniteImage

LEMMA PlannerEdgesFinite == IsFiniteSet(PlannerEdges)
  <1> DEFINE f == [i \in 1 .. Len(Workflow.steps) |->
                      Workflow.steps[i].depends_on \X {Workflow.steps[i].stable_id}]
             S == {Workflow.steps[i].depends_on \X {Workflow.steps[i].stable_id} : i \in DOMAIN Workflow.steps}
  <1>1. f \in [1 .. Len(Workflow.steps) -> S]
    BY StepsListed
  <1>2. \A t \in S : \E i \in 1 .. Len(Workflow.steps) : f[i] = t
    BY StepsListed
  <1>3. \A t \in S : IsFiniteSet(t)
    <2> SUFFICES ASSUME NEW i \in DOMAIN Workflow.steps
                 PROVE  IsFiniteSet(Workflow.steps[i].depends_on \X {Workflow.steps[i].stable_id})
      OBVIOUS
    <2>1. IsFiniteSet(Workflow.steps[i].depends_on)
      BY WorkflowAssumption
    <2>2. IsFiniteSet({Workflow.steps[i].stable_id})
      BY FS_Singleton, Zenon
    <2> QED BY <2>1, <2>2, FS_Product
  <1>4. PlannerEdges = UNION S
    BY DEF PlannerEdges
  <1> HIDE DEF f, S
  <1>5. IsFiniteSet(S)
    BY <1>1, <1>2, StepsListed, FiniteImage
  <1> QED BY <1>3, <1>4, <1>5, FS_UNION

LEMMA AffectedFinite ==
    ASSUME NEW change
    PROVE  Affected(change) \subseteq StableIds /\ IsFiniteSet(Affected(change))
  <1>1. Direct(change) \subseteq StableIds
    BY DEF Direct, StableIds
  <1>2. \A e \in PlannerEdges : e[2] \in StableIds
    BY DEF PlannerEdges, StableIds
  <1>3. Affected(change) \subseteq StableIds
    BY <1>1, <1>2, PlannerEdgesFinite, SpreadStays DEF Affected
  <1> QED BY <1>3, StableIdsFinite, FS_Subset

LEMMA LeastOf ==
    ASSUME NEW T, T \subseteq Nat, T # {}
    PROVE  Min(T) \in T
  <1>1. \E n \in T : \A m \in T : n <= m
    BY LeastNatural, Zenon
  <1> QED BY <1>1, Zenon DEF Min

\* The next planned step, if any waits for nothing left.
Waiting(change, prefix) ==
    {i \in DOMAIN Workflow.steps :
        /\ Workflow.steps[i].stable_id \in Affected(change) \ Range(prefix)
        /\ Workflow.steps[i].depends_on \cap (Affected(change) \ Range(prefix)) = {}}

PlanNext(change, prefix) ==
    IF Waiting(change, prefix) = {} THEN prefix
    ELSE Append(prefix, Workflow.steps[Min(Waiting(change, prefix))].stable_id)

IsPlanning(f, change, m) ==
    f = [k \in 0 .. m |-> IF k = 0 THEN << >> ELSE PlanNext(change, f[k - 1])]

LEMMA PlanningExists ==
    ASSUME NEW change, NEW N \in Nat
    PROVE  \E f : IsPlanning(f, change, N)
  <1> DEFINE T == {m \in Nat : ~ \E f : IsPlanning(f, change, m)}
  <1> SUFFICES ASSUME T # {} PROVE FALSE
    OBVIOUS
  <1>1. PICK m \in T : \A o \in T : m <= o
    <2>1. T \subseteq Nat
      OBVIOUS
    <2> HIDE DEF T
    <2> QED BY <2>1, LeastNatural, Zenon
  <1>2. CASE m = 0
    <2> DEFINE f == [k \in 0 .. 0 |-> << >>]
    <2>1. f = [k \in 0 .. 0 |-> IF k = 0 THEN << >> ELSE PlanNext(change, f[k - 1])]
      <3>1. \A k \in 0 .. 0 : k = 0
        OBVIOUS
      <3> QED BY <3>1
    <2> QED BY <1>1, <1>2, <2>1, Zenon DEF IsPlanning
  <1>3. CASE m # 0
    <2>1. m - 1 \in Nat /\ m - 1 \notin T
      BY <1>1, <1>3
    <2>2. PICK f : IsPlanning(f, change, m - 1)
      BY <2>1
    <2> DEFINE g == [k \in 0 .. m |-> IF k < m THEN f[k] ELSE PlanNext(change, f[m - 1])]
    <2>3. \A k \in 0 .. m : g[k] = IF k = 0 THEN << >> ELSE PlanNext(change, g[k - 1])
      <3> SUFFICES ASSUME NEW k \in 0 .. m
                   PROVE  g[k] = IF k = 0 THEN << >> ELSE PlanNext(change, g[k - 1])
        BY Zenon
      <3>1. CASE k < m
        <4>1. k \in 0 .. m - 1 /\ g[k] = f[k] /\ (k # 0 => k - 1 \in 0 .. m /\ k - 1 < m /\ g[k - 1] = f[k - 1])
          BY <2>1, <3>1, <1>1
        <4>2. f[k] = IF k = 0 THEN << >> ELSE PlanNext(change, f[k - 1])
          BY <2>2, <4>1 DEF IsPlanning
        <4> HIDE DEF g
        <4> QED BY <4>1, <4>2
      <3>2. CASE k = m
        <4>1. k # 0 /\ k - 1 \in 0 .. m /\ k - 1 < m
          BY <1>3, <3>2, <1>1
        <4>2. g[k - 1] = f[m - 1] /\ g[k] = PlanNext(change, f[m - 1])
          BY <3>2, <4>1
        <4> HIDE DEF g
        <4> QED BY <4>1, <4>2
      <3> QED BY <3>1, <3>2, <1>1
    <2>4. g = [k \in 0 .. m |-> IF k = 0 THEN << >> ELSE PlanNext(change, g[k - 1])]
      <3>1. DOMAIN g = 0 .. m /\ g = [k \in DOMAIN g |-> g[k]]
        OBVIOUS
      <3> HIDE DEF g
      <3> QED BY <2>3, <3>1
    <2> HIDE DEF g
    <2> QED BY <1>1, <2>4 DEF IsPlanning
  <1> QED BY <1>2, <1>3

PlanByPlan(f, change, m) ==
    f[0] = << >> /\ \A k \in 1 .. m : f[k] = PlanNext(change, f[k - 1])

LEMMA PlanningFollows ==
    ASSUME NEW change, NEW N \in Nat, NEW f, IsPlanning(f, change, N)
    PROVE  PlanByPlan(f, change, N)
  <1>1. PICK g : g = [k \in 0 .. N |-> IF k = 0 THEN << >> ELSE PlanNext(change, f[k - 1])]
    BY Zenon
  <1>2. f = g
    BY <1>1, Zenon DEF IsPlanning
  <1>3. g[0] = << >>
    BY <1>1
  <1>4. \A k \in 1 .. N : g[k] = PlanNext(change, f[k - 1])
    <2> SUFFICES ASSUME NEW k \in 1 .. N PROVE g[k] = PlanNext(change, f[k - 1])
      OBVIOUS
    <2>1. k \in 0 .. N /\ k # 0
      OBVIOUS
    <2> QED BY <1>1, <2>1, Zenon
  <1> QED BY <1>2, <1>3, <1>4 DEF PlanByPlan

LEMMA DecisionsAreLastPlan ==
    ASSUME NEW change
    PROVE  \E f : /\ IsPlanning(f, change, Cardinality(Affected(change)))
                  /\ affected_decisions(change) = f[Cardinality(Affected(change))]
  <1>1. Cardinality(Affected(change)) \in Nat
    BY AffectedFinite, FS_CardinalityType
  <1>2. \E f : IsPlanning(f, change, Cardinality(Affected(change)))
    BY <1>1, PlanningExists
  <1> DEFINE f == CHOOSE f : IsPlanning(f, change, Cardinality(Affected(change)))
  <1>3. IsPlanning(f, change, Cardinality(Affected(change)))
    BY <1>2
  <1>4. affected_decisions(change) = f[Cardinality(Affected(change))]
    BY DEF affected_decisions, IsPlanning, PlanNext, Waiting
  <1> QED BY <1>3, <1>4, Zenon

\* No node twice, and only affected ones.
Planned(s, A) ==
    /\ s \in Seq(A)
    /\ \A i, j \in 1 .. Len(s) : s[i] = s[j] => i = j

LEMMA PlanGrows ==
    ASSUME NEW change, NEW s, Planned(s, Affected(change))
    PROVE  Planned(PlanNext(change, s), Affected(change))
  <1>1. CASE Waiting(change, s) = {}
    BY <1>1 DEF PlanNext
  <1>2. CASE Waiting(change, s) # {}
    <2>1. Min(Waiting(change, s)) \in Waiting(change, s)
      <3>1. Waiting(change, s) \subseteq Nat
        BY StepsListed DEF Waiting
      <3> QED BY <1>2, <3>1, LeastOf
    <2>2. PICK x : /\ x \in Affected(change) /\ x \notin Range(s) /\ PlanNext(change, s) = Append(s, x)
      BY <1>2, <2>1, Zenon DEF Waiting, PlanNext
    <2>3. \A i \in 1 .. Len(s) : s[i] # x
      BY <2>2 DEF Range, Planned
    <2>4. /\ Append(s, x) \in Seq(Affected(change)) /\ Len(Append(s, x)) = Len(s) + 1
          /\ Len(s) \in Nat /\ Append(s, x)[Len(s) + 1] = x
          /\ \A i \in 1 .. Len(s) : Append(s, x)[i] = s[i]
      BY <2>2 DEF Planned
    <2>5. \A i, j \in 1 .. Len(Append(s, x)) : Append(s, x)[i] = Append(s, x)[j] => i = j
      BY <2>3, <2>4 DEF Planned
    <2> QED BY <2>2, <2>4, <2>5 DEF Planned
  <1> QED BY <1>1, <1>2

LEMMA DecisionsPlanned ==
    ASSUME NEW change
    PROVE  Planned(affected_decisions(change), Affected(change))
  <1>1. PICK N \in Nat : N = Cardinality(Affected(change))
    BY AffectedFinite, FS_CardinalityType
  <1>2. PICK f : IsPlanning(f, change, N) /\ affected_decisions(change) = f[N]
    BY <1>1, DecisionsAreLastPlan
  <1>3. f[0] = << >> /\ \A k \in 1 .. N : f[k] = PlanNext(change, f[k - 1])
    <2>1. PlanByPlan(f, change, N)
      BY <1>1, <1>2, PlanningFollows
    <2> QED BY <2>1 DEF PlanByPlan
  <1> DEFINE T == {k \in 0 .. N : ~ Planned(f[k], Affected(change))}
  <1>4. T = {}
    <2> SUFFICES ASSUME T # {} PROVE FALSE
      OBVIOUS
    <2>1. PICK k \in T : \A o \in T : k <= o
      <3>1. T \subseteq Nat
        BY <1>1
      <3> HIDE DEF T
      <3> QED BY <3>1, LeastNatural, Zenon
    <2>2. k # 0
      <3>1. Planned(<< >>, Affected(change))
        BY DEF Planned
      <3> QED BY <1>3, <2>1, <3>1
    <2>3. k \in 1 .. N /\ Planned(f[k - 1], Affected(change))
      BY <1>1, <2>1, <2>2
    <2> QED BY <1>3, <2>1, <2>3, PlanGrows
  <1> QED BY <1>1, <1>2, <1>4

\* A plan that is as long as the affected nodes are many holds them all.
LEMMA DecisionsComplete ==
    ASSUME NEW change, Len(affected_decisions(change)) = Cardinality(Affected(change)),
           NEW n \in Affected(change)
    PROVE  \E i \in 1 .. Len(affected_decisions(change)) : affected_decisions(change)[i] = n
  <1>1. PICK s : s = affected_decisions(change)
    OBVIOUS
  <1>2. Planned(s, Affected(change)) /\ Len(s) = Cardinality(Affected(change))
    BY <1>1, DecisionsPlanned
  <1>3. s \in [1 .. Len(s) -> Affected(change)] /\ Len(s) \in Nat
    BY <1>2 DEF Planned
  <1>4. s \in Injection(1 .. Len(s), Affected(change))
    BY <1>2, <1>3 DEF Planned, Injection, IsInjective
  <1>5. Cardinality(1 .. Len(s)) = Len(s)
    <2>0. Len(s) \in Nat
      BY <1>2 DEF Planned
    <2>1. PICK m \in Nat : m = Len(s)
      BY <2>0
    <2>2. Cardinality(1 .. m) = IF 1 > m THEN 0 ELSE m - 1 + 1
      <3>1. 1 \in Int /\ m \in Int
        OBVIOUS
      <3> QED BY <3>1, FS_Interval
    <2> QED BY <2>1, <2>2
  <1>6. s \in Surjection(1 .. Len(s), Affected(change))
    BY <1>2, <1>4, <1>5, AffectedFinite, FS_Injection
  <1> QED BY <1>1, <1>6 DEF Surjection

\* An affected node makes the nodes that depend on it affected.
LEMMA AffectedDownstream ==
    ASSUME NEW change, NEW i \in DOMAIN Workflow.steps, NEW d \in Workflow.steps[i].depends_on,
           d \in Affected(change)
    PROVE  Workflow.steps[i].stable_id \in Affected(change)
  <1>1. <<d, Workflow.steps[i].stable_id>> \in PlannerEdges
    BY DEF PlannerEdges
  <1> QED BY <1>1, PlannerEdgesFinite, SpreadCloses DEF Affected

-----------------------------------------------------------------------------
(* What a run plans, what it has committed, and what the receipts say.     *)

\* No node twice, and with a node every node that depends on it.
SoundPlan(ds) ==
    /\ ds \in Seq(StableIds)
    /\ \A i, j \in 1 .. Len(ds) : ds[i] = ds[j] => i = j
    /\ \A n \in StableIds \ {0} : \A d \in DependsOn(n) :
          (\E i \in 1 .. Len(ds) : ds[i] = d) => \E j \in 1 .. Len(ds) : ds[j] = n

LEMMA ValidIsDistinct ==
    ASSUME Valid(Workflow)
    PROVE  DistinctNodeIds(Workflow)
  BY DEF Valid, topological_order, Rejected

LEMMA AdmissibleIsSound ==
    ASSUME NEW change, Admissible(change)
    PROVE  SoundPlan(affected_decisions(change))
  <1>1. PICK ds : ds = affected_decisions(change)
    OBVIOUS
  <1>2. Planned(ds, Affected(change)) /\ Affected(change) \subseteq StableIds
    BY <1>1, DecisionsPlanned, AffectedFinite
  <1>3. /\ ds \in Seq(Affected(change)) /\ ds \in Seq(StableIds)
        /\ \A i, j \in 1 .. Len(ds) : ds[i] = ds[j] => i = j
    BY <1>2 DEF Planned
  <1>4. ASSUME NEW n \in StableIds \ {0}, NEW d \in DependsOn(n), NEW i \in 1 .. Len(ds), ds[i] = d
        PROVE  \E j \in 1 .. Len(ds) : ds[j] = n
    <2>1. d \in Affected(change)
      BY <1>3, <1>4
    <2>2. PICK k \in DOMAIN Workflow.steps : node_id(Workflow.steps[k]) = n /\ d \in Workflow.steps[k].depends_on
      BY <1>4 DEF DependsOn
    <2>3. PICK l \in DOMAIN Workflow.steps : Workflow.steps[l].stable_id = n
      BY <1>4 DEF StableIds
    <2>4. k = l
      BY <1>4, <2>2, <2>3, ValidIsDistinct DEF Admissible, DistinctNodeIds, node_id
    <2>5. n \in Affected(change)
      BY <2>1, <2>2, <2>3, <2>4, AffectedDownstream
    <2> QED BY <1>1, <2>5, DecisionsComplete DEF Admissible
  <1> QED BY <1>1, <1>3, <1>4 DEF SoundPlan

Receipts == [run : Nat, change : Changes, decisions : Seq(StableIds), events : Seq(Events), completed : BOOLEAN]

SchedulerShape ==
    /\ outputs \in [StableIds -> [Partitions -> Nat]]
    /\ runs \in Nat
    /\ history \in Seq(Receipts)
    /\ run # None => run \in Runs

\* The node and the partition an output is of, as the receipt h commits it.
Logged(h, n, p) ==
    /\ history[h].change.partition = p
    /\ \E e \in 1 .. Len(history[h].events) :
          history[h].events[e].kind = "committed" /\ history[h].events[e].node = n

\* v is what the last of the receipts before k commits for node n and partition p.
LastBefore(k, n, p, v) ==
    \/ v = 0 /\ \A h \in 1 .. k - 1 : ~ Logged(h, n, p)
    \/ \E h \in 1 .. k - 1 : /\ Logged(h, n, p) /\ v = history[h].run
                             /\ \A g \in h + 1 .. k - 1 : ~ Logged(g, n, p)

\* The run in progress has committed the first decisions and nothing else.
RunOutputs ==
    /\ \A i \in 1 .. run.next - 1 : outputs[run.decisions[i]][run.change.partition] = runs
    /\ \A n \in StableIds, p \in Partitions : outputs[n][p] = runs =>
          p = run.change.partition /\ \E i \in 1 .. run.next - 1 : run.decisions[i] = n

RunEvents ==
    /\ \A e \in 1 .. Len(run.events) : run.events[e].kind = "committed" =>
          run.events[e].digest = runs /\ \E i \in 1 .. run.next - 1 : run.decisions[i] = run.events[e].node
    /\ \A i \in 1 .. run.next - 1 : \E e \in 1 .. Len(run.events) :
          run.events[e].kind = "committed" /\ run.events[e].node = run.decisions[i]

RunInv ==
    run # None =>
        /\ SoundPlan(run.decisions)
        /\ run.next \in 1 .. Len(run.decisions) + 1
        /\ runs # 0
        /\ RunOutputs
        /\ RunEvents

\* Outputs and receipts are no younger than the current run.
AgesInv ==
    /\ \A n \in StableIds, p \in Partitions : outputs[n][p] <= runs
    /\ \A h \in 1 .. Len(history) : /\ history[h].run # 0 /\ history[h].run <= runs
                                    /\ run # None => history[h].run < runs
    /\ \A g, h \in 1 .. Len(history) : g < h => history[g].run < history[h].run

\* An output a receipt's run wrote is one it decided on; a completed run's
\* decisions are all as young as the run.
ReceiptInv ==
    \A h \in 1 .. Len(history) :
        /\ SoundPlan(history[h].decisions)
        /\ \A n \in StableIds, p \in Partitions : outputs[n][p] = history[h].run =>
              /\ p = history[h].change.partition
              /\ \E i \in 1 .. Len(history[h].decisions) : history[h].decisions[i] = n
        /\ history[h].completed => \A i \in 1 .. Len(history[h].decisions) :
              outputs[history[h].decisions[i]][history[h].change.partition] >= history[h].run
        /\ \A e \in 1 .. Len(history[h].events) : history[h].events[e].kind = "committed" =>
              history[h].events[e].digest = history[h].run

\* What is committed, and what each commit replaced, is in the receipts.
ExplainInv ==
    /\ \A n \in StableIds, p \in Partitions :
          run = None \/ outputs[n][p] # runs => LastBefore(Len(history) + 1, n, p, outputs[n][p])
    /\ run # None => \A e \in 1 .. Len(run.events) : run.events[e].kind = "committed" =>
          LastBefore(Len(history) + 1, run.events[e].node, run.change.partition, run.events[e].replaced)
    /\ \A h \in 1 .. Len(history) : \A e \in 1 .. Len(history[h].events) :
          history[h].events[e].kind = "committed" =>
              LastBefore(h, history[h].events[e].node, history[h].change.partition, history[h].events[e].replaced)

SchedulerInv ==
    SchedulerShape /\ RunInv /\ AgesInv /\ ReceiptInv /\ (aborted = {} => ExplainInv)

LEMMA SchedulerStarts ==
    ASSUME Init
    PROVE  SchedulerInv
  <1>1. SchedulerShape /\ Len(history) = 0
    BY DEF Init, SchedulerShape
  <1>2. RunInv /\ AgesInv /\ ReceiptInv
    BY <1>1 DEF Init, RunInv, AgesInv, ReceiptInv
  <1>3. ExplainInv
    BY <1>1 DEF Init, ExplainInv, LastBefore
  <1> QED BY <1>1, <1>2, <1>3 DEF SchedulerInv

\* Facts about the current state that a longer history keeps.
LEMMA LoggedStays ==
    ASSUME SchedulerShape, NEW r \in Receipts, history' = Append(history, r) \/ history' = history
    PROVE  /\ \A h \in 1 .. Len(history) : history'[h] = history[h]
           /\ \A h \in 1 .. Len(history) : \A n, p : Logged(h, n, p)' <=> Logged(h, n, p)
  <1>1. \A h \in 1 .. Len(history) : history'[h] = history[h]
    BY DEF SchedulerShape
  <1> QED BY <1>1 DEF Logged

LEMMA LastStays ==
    ASSUME SchedulerShape, NEW r \in Receipts, history' = Append(history, r) \/ history' = history,
           NEW k \in 1 .. Len(history) + 1, NEW n, NEW p, NEW v, LastBefore(k, n, p, v)
    PROVE  LastBefore(k, n, p, v)'
  <1>1. Len(history) \in Nat /\ k - 1 <= Len(history)
    BY DEF SchedulerShape
  <1>2. \A h \in 1 .. k - 1 : history'[h] = history[h] /\ (Logged(h, n, p)' <=> Logged(h, n, p))
    BY <1>1, LoggedStays
  <1> QED BY <1>1, <1>2 DEF LastBefore

\* What a commit and a retry make of the record of the run.
Advanced(r, ev) == [r EXCEPT !.next = @ + 1, !.attempt = 1, !.events = Append(@, ev)]
Retried(r, ev) == [r EXCEPT !.attempt = @ + 1, !.events = Append(@, ev)]

LEMMA RunAdvances ==
    ASSUME NEW r \in Runs, NEW ev \in Events, NEW s, s = Advanced(r, ev)
    PROVE  /\ s \in Runs /\ s.change = r.change /\ s.decisions = r.decisions /\ s.next = r.next + 1
           /\ s.events = Append(r.events, ev)
  <1>1. PICK x \in Nat, y \in Nat, z \in Seq(Events) : x = r.next + 1 /\ y = 1 /\ z = Append(r.events, ev)
    <2>1. r.next \in Nat /\ r.events \in Seq(Events)
      BY DEF Runs
    <2>2. r.next + 1 \in Nat /\ 1 \in Nat /\ Append(r.events, ev) \in Seq(Events)
      BY <2>1
    <2> QED BY <2>2, Zenon
  <1>2. s = [[[r EXCEPT !.next = x] EXCEPT !.attempt = y] EXCEPT !.events = z]
    BY <1>1 DEF Advanced, Retried
  <1>3. PICK a : a = [r EXCEPT !.next = x]
    BY Zenon
  <1>4. PICK b : b = [a EXCEPT !.attempt = y]
    BY Zenon
  <1>5. a \in Runs /\ a.change = r.change /\ a.decisions = r.decisions /\ a.next = x
    BY <1>3 DEF Runs
  <1>6. b \in Runs /\ b.change = r.change /\ b.decisions = r.decisions /\ b.next = x
    BY <1>4, <1>5, Zenon DEF Runs
  <1>7. s = [b EXCEPT !.events = z]
    BY <1>2, <1>3, <1>4
  <1>8. s \in Runs /\ s.change = r.change /\ s.decisions = r.decisions /\ s.next = x /\ s.events = z
    BY <1>6, <1>7, Zenon DEF Runs
  <1> QED BY <1>1, <1>8

LEMMA RunRetries ==
    ASSUME NEW r \in Runs, NEW ev \in Events, NEW s, s = Retried(r, ev)
    PROVE  /\ s \in Runs /\ s.change = r.change /\ s.decisions = r.decisions /\ s.next = r.next
           /\ s.events = Append(r.events, ev)
  <1>1. PICK y \in Nat, z \in Seq(Events) : y = r.attempt + 1 /\ z = Append(r.events, ev)
    <2>1. r.attempt \in Nat /\ r.events \in Seq(Events)
      BY DEF Runs
    <2>2. r.attempt + 1 \in Nat /\ Append(r.events, ev) \in Seq(Events)
      BY <2>1
    <2> QED BY <2>2, Zenon
  <1>2. s = [[r EXCEPT !.attempt = y] EXCEPT !.events = z]
    BY <1>1 DEF Advanced, Retried
  <1>3. PICK b : b = [r EXCEPT !.attempt = y]
    BY Zenon
  <1>4. b \in Runs /\ b.change = r.change /\ b.decisions = r.decisions /\ b.next = r.next
    BY <1>3, Zenon DEF Runs
  <1>5. s = [b EXCEPT !.events = z]
    BY <1>2, <1>3
  <1>6. s \in Runs /\ s.change = r.change /\ s.decisions = r.decisions /\ s.next = r.next /\ s.events = z
    BY <1>4, <1>5, Zenon DEF Runs
  <1> QED BY <1>1, <1>6

LEMMA ReceiptTypes ==
    ASSUME SchedulerShape
    PROVE  /\ Len(history) \in Nat
           /\ \A h \in 1 .. Len(history) :
                 /\ history[h] \in Receipts /\ history[h].run \in Nat /\ history[h].change \in Changes
                 /\ history[h].decisions \in Seq(StableIds) /\ history[h].events \in Seq(Events)
  <1>1. Len(history) \in Nat /\ \A h \in 1 .. Len(history) : history[h] \in Receipts
    BY DEF SchedulerShape
  <1>2. \A r \in Receipts : /\ r.run \in Nat /\ r.change \in Changes /\ r.decisions \in Seq(StableIds)
                             /\ r.events \in Seq(Events)
    BY DEF Receipts
  <1> QED BY <1>1, <1>2

LEMMA RunBegins ==
    ASSUME SchedulerInv, NEW change \in Changes, Begin(change)
    PROVE  SchedulerInv'
  <1>0. SchedulerShape /\ AgesInv /\ ReceiptInv /\ (aborted = {} => ExplainInv) /\ run = None
    BY DEF SchedulerInv, Begin
  <1>1. PICK ds : ds = affected_decisions(change) /\ SoundPlan(ds)
    BY AdmissibleIsSound DEF Begin
  <1>2. /\ runs' = runs + 1 /\ outputs' = outputs /\ history' = history /\ aborted' = aborted
        /\ run' = [change |-> change, decisions |-> ds, next |-> 1, attempt |-> 1, events |-> << >>]
    BY <1>1 DEF Begin
  <1>3. /\ run' \in Runs /\ run'.next = 1 /\ run'.decisions = ds /\ run'.events = << >>
        /\ Len(ds) \in Nat
    BY <1>1, <1>2 DEF Runs, SoundPlan
  <1>4. SchedulerShape'
    BY <1>0, <1>2, <1>3 DEF SchedulerShape
  <1>5. /\ \A n \in StableIds, p \in Partitions : outputs'[n][p] \in Nat /\ outputs'[n][p] < runs'
        /\ runs' # 0 /\ runs \in Nat
    BY <1>0, <1>2 DEF SchedulerShape, AgesInv
  <1>6. RunInv'
    BY <1>1, <1>3, <1>5 DEF RunInv, RunOutputs, RunEvents
  <1>7. AgesInv'
    <2>1. \A h \in 1 .. Len(history) : history[h].run \in Nat
      BY <1>0, ReceiptTypes
    <2> QED BY <1>0, <1>2, <1>5, <2>1 DEF AgesInv
  <1>8. ReceiptInv'
    BY <1>0, <1>2 DEF ReceiptInv
  <1>9. aborted' = {} => ExplainInv'
    <2>1. ASSUME NEW k, NEW n, NEW p, NEW v, LastBefore(k, n, p, v) PROVE LastBefore(k, n, p, v)'
      BY <1>2, <2>1, Zenon DEF LastBefore, Logged
    <2>2. Len(run'.events) = 0
      BY <1>3
    <2> QED BY <1>0, <1>2, <2>1, <2>2 DEF ExplainInv
  <1> QED BY <1>4, <1>6, <1>7, <1>8, <1>9 DEF SchedulerInv

LEMMA PendingNode ==
    ASSUME SchedulerInv, Pending
    PROVE  /\ run \in Runs /\ run.next \in 1 .. Len(run.decisions) /\ Len(run.decisions) \in Nat
           /\ Node \in StableIds /\ run.change.partition \in Partitions /\ run.attempt \in Nat
           /\ run.next \in Nat /\ run.events \in Seq(Events)
  <1>1. run \in Runs /\ run.next \in 1 .. Len(run.decisions) + 1
    BY DEF SchedulerInv, SchedulerShape, RunInv, Pending
  <1>2. /\ run.decisions \in Seq(StableIds) /\ run.next \in Nat /\ run.attempt \in Nat /\ run.change \in Changes
        /\ run.events \in Seq(Events)
    BY <1>1 DEF Runs
  <1>3. run.next \in 1 .. Len(run.decisions) /\ Len(run.decisions) \in Nat
    BY <1>1, <1>2 DEF Pending
  <1>4. run.change.partition \in Partitions
    BY <1>2 DEF Changes
  <1> QED BY <1>1, <1>2, <1>3, <1>4 DEF Node

LEMMA EventType ==
    ASSUME SchedulerInv, Pending, NEW kind \in {"committed", "retry", "failed"}, NEW a \in Nat, NEW b \in Nat
    PROVE  Event(kind, a, b) \in Events /\ Event(kind, a, b).kind = kind /\ Event(kind, a, b).node = Node
           /\ Event(kind, a, b).digest = a /\ Event(kind, a, b).replaced = b
  BY PendingNode DEF Event, Events

LEMMA RunRetried ==
    ASSUME SchedulerInv, AttemptRetried
    PROVE  SchedulerInv'
  <1>0. SchedulerShape /\ RunInv /\ AgesInv /\ ReceiptInv /\ (aborted = {} => ExplainInv) /\ Pending /\ run # None
    BY DEF SchedulerInv, AttemptRetried, Pending
  <1>1. PICK ev : ev = Event("retry", 0, 0)
    OBVIOUS
  <1>2. ev \in Events /\ ev.kind = "retry"
    BY <1>0, <1>1, EventType
  <1>3. run \in Runs /\ run.events \in Seq(Events)
    BY <1>0, PendingNode
  <1>4. run' = Retried(run, ev) /\ UNCHANGED <<outputs, history, runs, aborted>>
    BY <1>1 DEF AttemptRetried, Retried
  <1>5. /\ run' \in Runs /\ run'.change = run.change /\ run'.decisions = run.decisions /\ run'.next = run.next
        /\ run'.events = Append(run.events, ev)
    BY <1>2, <1>3, <1>4, RunRetries, Zenon
  <1>6. /\ Len(run'.events) = Len(run.events) + 1 /\ Len(run.events) \in Nat
        /\ run'.events[Len(run.events) + 1].kind # "committed"
        /\ \A e \in 1 .. Len(run.events) : run'.events[e] = run.events[e]
    BY <1>2, <1>3, <1>5
  <1>7. run' # None
    BY <1>5, NoneAssumption
  <1>8. SchedulerShape'
    BY <1>0, <1>4, <1>5 DEF SchedulerShape
  <1>9. \A e \in 1 .. Len(run'.events) : run'.events[e].kind = "committed" =>
           e \in 1 .. Len(run.events) /\ run'.events[e] = run.events[e]
    BY <1>6
  <1>10. RunInv'
    <2>1. SoundPlan(run.decisions)' /\ SoundPlan(run.decisions)
      BY <1>0, <1>4, <1>5 DEF RunInv
    <2>2. \A i \in 1 .. run.next - 1 : \E e \in 1 .. Len(run'.events) :
              run'.events[e].kind = "committed" /\ run'.events[e].node = run.decisions[i]
      <3> SUFFICES ASSUME NEW i \in 1 .. run.next - 1
                   PROVE  \E e \in 1 .. Len(run'.events) :
                             run'.events[e].kind = "committed" /\ run'.events[e].node = run.decisions[i]
        OBVIOUS
      <3>1. PICK e \in 1 .. Len(run.events) : run.events[e].kind = "committed" /\ run.events[e].node = run.decisions[i]
        BY <1>0, Zenon DEF RunInv, RunEvents
      <3>2. e \in 1 .. Len(run'.events) /\ run'.events[e] = run.events[e]
        BY <1>6
      <3> QED BY <3>1, <3>2
    <2>3. RunOutputs'
      BY <1>0, <1>4, <1>5 DEF RunInv, RunOutputs
    <2>4. \A e \in 1 .. Len(run'.events) : run'.events[e].kind = "committed" =>
             run'.events[e].digest = runs /\ \E i \in 1 .. run.next - 1 : run.decisions[i] = run'.events[e].node
      <3> SUFFICES ASSUME NEW e \in 1 .. Len(run'.events), run'.events[e].kind = "committed"
                   PROVE  run'.events[e].digest = runs /\ \E i \in 1 .. run.next - 1 : run.decisions[i] = run'.events[e].node
        OBVIOUS
      <3>1. e \in 1 .. Len(run.events) /\ run'.events[e] = run.events[e]
        BY <1>9
      <3> QED BY <1>0, <3>1 DEF RunInv, RunEvents
    <2>5. RunEvents'
      BY <1>4, <1>5, <2>2, <2>4 DEF RunEvents
    <2> QED BY <1>0, <1>4, <1>5, <2>1, <2>3, <2>5 DEF RunInv
  <1>11. AgesInv'
    BY <1>0, <1>4, <1>7 DEF AgesInv
  <1>12. ReceiptInv'
    BY <1>0, <1>4 DEF ReceiptInv
  <1>13. ASSUME aborted' = {} PROVE ExplainInv'
    <2>1. ExplainInv /\ \A h, n, p, v : LastBefore(h, n, p, v)' <=> LastBefore(h, n, p, v)
      BY <1>0, <1>4, <1>13 DEF LastBefore, Logged
    <2> QED BY <1>0, <1>4, <1>5, <1>7, <1>9, <2>1 DEF ExplainInv
  <1> QED BY <1>8, <1>10, <1>11, <1>12, <1>13 DEF SchedulerInv

LEMMA RunRejected ==
    ASSUME SchedulerInv, DigestRejected
    PROVE  SchedulerInv'
  <1>1. /\ SchedulerShape /\ RunInv /\ AgesInv /\ ReceiptInv /\ run' = None
        /\ UNCHANGED <<outputs, history, runs>> /\ aborted' # {}
    BY DEF SchedulerInv, DigestRejected
  <1>2. SchedulerShape' /\ RunInv' /\ AgesInv'
    BY <1>1 DEF SchedulerShape, RunInv, AgesInv
  <1>3. ReceiptInv'
    BY <1>1 DEF ReceiptInv
  <1> QED BY <1>1, <1>2, <1>3 DEF SchedulerInv

LEMMA RunCommits ==
    ASSUME SchedulerInv, AttemptSucceeds
    PROVE  SchedulerInv'
  <1>0. SchedulerShape /\ RunInv /\ AgesInv /\ ReceiptInv /\ (aborted = {} => ExplainInv) /\ Pending /\ run # None
    BY DEF SchedulerInv, AttemptSucceeds, Pending
  <1>1. PICK at, q, was, k : at = Node /\ q = run.change.partition /\ was = outputs[at][q] /\ k = run.next
    OBVIOUS
  <1>2. /\ run \in Runs /\ k \in 1 .. Len(run.decisions) /\ Len(run.decisions) \in Nat /\ at \in StableIds
        /\ q \in Partitions /\ k \in Nat /\ run.events \in Seq(Events) /\ at = run.decisions[k]
    BY <1>0, <1>1, PendingNode DEF Node
  <1>3. was \in Nat /\ runs \in Nat
    BY <1>0, <1>1, <1>2 DEF SchedulerShape
  <1>4. PICK ev : ev = Event("committed", runs, was)
    OBVIOUS
  <1>5. ev \in Events /\ ev.kind = "committed" /\ ev.node = at /\ ev.digest = runs /\ ev.replaced = was
    BY <1>0, <1>1, <1>3, <1>4, EventType
  <1>6. /\ run' = Advanced(run, ev) /\ UNCHANGED <<history, runs, aborted>>
        /\ outputs' = [outputs EXCEPT ![at][q] = runs]
    BY <1>1, <1>4 DEF AttemptSucceeds, Advanced
  <1>7. /\ run' \in Runs /\ run'.change = run.change /\ run'.decisions = run.decisions /\ run'.next = k + 1
        /\ run'.events = Append(run.events, ev)
    BY <1>1, <1>2, <1>5, <1>6, RunAdvances, Zenon
  <1>8. /\ Len(run'.events) = Len(run.events) + 1 /\ Len(run.events) \in Nat
        /\ run'.events[Len(run.events) + 1] = ev
        /\ \A e \in 1 .. Len(run.events) : run'.events[e] = run.events[e]
    BY <1>2, <1>5, <1>7
  <1>9. run' # None
    BY <1>7, NoneAssumption
  <1>10. /\ outputs' \in [StableIds -> [Partitions -> Nat]]
         /\ \A n \in StableIds, p \in Partitions :
               outputs'[n][p] = IF n = at /\ p = q THEN runs ELSE outputs[n][p]
    BY <1>0, <1>2, <1>3, <1>6 DEF SchedulerShape
  <1>11. SchedulerShape'
    BY <1>0, <1>6, <1>7, <1>10 DEF SchedulerShape
  <1>12. \A i \in 1 .. k : run.decisions[i] \in StableIds
    BY <1>2 DEF Runs
  <1>13. was # runs
    <2>1. SUFFICES ASSUME was = runs PROVE FALSE
      OBVIOUS
    <2>2. PICK i \in 1 .. k - 1 : run.decisions[i] = at
      BY <1>0, <1>1, <1>2, <2>1 DEF RunInv, RunOutputs
    <2> QED BY <1>0, <1>2, <2>2 DEF RunInv, SoundPlan
  <1>14. RunOutputs'
    <2>1. \A i \in 1 .. k : outputs'[run.decisions[i]][q] = runs
      <3> SUFFICES ASSUME NEW i \in 1 .. k PROVE outputs'[run.decisions[i]][q] = runs
        OBVIOUS
      <3>1. CASE i = k
        BY <1>2, <1>10, <3>1
      <3>2. CASE i # k
        <4>1. i \in 1 .. k - 1
          BY <1>2, <3>2
        <4>2. outputs[run.decisions[i]][q] = runs
          BY <1>0, <1>1, <4>1 DEF RunInv, RunOutputs
        <4> QED BY <1>2, <1>10, <1>12, <4>2
      <3> QED BY <3>1, <3>2
    <2>2. ASSUME NEW n \in StableIds, NEW p \in Partitions, outputs'[n][p] = runs
          PROVE  p = q /\ \E i \in 1 .. k : run.decisions[i] = n
      <3>1. CASE n = at /\ p = q
        BY <1>2, <3>1
      <3>2. CASE ~ (n = at /\ p = q)
        <4>1. outputs[n][p] = runs
          BY <1>10, <2>2, <3>2
        <4>2. p = q /\ \E i \in 1 .. k - 1 : run.decisions[i] = n
          BY <1>0, <1>1, <4>1 DEF RunInv, RunOutputs
        <4> QED BY <1>2, <4>2
      <3> QED BY <3>1, <3>2
    <2>3. run'.next - 1 = k /\ run'.change.partition = q /\ runs' = runs
      BY <1>1, <1>2, <1>6, <1>7
    <2> QED BY <1>7, <2>1, <2>2, <2>3 DEF RunOutputs
  <1>15. RunEvents'
    <2>1. ASSUME NEW e \in 1 .. Len(run'.events), run'.events[e].kind = "committed"
          PROVE  run'.events[e].digest = runs /\ \E i \in 1 .. k : run.decisions[i] = run'.events[e].node
      <3>1. CASE e = Len(run.events) + 1
        BY <1>2, <1>5, <1>8, <3>1
      <3>2. CASE e # Len(run.events) + 1
        <4>1. e \in 1 .. Len(run.events) /\ run'.events[e] = run.events[e]
          BY <1>8, <3>2
        <4>2. run.events[e].digest = runs /\ \E i \in 1 .. k - 1 : run.decisions[i] = run.events[e].node
          BY <1>0, <1>1, <2>1, <4>1 DEF RunInv, RunEvents
        <4> QED BY <1>2, <4>1, <4>2
      <3> QED BY <3>1, <3>2
    <2>2. ASSUME NEW i \in 1 .. k
          PROVE  \E e \in 1 .. Len(run'.events) : run'.events[e].kind = "committed" /\ run'.events[e].node = run.decisions[i]
      <3>1. CASE i = k
        <4>1. Len(run.events) + 1 \in 1 .. Len(run'.events)
          BY <1>8
        <4> QED BY <1>2, <1>5, <1>8, <3>1, <4>1, Zenon
      <3>2. CASE i # k
        <4>1. i \in 1 .. k - 1
          BY <1>2, <3>2
        <4>2. PICK e \in 1 .. Len(run.events) : run.events[e].kind = "committed" /\ run.events[e].node = run.decisions[i]
          BY <1>0, <1>1, <4>1 DEF RunInv, RunEvents
        <4>3. e \in 1 .. Len(run'.events) /\ run'.events[e] = run.events[e]
          BY <1>8
        <4> QED BY <4>2, <4>3
      <3> QED BY <3>1, <3>2
    <2>3. run'.next - 1 = k /\ runs' = runs
      BY <1>2, <1>6, <1>7
    <2> QED BY <1>7, <2>1, <2>2, <2>3 DEF RunEvents
  <1>16. RunInv'
    <2>1. k + 1 \in 1 .. Len(run.decisions) + 1
      BY <1>2
    <2> QED BY <1>0, <1>6, <1>7, <1>14, <1>15, <2>1 DEF RunInv
  <1>17. AgesInv'
    <2>1. \A n \in StableIds, p \in Partitions : outputs'[n][p] <= runs
      BY <1>0, <1>3, <1>10 DEF AgesInv
    <2> QED BY <1>0, <1>6, <1>9, <2>1 DEF AgesInv
  <1>18. ReceiptInv'
    <2> SUFFICES ASSUME NEW h \in 1 .. Len(history)
                 PROVE  /\ \A n \in StableIds, p \in Partitions : outputs'[n][p] = history[h].run =>
                              /\ p = history[h].change.partition
                              /\ \E i \in 1 .. Len(history[h].decisions) : history[h].decisions[i] = n
                        /\ history[h].completed => \A i \in 1 .. Len(history[h].decisions) :
                              outputs'[history[h].decisions[i]][history[h].change.partition] >= history[h].run
      BY <1>0, <1>6 DEF ReceiptInv
    <2>1. PICK r \in Receipts : r = history[h]
      BY <1>0, ReceiptTypes
    <2>2. /\ r.run \in Nat /\ r.run < runs /\ r.change.partition \in Partitions
          /\ \A i \in 1 .. Len(r.decisions) : r.decisions[i] \in StableIds
      <3>1. r.run < runs
        BY <1>0, <2>1 DEF AgesInv
      <3>2. r.run \in Nat /\ r.change \in Changes /\ r.decisions \in Seq(StableIds)
        BY DEF Receipts
      <3> QED BY <3>1, <3>2 DEF Changes
    <2>3. ASSUME NEW n \in StableIds, NEW p \in Partitions, outputs'[n][p] = r.run
          PROVE  p = r.change.partition /\ \E i \in 1 .. Len(r.decisions) : r.decisions[i] = n
      <3>1. outputs[n][p] = r.run
        BY <1>3, <1>10, <2>2, <2>3
      <3> QED BY <1>0, <2>1, <3>1 DEF ReceiptInv
    <2>4. ASSUME r.completed, NEW i \in 1 .. Len(r.decisions)
          PROVE  outputs'[r.decisions[i]][r.change.partition] >= r.run
      <3>1. outputs[r.decisions[i]][r.change.partition] >= r.run
        BY <1>0, <2>1, <2>4 DEF ReceiptInv
      <3>2. PICK d \in StableIds, p \in Partitions : d = r.decisions[i] /\ p = r.change.partition
        BY <2>2, <2>4
      <3>3. outputs'[d][p] >= r.run
        <4>1. outputs[d][p] >= r.run
          BY <3>1, <3>2
        <4> QED BY <1>3, <1>10, <2>2, <4>1
      <3> QED BY <3>2, <3>3
    <2> QED BY <2>1, <2>3, <2>4
  <1>19. ASSUME aborted' = {} PROVE ExplainInv'
    <2>0. ExplainInv
      BY <1>0, <1>6, <1>19
    <2>1. \A h, n, p, v : LastBefore(h, n, p, v)' <=> LastBefore(h, n, p, v)
      BY <1>6 DEF LastBefore, Logged
    <2>2. LastBefore(Len(history) + 1, at, q, was)
      BY <1>1, <1>2, <1>13, <2>0 DEF ExplainInv
    <2>3. ASSUME NEW n \in StableIds, NEW p \in Partitions, outputs'[n][p] # runs
          PROVE  LastBefore(Len(history) + 1, n, p, outputs'[n][p])
      <3>1. outputs'[n][p] = outputs[n][p]
        BY <1>10, <2>3
      <3> QED BY <2>0, <2>3, <3>1 DEF ExplainInv
    <2>4. ASSUME NEW e \in 1 .. Len(run'.events), run'.events[e].kind = "committed"
          PROVE  LastBefore(Len(history) + 1, run'.events[e].node, q, run'.events[e].replaced)
      <3>1. CASE e = Len(run.events) + 1
        BY <1>5, <1>8, <2>2, <3>1
      <3>2. CASE e # Len(run.events) + 1
        <4>1. e \in 1 .. Len(run.events) /\ run'.events[e] = run.events[e]
          BY <1>8, <3>2
        <4> QED BY <1>0, <1>1, <2>0, <2>4, <4>1 DEF ExplainInv
      <3> QED BY <3>1, <3>2
    <2>5. \A n \in StableIds, p \in Partitions :
             outputs'[n][p] # runs => LastBefore(Len(history) + 1, n, p, outputs[n][p])'
      BY <1>6, <2>1, <2>3
    <2>6. \A e \in 1 .. Len(run'.events) : run'.events[e].kind = "committed" =>
             LastBefore(Len(history) + 1, run.events[e].node, run.change.partition, run.events[e].replaced)'
      BY <1>1, <1>6, <1>7, <2>1, <2>4
    <2>7. \A h \in 1 .. Len(history) : \A e \in 1 .. Len(history[h].events) :
             history[h].events[e].kind = "committed" =>
              LastBefore(h, history[h].events[e].node, history[h].change.partition, history[h].events[e].replaced)'
      BY <1>6, <2>0, <2>1 DEF ExplainInv
    <2> QED BY <1>6, <1>9, <2>5, <2>6, <2>7 DEF ExplainInv
  <1> QED BY <1>11, <1>16, <1>17, <1>18, <1>19 DEF SchedulerInv

\* A receipt of the run in progress; what it adds to the events is no commit.
Closes(r) ==
    /\ r \in Receipts /\ r.run = runs /\ r.change = run.change /\ r.decisions = run.decisions
    /\ r.completed => run.next = Len(run.decisions) + 1
    /\ Len(run.events) <= Len(r.events)
    /\ \A e \in 1 .. Len(run.events) : r.events[e] = run.events[e]
    /\ \A e \in 1 .. Len(r.events) : r.events[e].kind = "committed" => e \in 1 .. Len(run.events)

LEMMA RunRecorded ==
    ASSUME SchedulerInv, run # None, NEW r, Closes(r),
           history' = Append(history, r), run' = None, UNCHANGED <<outputs, runs, aborted>>
    PROVE  SchedulerInv'
  <1>0. SchedulerShape /\ RunInv /\ AgesInv /\ ReceiptInv /\ (aborted = {} => ExplainInv) /\ run \in Runs
    BY DEF SchedulerInv, SchedulerShape
  <1>1. PICK L \in Nat : L = Len(history)
    BY <1>0 DEF SchedulerShape
  <1>2. /\ history' \in Seq(Receipts) /\ Len(history') = L + 1 /\ history'[L + 1] = r
        /\ \A h \in 1 .. L : history'[h] = history[h]
    BY <1>0, <1>1 DEF SchedulerShape, Closes
  <1>3. SchedulerShape' /\ RunInv'
    BY <1>0, <1>2 DEF SchedulerShape, RunInv
  <1>4. /\ run.events \in Seq(Events) /\ run.next \in Nat /\ run.decisions \in Seq(StableIds)
        /\ run.change.partition \in Partitions /\ runs \in Nat
        /\ run.next \in 1 .. Len(run.decisions) + 1
    <2>1. run.events \in Seq(Events) /\ run.next \in Nat /\ run.decisions \in Seq(StableIds) /\ run.change \in Changes
      BY <1>0 DEF Runs
    <2> QED BY <1>0, <2>1 DEF Changes, SchedulerShape, RunInv
  <1>5. /\ r.run = runs /\ r.change = run.change /\ r.decisions = run.decisions
        /\ r.completed => run.next = Len(run.decisions) + 1
        /\ r.events \in Seq(Events)
    BY DEF Closes, Receipts
  <1>6. \A h \in 1 .. L : history[h].run \in Nat /\ history[h].run < runs /\ history[h].run # 0
    BY <1>0, <1>1, ReceiptTypes DEF AgesInv
  <1>7. AgesInv'
    <2>1. runs # 0
      BY <1>0 DEF RunInv
    <2>2. \A h \in 1 .. L + 1 : /\ history'[h].run # 0 /\ history'[h].run <= runs
                                /\ h # L + 1 => history'[h].run < runs
      BY <1>1, <1>2, <1>4, <1>5, <1>6, <2>1
    <2>3. \A g, h \in 1 .. L + 1 : g < h => history'[g].run < history'[h].run
      <3> SUFFICES ASSUME NEW g \in 1 .. L + 1, NEW h \in 1 .. L + 1, g < h
                   PROVE  history'[g].run < history'[h].run
        BY Zenon
      <3>1. CASE h = L + 1
        BY <1>2, <1>5, <2>2, <3>1
      <3>2. CASE h # L + 1
        BY <1>0, <1>1, <1>2, <3>2 DEF AgesInv
      <3> QED BY <3>1, <3>2, Zenon
    <2>4. \A n \in StableIds, p \in Partitions : outputs'[n][p] <= runs'
      BY <1>0 DEF AgesInv
    <2> QED BY <1>2, <2>2, <2>3, <2>4 DEF AgesInv
  <1>8. ReceiptInv'
    <2>1. ASSUME NEW h \in 1 .. L
          PROVE  /\ SoundPlan(history'[h].decisions)
                 /\ \A n \in StableIds, p \in Partitions : outputs'[n][p] = history'[h].run =>
                       /\ p = history'[h].change.partition
                       /\ \E i \in 1 .. Len(history'[h].decisions) : history'[h].decisions[i] = n
                 /\ history'[h].completed => \A i \in 1 .. Len(history'[h].decisions) :
                       outputs'[history'[h].decisions[i]][history'[h].change.partition] >= history'[h].run
                 /\ \A e \in 1 .. Len(history'[h].events) : history'[h].events[e].kind = "committed" =>
                       history'[h].events[e].digest = history'[h].run
      BY <1>0, <1>1, <1>2 DEF ReceiptInv
    <2>2. SoundPlan(r.decisions)
      BY <1>0, <1>5 DEF RunInv
    <2>3. ASSUME NEW n \in StableIds, NEW p \in Partitions, outputs[n][p] = runs
          PROVE  p = run.change.partition /\ \E i \in 1 .. Len(run.decisions) : run.decisions[i] = n
      <3>1. PICK i \in 1 .. run.next - 1 : p = run.change.partition /\ run.decisions[i] = n
        BY <1>0, <2>3 DEF RunInv, RunOutputs
      <3> QED BY <1>4, <3>1
    <2>4. ASSUME run.next = Len(run.decisions) + 1, NEW i \in 1 .. Len(run.decisions)
          PROVE  outputs[run.decisions[i]][run.change.partition] >= runs
      <3>1. i \in 1 .. run.next - 1
        BY <1>4, <2>4
      <3>2. outputs[run.decisions[i]][run.change.partition] = runs
        BY <1>0, <3>1 DEF RunInv, RunOutputs
      <3> QED BY <1>4, <3>2
    <2>5. ASSUME NEW e \in 1 .. Len(r.events), r.events[e].kind = "committed"
          PROVE  r.events[e].digest = runs
      <3>1. e \in 1 .. Len(run.events) /\ r.events[e] = run.events[e]
        BY <2>5 DEF Closes
      <3> QED BY <1>0, <2>5, <3>1 DEF RunInv, RunEvents
    <2>6. /\ \A n \in StableIds, p \in Partitions : outputs'[n][p] = r.run =>
                 /\ p = r.change.partition
                 /\ \E i \in 1 .. Len(r.decisions) : r.decisions[i] = n
          /\ r.completed => \A i \in 1 .. Len(r.decisions) :
                 outputs'[r.decisions[i]][r.change.partition] >= r.run
          /\ \A e \in 1 .. Len(r.events) : r.events[e].kind = "committed" => r.events[e].digest = r.run
      BY <1>5, <2>3, <2>4, <2>5
    <2>7. ASSUME NEW h \in 1 .. L + 1
          PROVE  /\ SoundPlan(history'[h].decisions)
                 /\ \A n \in StableIds, p \in Partitions : outputs'[n][p] = history'[h].run =>
                       /\ p = history'[h].change.partition
                       /\ \E i \in 1 .. Len(history'[h].decisions) : history'[h].decisions[i] = n
                 /\ history'[h].completed => \A i \in 1 .. Len(history'[h].decisions) :
                       outputs'[history'[h].decisions[i]][history'[h].change.partition] >= history'[h].run
                 /\ \A e \in 1 .. Len(history'[h].events) : history'[h].events[e].kind = "committed" =>
                       history'[h].events[e].digest = history'[h].run
      <3>1. CASE h = L + 1
        BY <1>2, <2>2, <2>6, <3>1
      <3>2. CASE h # L + 1
        <4>1. h \in 1 .. L
          BY <3>2
        <4> QED BY <2>1, <4>1, Zenon
      <3> QED BY <3>1, <3>2, Zenon
    <2> QED BY <1>2, <2>7 DEF ReceiptInv
  <1>9. ASSUME aborted' = {} PROVE ExplainInv'
    <2>0. ExplainInv
      BY <1>0, <1>9
    <2>1. \A k \in 1 .. L + 1 : \A n, p, v : LastBefore(k, n, p, v) => LastBefore(k, n, p, v)'
      BY <1>0, <1>1, LastStays DEF Closes
    <2>2. \A n, p : Logged(L + 1, n, p)' <=>
                       /\ run.change.partition = p
                       /\ \E e \in 1 .. Len(r.events) : r.events[e].kind = "committed" /\ r.events[e].node = n
      BY <1>2, <1>5 DEF Logged
    <2>3. ASSUME NEW n \in StableIds, NEW p \in Partitions
          PROVE  LastBefore(L + 2, n, p, outputs[n][p])'
      <3>1. CASE outputs[n][p] = runs
        <4>1. PICK i \in 1 .. run.next - 1 : p = run.change.partition /\ run.decisions[i] = n
          BY <1>0, <3>1 DEF RunInv, RunOutputs
        <4>2. PICK e \in 1 .. Len(run.events) : run.events[e].kind = "committed" /\ run.events[e].node = n
          BY <1>0, <4>1, Zenon DEF RunInv, RunEvents
        <4>3. e \in 1 .. Len(r.events) /\ r.events[e] = run.events[e]
          BY <1>4, <1>5 DEF Closes
        <4>4. Logged(L + 1, n, p)' /\ history'[L + 1].run = runs
          BY <1>2, <1>5, <2>2, <4>1, <4>2, <4>3
        <4>5. L + 1 \in 1 .. (L + 2) - 1 /\ \A g \in L + 1 + 1 .. (L + 2) - 1 : FALSE
          OBVIOUS
        <4> QED BY <3>1, <4>4, <4>5, Zenon DEF LastBefore
      <3>2. CASE outputs[n][p] # runs
        <4>1. LastBefore(L + 1, n, p, outputs[n][p])
          BY <1>1, <2>0, <3>2 DEF ExplainInv
        <4>2. LastBefore(L + 1, n, p, outputs[n][p])'
          <5>1. PICK v : v = outputs[n][p]
            OBVIOUS
          <5>2. LastBefore(L + 1, n, p, v)'
            BY <2>1, <4>1, <5>1
          <5> QED BY <5>1, <5>2
        <4>3. ~ Logged(L + 1, n, p)'
          <5>1. SUFFICES ASSUME Logged(L + 1, n, p)' PROVE FALSE
            OBVIOUS
          <5>2. PICK e \in 1 .. Len(r.events) : r.events[e].kind = "committed" /\ r.events[e].node = n
            BY <2>2, <5>1
          <5>3. run.change.partition = p /\ e \in 1 .. Len(run.events) /\ r.events[e] = run.events[e]
            BY <2>2, <5>1, <5>2 DEF Closes
          <5>4. PICK i \in 1 .. run.next - 1 : run.decisions[i] = n
            BY <1>0, <5>2, <5>3, Zenon DEF RunInv, RunEvents
          <5> QED BY <1>0, <3>2, <5>3, <5>4, Zenon DEF RunInv, RunOutputs
        <4>4. (L + 2) - 1 = L + 1 /\ (L + 1) - 1 = L /\ \A g \in 1 .. L + 1 : g = L + 1 \/ g \in 1 .. L
          OBVIOUS
        <4>5. PICK v : v = outputs'[n][p]
          OBVIOUS
        <4>6. CASE v = 0 /\ \A h \in 1 .. L : ~ Logged(h, n, p)'
          <5>1. \A h \in 1 .. L + 1 : ~ Logged(h, n, p)'
            BY <4>3, <4>4, <4>6
          <5> QED BY <4>4, <4>5, <4>6, <5>1 DEF LastBefore
        <4>7. CASE \E h \in 1 .. L : /\ Logged(h, n, p)' /\ v = history'[h].run
                                      /\ \A g \in h + 1 .. L : ~ Logged(g, n, p)'
          <5>1. PICK h \in 1 .. L : /\ Logged(h, n, p)' /\ v = history'[h].run
                                    /\ \A g \in h + 1 .. L : ~ Logged(g, n, p)'
            BY <4>7, Zenon
          <5>2. \A g \in h + 1 .. L + 1 : g = L + 1 \/ g \in h + 1 .. L
            OBVIOUS
          <5>3. \A g \in h + 1 .. L + 1 : ~ Logged(g, n, p)'
            BY <4>3, <5>1, <5>2
          <5>4. h \in 1 .. L + 1
            OBVIOUS
          <5> QED BY <4>4, <4>5, <5>1, <5>3, <5>4, Zenon DEF LastBefore
        <4> QED BY <4>2, <4>4, <4>5, <4>6, <4>7, Zenon DEF LastBefore
      <3> QED BY <3>1, <3>2
    <2>4. ASSUME NEW h \in 1 .. L + 1, NEW e \in 1 .. Len(history'[h].events), history'[h].events[e].kind = "committed"
          PROVE  LastBefore(h, history[h].events[e].node, history[h].change.partition, history[h].events[e].replaced)'
      <3>1. PICK n, p, v : n = history'[h].events[e].node /\ p = history'[h].change.partition /\ v = history'[h].events[e].replaced
        BY Zenon
      <3>2. LastBefore(h, n, p, v)
        <4>1. CASE h = L + 1
          <5>1. e \in 1 .. Len(r.events) /\ r.events[e].kind = "committed" /\ history'[h] = r
            BY <1>2, <2>4, <4>1
          <5>2. e \in 1 .. Len(run.events) /\ r.events[e] = run.events[e]
            BY <5>1 DEF Closes
          <5>3. LastBefore(L + 1, run.events[e].node, run.change.partition, run.events[e].replaced)
            BY <1>1, <2>0, <5>1, <5>2 DEF ExplainInv
          <5> QED BY <1>5, <3>1, <4>1, <5>1, <5>2, <5>3
        <4>2. CASE h # L + 1
          <5>1. h \in 1 .. L /\ history'[h] = history[h]
            BY <1>2, <4>2
          <5> QED BY <1>1, <2>0, <2>4, <3>1, <5>1 DEF ExplainInv
        <4> QED BY <4>1, <4>2
      <3>3. LastBefore(h, n, p, v)'
        BY <2>1, <3>2
      <3> QED BY <3>1, <3>3
    <2>5. Len(history') + 1 = L + 2
      BY <1>2
    <2> QED BY <1>2, <2>3, <2>4, <2>5 DEF ExplainInv
  <1> QED BY <1>3, <1>7, <1>8, <1>9 DEF SchedulerInv

LEMMA RunExhausted ==
    ASSUME SchedulerInv, AttemptsExhausted
    PROVE  SchedulerInv'
  <1>0. Pending /\ run # None /\ runs \in Nat
    BY DEF AttemptsExhausted, Pending, SchedulerInv, SchedulerShape
  <1>1. PICK ev : ev = Event("failed", 0, 0)
    OBVIOUS
  <1>2. ev \in Events /\ ev.kind = "failed"
    BY <1>0, <1>1, EventType
  <1>3. run \in Runs /\ run.events \in Seq(Events)
    BY <1>0, PendingNode
  <1>4. PICK evs \in Seq(Events) : evs = Append(run.events, ev)
    <2>1. Append(run.events, ev) \in Seq(Events)
      BY <1>2, <1>3
    <2> QED BY <2>1, Zenon
  <1>5. PICK r : r = Receipt(FALSE, evs)
    BY Zenon
  <1>6. /\ Len(evs) = Len(run.events) + 1 /\ Len(run.events) \in Nat /\ evs[Len(run.events) + 1] = ev
        /\ \A e \in 1 .. Len(run.events) : evs[e] = run.events[e]
    BY <1>2, <1>3, <1>4
  <1>7. /\ r.run = runs /\ r.change = run.change /\ r.decisions = run.decisions /\ r.events = evs
        /\ r.completed = FALSE
    BY <1>5 DEF Receipt
  <1>8. r \in Receipts
    BY <1>0, <1>3, <1>5 DEF Receipt, Receipts, Runs
  <1>9. Closes(r)
    BY <1>2, <1>6, <1>7, <1>8 DEF Closes
  <1>10. history' = Append(history, r) /\ run' = None /\ UNCHANGED <<outputs, runs, aborted>>
    BY <1>1, <1>4, <1>5 DEF AttemptsExhausted
  <1> QED BY <1>0, <1>9, <1>10, RunRecorded

LEMMA RunFinishes ==
    ASSUME SchedulerInv, Finish
    PROVE  SchedulerInv'
  <1>0. run # None /\ runs \in Nat /\ run \in Runs /\ run.next \in 1 .. Len(run.decisions) + 1
    BY DEF Finish, SchedulerInv, SchedulerShape, RunInv
  <1>1. PICK r : r = Receipt(TRUE, run.events)
    BY Zenon
  <1>2. /\ r.run = runs /\ r.change = run.change /\ r.decisions = run.decisions /\ r.events = run.events
        /\ r.completed = TRUE
    BY <1>1 DEF Receipt
  <1>3. r \in Receipts
    BY <1>0, <1>1 DEF Receipt, Receipts, Runs
  <1>4. run.events \in Seq(Events) /\ run.next \in Nat /\ run.decisions \in Seq(StableIds)
    BY <1>0 DEF Runs
  <1>5. run.next = Len(run.decisions) + 1
    BY <1>0, <1>4 DEF Finish
  <1>6. Closes(r)
    BY <1>2, <1>3, <1>4, <1>5 DEF Closes
  <1>7. history' = Append(history, r) /\ run' = None /\ UNCHANGED <<outputs, runs, aborted>>
    BY <1>1 DEF Finish
  <1> QED BY <1>0, <1>6, <1>7, RunRecorded

LEMMA CommitsAreLogged ==
    ASSUME SchedulerInv, NEW n \in StableIds, NEW p \in Partitions
    PROVE  /\ \A c \in Committed(n, p) :
                 /\ c[1] \in 1 .. Len(history) /\ Logged(c[1], n, p)
                 /\ history[c[1]].events[c[2]].digest = history[c[1]].run
                 /\ aborted = {} => LastBefore(c[1], n, p, history[c[1]].events[c[2]].replaced)
           /\ \A h \in 1 .. Len(history) : Logged(h, n, p) => \E c \in Committed(n, p) : c[1] = h
  <1>0. SchedulerShape /\ ReceiptInv /\ (aborted = {} => ExplainInv)
    BY DEF SchedulerInv
  <1>1. /\ DOMAIN history = 1 .. Len(history)
        /\ \A h \in 1 .. Len(history) : DOMAIN history[h].events = 1 .. Len(history[h].events)
    BY <1>0, ReceiptTypes DEF SchedulerShape
  <1>2. ASSUME NEW c \in Committed(n, p)
        PROVE  /\ c[1] \in 1 .. Len(history) /\ Logged(c[1], n, p)
               /\ history[c[1]].events[c[2]].digest = history[c[1]].run
               /\ aborted = {} => LastBefore(c[1], n, p, history[c[1]].events[c[2]].replaced)
    <2>1. PICK h \in DOMAIN history : c \in {h} \X DOMAIN history[h].events
      BY <1>2 DEF Committed
    <2>2. PICK e \in DOMAIN history[h].events : c = <<h, e>>
      BY <2>1
    <2>3. c[1] = h /\ c[2] = e
      BY <2>2
    <2>4. /\ history[h].change.partition = p /\ history[h].events[e].kind = "committed"
          /\ history[h].events[e].node = n
      BY <1>2, <2>3 DEF Committed
    <2>5. h \in 1 .. Len(history) /\ e \in 1 .. Len(history[h].events)
      BY <1>1
    <2>6. Logged(h, n, p)
      BY <2>4, <2>5 DEF Logged
    <2>7. history[h].events[e].digest = history[h].run
      BY <1>0, <2>4, <2>5 DEF ReceiptInv
    <2>8. aborted = {} => LastBefore(h, n, p, history[h].events[e].replaced)
      BY <1>0, <2>4, <2>5 DEF ExplainInv
    <2> QED BY <2>3, <2>5, <2>6, <2>7, <2>8
  <1>3. ASSUME NEW h \in 1 .. Len(history), Logged(h, n, p)
        PROVE  \E c \in Committed(n, p) : c[1] = h
    <2>1. PICK e \in 1 .. Len(history[h].events) :
             /\ history[h].change.partition = p
             /\ history[h].events[e].kind = "committed" /\ history[h].events[e].node = n
      BY <1>3 DEF Logged
    <2>2. <<h, e>> \in UNION {{g} \X DOMAIN history[g].events : g \in DOMAIN history}
      <3>1. h \in DOMAIN history /\ <<h, e>> \in {h} \X DOMAIN history[h].events
        BY <1>1
      <3> QED BY <3>1
    <2>3. PICK c : c = <<h, e>>
      BY Zenon
    <2>4. c[1] = h /\ c[2] = e
      BY <2>3
    <2>5. c \in Committed(n, p)
      BY <2>1, <2>2, <2>3, <2>4 DEF Committed
    <2> QED BY <2>4, <2>5
  <1> QED BY <1>2, <1>3

CommittedBefore(k, n, p) == {d \in Committed(n, p) : d[1] < k}

LatestOf(E) == CHOOSE x \in E : \A d \in E : d[1] <= x[1]

DigestOf(E) == IF E = {} THEN 0 ELSE history[LatestOf(E)[1]].events[LatestOf(E)[2]].digest

\* What the receipts before k say of an output is what the last commit among
\* them wrote.
LEMMA LastCommitDecides ==
    ASSUME SchedulerInv, NEW n \in StableIds, NEW p \in Partitions,
           NEW k \in 1 .. Len(history) + 1, NEW v, LastBefore(k, n, p, v)
    PROVE  v = DigestOf(CommittedBefore(k, n, p))
  <1> DEFINE E == CommittedBefore(k, n, p)
             c == LatestOf(E)
  <1>0. Len(history) \in Nat /\ k \in Nat
    BY DEF SchedulerInv, SchedulerShape
  <1>1. /\ \A d \in E : /\ d \in Committed(n, p) /\ d[1] \in 1 .. k - 1 /\ Logged(d[1], n, p)
                        /\ history[d[1]].events[d[2]].digest = history[d[1]].run
        /\ \A h \in 1 .. k - 1 : Logged(h, n, p) => \E d \in E : d[1] = h
    BY <1>0, CommitsAreLogged DEF CommittedBefore
  <1> HIDE DEF E
  <1>2. CASE \A h \in 1 .. k - 1 : ~ Logged(h, n, p)
    <2>1. E = {}
      BY <1>1, <1>2
    <2>2. v = 0
      BY <1>2 DEF LastBefore
    <2> QED BY <2>1, <2>2 DEF E, DigestOf
  <1>3. CASE ~ \A h \in 1 .. k - 1 : ~ Logged(h, n, p)
    <2>1. PICK h \in 1 .. k - 1 : /\ Logged(h, n, p) /\ v = history[h].run
                                  /\ \A g \in h + 1 .. k - 1 : ~ Logged(g, n, p)
      BY <1>3 DEF LastBefore
    <2>2. PICK x \in E : x[1] = h
      BY <1>1, <2>1
    <2>3. \A d \in E : d[1] <= x[1]
      <3> SUFFICES ASSUME NEW d \in E, d[1] > h PROVE FALSE
        BY <1>0, <1>1, <2>2
      <3>1. d[1] \in h + 1 .. k - 1 /\ Logged(d[1], n, p)
        BY <1>0, <1>1
      <3> QED BY <2>1, <3>1
    <2>4. c \in E /\ \A d \in E : d[1] <= c[1]
      BY <2>2, <2>3 DEF LatestOf
    <2> HIDE DEF c
    <2>5. c[1] = h
      <3>1. c[1] <= h /\ h <= c[1] /\ c[1] \in 1 .. k - 1
        BY <1>1, <2>2, <2>3, <2>4
      <3> QED BY <1>0, <3>1
    <2>6. history[c[1]].events[c[2]].digest = v
      BY <1>1, <2>1, <2>4, <2>5
    <2>7. v = DigestOf(E)
      BY <2>2, <2>6 DEF DigestOf, c
    <2> QED BY <2>7 DEF E
  <1> QED BY <1>2, <1>3

LEMMA OutputsExplained ==
    ASSUME SchedulerInv
    PROVE  OutputsAreAccountedFor
  <1>0. SchedulerShape /\ ReceiptInv /\ (aborted = {} => ExplainInv) /\ Len(history) \in Nat
    BY DEF SchedulerInv, SchedulerShape
  <1>1. StaleOnlyAfterIncompleteRun
    <2> SUFFICES ASSUME NEW n \in StableIds \ {0}, NEW p \in Partitions, NEW d \in DependsOn(n) \cap StableIds,
                        outputs[n][p] < outputs[d][p], CompletedRun(outputs[d][p])
                 PROVE  FALSE
      BY DEF StaleOnlyAfterIncompleteRun
    <2>1. PICK h \in 1 .. Len(history) : history[h].run = outputs[d][p] /\ history[h].completed
      BY <1>0 DEF CompletedRun, SchedulerShape
    <2>2. PICK r : r = history[h]
      OBVIOUS
    <2>3. /\ SoundPlan(r.decisions) /\ p = r.change.partition
          /\ \E i \in 1 .. Len(r.decisions) : r.decisions[i] = d
          /\ \A i \in 1 .. Len(r.decisions) : outputs[r.decisions[i]][r.change.partition] >= r.run
      BY <1>0, <2>1, <2>2 DEF ReceiptInv
    <2>4. PICK j \in 1 .. Len(r.decisions) : r.decisions[j] = n
      BY <2>3 DEF SoundPlan
    <2>5. outputs[n][p] >= outputs[d][p]
      BY <2>1, <2>2, <2>3, <2>4
    <2>6. outputs[n][p] \in Nat /\ outputs[d][p] \in Nat
      BY <1>0 DEF SchedulerShape
    <2> QED BY <2>5, <2>6
  <1>2. ASSUME run = None, aborted = {} PROVE ReceiptsExplain
    <2> SUFFICES ASSUME NEW n \in StableIds, NEW p \in Partitions
                 PROVE  LET commits == Committed(n, p)
                            Last    == CHOOSE c \in commits : \A d \in commits : d[1] <= c[1]
                        IN  IF commits = {} THEN outputs[n][p] = 0
                            ELSE /\ outputs[n][p] = history[Last[1]].events[Last[2]].digest
                                 /\ \A c \in commits :
                                       LET earlier == {d \in commits : d[1] < c[1]}
                                           before  == CHOOSE d \in earlier : \A o \in earlier : o[1] <= d[1]
                                       IN  history[c[1]].events[c[2]].replaced =
                                               IF earlier = {} THEN 0
                                               ELSE history[before[1]].events[before[2]].digest
      BY Zenon DEF ReceiptsExplain
    <2> DEFINE commits == Committed(n, p)
               Last == CHOOSE c \in commits : \A d \in commits : d[1] <= c[1]
    <2>1. commits = CommittedBefore(Len(history) + 1, n, p)
      BY <1>0, CommitsAreLogged DEF CommittedBefore
    <2>2. LastBefore(Len(history) + 1, n, p, outputs[n][p])
      BY <1>0, <1>2 DEF ExplainInv
    <2>3. Len(history) + 1 \in 1 .. Len(history) + 1
      BY <1>0
    <2>4. PICK v : v = outputs[n][p] /\ LastBefore(Len(history) + 1, n, p, v)
      BY <2>2
    <2>5. v = IF commits = {} THEN 0 ELSE history[Last[1]].events[Last[2]].digest
      <3>1. v = DigestOf(commits)
        BY <2>1, <2>3, <2>4, LastCommitDecides
      <3> HIDE DEF commits
      <3> QED BY <3>1, Zenon DEF DigestOf, LatestOf
    <2>6. ASSUME NEW c \in commits
          PROVE  LET earlier == {d \in commits : d[1] < c[1]}
                     before  == CHOOSE d \in earlier : \A o \in earlier : o[1] <= d[1]
                 IN  history[c[1]].events[c[2]].replaced =
                         IF earlier = {} THEN 0 ELSE history[before[1]].events[before[2]].digest
      <3> DEFINE earlier == {d \in commits : d[1] < c[1]}
                 before == CHOOSE d \in earlier : \A o \in earlier : o[1] <= d[1]
      <3>1. PICK w : w = history[c[1]].events[c[2]].replaced
        OBVIOUS
      <3>2. LastBefore(c[1], n, p, w) /\ c[1] \in 1 .. Len(history) + 1
        BY <1>0, <1>2, <3>1, CommitsAreLogged
      <3>3. w = IF earlier = {} THEN 0 ELSE history[before[1]].events[before[2]].digest
        <4>1. w = DigestOf(CommittedBefore(c[1], n, p))
          BY <3>2, LastCommitDecides
        <4>2. w = DigestOf(earlier)
          BY <4>1 DEF CommittedBefore
        <4> HIDE DEF earlier
        <4> QED BY <4>2, Zenon DEF DigestOf, LatestOf
      <3> HIDE DEF earlier, before
      <3>4. history[c[1]].events[c[2]].replaced = IF earlier = {} THEN 0 ELSE history[before[1]].events[before[2]].digest
        BY <3>1, <3>3
      <3> QED BY <3>4, Zenon DEF earlier, before
    <2>7. commits = {} => outputs[n][p] = 0
      BY <2>4, <2>5
    <2>8. commits # {} => outputs[n][p] = history[Last[1]].events[Last[2]].digest
      BY <2>4, <2>5, Zenon
    <2> QED BY <2>6, <2>7, <2>8, Zenon
  <1> QED BY <1>1, <1>2 DEF OutputsAreAccountedFor, ReceiptsExplainOutputs

LEMMA SchedulerSteps ==
    ASSUME SchedulerInv, [SessionsNext]_allVars
    PROVE  SchedulerInv'
  <1>1. CASE part = "scheduler" /\ Next
    <2>1. CASE \E change \in Changes : Begin(change)
      BY <2>1, RunBegins
    <2>2. CASE AttemptSucceeds
      BY <2>2, RunCommits
    <2>3. CASE AttemptRetried
      BY <2>3, RunRetried
    <2>4. CASE AttemptsExhausted
      BY <2>4, RunExhausted
    <2>5. CASE DigestRejected
      BY <2>5, RunRejected
    <2>6. CASE Finish
      BY <2>6, RunFinishes
    <2> QED BY <1>1, <2>1, <2>2, <2>3, <2>4, <2>5, <2>6 DEF Next
  <1>2. CASE UNCHANGED schedulerVars
    <2>1. UNCHANGED <<outputs, history, run, runs, aborted>>
      BY <1>2 DEF schedulerVars, vars
    <2>2. SchedulerShape'
      BY <2>1 DEF SchedulerInv, SchedulerShape
    <2>3. RunInv'
      <3>1. run # None => RunOutputs' /\ RunEvents'
        BY <2>1 DEF SchedulerInv, RunInv, RunOutputs, RunEvents
      <3> QED BY <2>1, <3>1 DEF SchedulerInv, RunInv
    <2>4. AgesInv'
      BY <2>1 DEF SchedulerInv, AgesInv
    <2>5. ReceiptInv'
      BY <2>1 DEF SchedulerInv, ReceiptInv
    <2>6. \A k, n, p, v : LastBefore(k, n, p, v)' <=> LastBefore(k, n, p, v)
      <3>1. \A h, n, p : Logged(h, n, p)' <=> Logged(h, n, p)
        BY <2>1 DEF Logged
      <3> QED BY <2>1, <3>1 DEF LastBefore
    <2>7. aborted' = {} => ExplainInv'
      BY <2>1, <2>6 DEF SchedulerInv, ExplainInv
    <2> QED BY <2>1, <2>2, <2>3, <2>4, <2>5, <2>7 DEF SchedulerInv
  <1>3. (part = "scheduler" /\ Next) \/ UNCHANGED schedulerVars
    BY DEF SessionsNext, Still, allVars
  <1> QED BY <1>1, <1>2, <1>3

(* Whatever workflow the scheduler runs, however many runs there are and   *)
(* wherever they stop: an output older than one it depends on is never     *)
(* vouched for by a completed run, and while no run ended in an error the  *)
(* receipts say which run wrote each output and what it replaced           *)
(* (IncrementalScheduler::execute, affected_decisions).                    *)
THEOREM OutputsAreAccountedForTheorem == SessionsSpec => []OutputsAreAccountedFor
  <1>1. SessionsInit => SchedulerInv
    BY SchedulerStarts DEF SessionsInit
  <1> QED BY <1>1, SchedulerSteps, OutputsExplained, PTL DEF SessionsSpec


-----------------------------------------------------------------------------
(* Endpoints.  What Vec::retain leaves.                                    *)

KeepNext(c, x, X) == IF x \in X THEN Append(c, x) ELSE c

IsKeeping(f, s, X, m) ==
    f = [n \in 0 .. m |-> IF n = 0 THEN << >> ELSE KeepNext(f[n - 1], s[n], X)]

LEMMA KeepingExists ==
    ASSUME NEW s, NEW X, NEW N \in Nat
    PROVE  \E f : IsKeeping(f, s, X, N)
  <1> DEFINE T == {m \in Nat : ~ \E f : IsKeeping(f, s, X, m)}
  <1> SUFFICES ASSUME T # {} PROVE FALSE
    OBVIOUS
  <1>1. PICK m \in T : \A o \in T : m <= o
    <2>1. T \subseteq Nat
      OBVIOUS
    <2> HIDE DEF T
    <2> QED BY <2>1, LeastNatural, Zenon
  <1>2. CASE m = 0
    <2> DEFINE f == [k \in 0 .. 0 |-> << >>]
    <2>1. f = [k \in 0 .. 0 |-> IF k = 0 THEN << >> ELSE KeepNext(f[k - 1], s[k], X)]
      <3>1. \A k \in 0 .. 0 : k = 0
        OBVIOUS
      <3> QED BY <3>1
    <2> QED BY <1>1, <1>2, <2>1, Zenon DEF IsKeeping
  <1>3. CASE m # 0
    <2>1. m - 1 \in Nat /\ m - 1 \notin T
      BY <1>1, <1>3
    <2>2. PICK f : IsKeeping(f, s, X, m - 1)
      BY <2>1
    <2> DEFINE g == [k \in 0 .. m |-> IF k < m THEN f[k] ELSE KeepNext(f[m - 1], s[m], X)]
    <2>3. \A k \in 0 .. m : g[k] = IF k = 0 THEN << >> ELSE KeepNext(g[k - 1], s[k], X)
      <3> SUFFICES ASSUME NEW k \in 0 .. m
                   PROVE  g[k] = IF k = 0 THEN << >> ELSE KeepNext(g[k - 1], s[k], X)
        OBVIOUS
      <3>1. CASE k < m
        <4>1. k \in 0 .. m - 1 /\ g[k] = f[k] /\ (k # 0 => k - 1 \in 0 .. m /\ k - 1 < m /\ g[k - 1] = f[k - 1])
          BY <2>1, <3>1, <1>1
        <4>2. f[k] = IF k = 0 THEN << >> ELSE KeepNext(f[k - 1], s[k], X)
          BY <2>2, <4>1 DEF IsKeeping
        <4> HIDE DEF g
        <4> QED BY <4>1, <4>2
      <3>2. CASE k = m
        <4>1. k # 0 /\ k - 1 \in 0 .. m /\ k - 1 < m
          BY <1>3, <3>2, <1>1
        <4>2. g[k - 1] = f[m - 1] /\ g[k] = KeepNext(f[m - 1], s[m], X)
          BY <3>2, <4>1
        <4> HIDE DEF g
        <4> QED BY <3>2, <4>1, <4>2
      <3> QED BY <3>1, <3>2, <1>1
    <2>4. g = [k \in 0 .. m |-> IF k = 0 THEN << >> ELSE KeepNext(g[k - 1], s[k], X)]
      <3>1. DOMAIN g = 0 .. m /\ g = [k \in DOMAIN g |-> g[k]]
        OBVIOUS
      <3> HIDE DEF g
      <3> QED BY <2>3, <3>1
    <2> HIDE DEF g
    <2> QED BY <1>1, <2>4 DEF IsKeeping
  <1> QED BY <1>2, <1>3

OneByOne(f, s, X, m) ==
    f[0] = << >> /\ \A n \in 1 .. m : f[n] = KeepNext(f[n - 1], s[n], X)

LEMMA KeepingFollows ==
    ASSUME NEW s, NEW X, NEW N \in Nat, NEW f, IsKeeping(f, s, X, N)
    PROVE  OneByOne(f, s, X, N)
  <1>1. PICK g : g = [n \in 0 .. N |-> IF n = 0 THEN << >> ELSE KeepNext(f[n - 1], s[n], X)]
    BY Zenon
  <1>2. f = g
    BY <1>1, Zenon DEF IsKeeping
  <1>3. g[0] = << >>
    BY <1>1
  <1>4. \A n \in 1 .. N : g[n] = KeepNext(f[n - 1], s[n], X)
    <2> SUFFICES ASSUME NEW n \in 1 .. N PROVE g[n] = KeepNext(f[n - 1], s[n], X)
      OBVIOUS
    <2>1. n \in 0 .. N /\ n # 0
      OBVIOUS
    <2> QED BY <1>1, <2>1, Zenon
  <1> QED BY <1>2, <1>3, <1>4 DEF OneByOne

LEMMA RetainIsKeeping ==
    ASSUME NEW s, NEW X, Len(s) \in Nat
    PROVE  \E f : OneByOne(f, s, X, Len(s)) /\ Registry!retain(s, X) = f[Len(s)]
  <1>1. \E f : IsKeeping(f, s, X, Len(s))
    BY KeepingExists
  <1> DEFINE f == CHOOSE f : IsKeeping(f, s, X, Len(s))
  <1>2. IsKeeping(f, s, X, Len(s))
    BY <1>1
  <1>3. Registry!retain(s, X) = f[Len(s)]
    BY DEF Registry!retain, IsKeeping, KeepNext
  <1> HIDE DEF f
  <1>4. OneByOne(f, s, X, Len(s))
    BY <1>2, KeepingFollows
  <1> QED BY <1>3, <1>4

\* What is kept of the first n elements.
Kept(c, s, X, n) ==
    /\ \A i \in 1 .. Len(c) : \E k \in 1 .. n : c[i] = s[k] /\ s[k] \in X
    /\ \A k \in 1 .. n : s[k] \in X => \E i \in 1 .. Len(c) : c[i] = s[k]

LEMMA KeptGrows ==
    ASSUME NEW S, NEW s \in Seq(S), NEW X, NEW c \in Seq(S), NEW n \in 1 .. Len(s), Kept(c, s, X, n - 1)
    PROVE  KeepNext(c, s[n], X) \in Seq(S) /\ Kept(KeepNext(c, s[n], X), s, X, n)
  <1>0. n - 1 \in Nat /\ Len(c) \in Nat /\ s[n] \in S /\ \A k \in 1 .. n : k = n \/ k \in 1 .. n - 1
    OBVIOUS
  <1>1. CASE s[n] \notin X
    <2>1. KeepNext(c, s[n], X) = c
      BY <1>1 DEF KeepNext
    <2>2. Kept(c, s, X, n)
      BY <1>0, <1>1 DEF Kept
    <2> QED BY <2>1, <2>2
  <1>2. CASE s[n] \in X
    <2>1. PICK d : d = Append(c, s[n])
      BY Zenon
    <2>2. KeepNext(c, s[n], X) = d
      BY <1>2, <2>1 DEF KeepNext
    <2>3. /\ d \in Seq(S) /\ Len(d) = Len(c) + 1 /\ d[Len(c) + 1] = s[n]
          /\ \A i \in 1 .. Len(c) : d[i] = c[i]
      BY <1>0, <2>1
    <2>4. ASSUME NEW i \in 1 .. Len(d) PROVE \E k \in 1 .. n : d[i] = s[k] /\ s[k] \in X
      <3>1. CASE i = Len(c) + 1
        BY <1>2, <2>3, <3>1
      <3>2. CASE i # Len(c) + 1
        <4>1. i \in 1 .. Len(c)
          BY <1>0, <2>3, <3>2
        <4>2. PICK k \in 1 .. n - 1 : c[i] = s[k] /\ s[k] \in X
          BY <4>1 DEF Kept
        <4>3. k \in 1 .. n
          BY <1>0
        <4> QED BY <2>3, <4>1, <4>2, <4>3
      <3> QED BY <3>1, <3>2
    <2>5. ASSUME NEW k \in 1 .. n, s[k] \in X PROVE \E i \in 1 .. Len(d) : d[i] = s[k]
      <3>1. CASE k = n
        <4>1. Len(c) + 1 \in 1 .. Len(d)
          BY <1>0, <2>3
        <4> QED BY <2>3, <3>1, <4>1
      <3>2. CASE k # n
        <4>1. PICK i \in 1 .. Len(c) : c[i] = s[k]
          BY <1>0, <2>5, <3>2 DEF Kept
        <4>2. i \in 1 .. Len(d)
          BY <1>0, <2>3
        <4> QED BY <2>3, <4>1, <4>2
      <3> QED BY <3>1, <3>2
    <2>6. Kept(d, s, X, n)
      BY <2>4, <2>5 DEF Kept
    <2> QED BY <2>2, <2>3, <2>6
  <1> QED BY <1>1, <1>2

\* retain keeps exactly the elements asked for.
LEMMA RetainKeeps ==
    ASSUME NEW S, NEW s \in Seq(S), NEW X
    PROVE  Registry!retain(s, X) \in Seq(S) /\ Kept(Registry!retain(s, X), s, X, Len(s))
  <1>1. PICK N \in Nat : N = Len(s)
    OBVIOUS
  <1>2. PICK f : OneByOne(f, s, X, N) /\ Registry!retain(s, X) = f[N]
    BY <1>1, RetainIsKeeping
  <1> DEFINE T == {n \in 0 .. N : ~ (f[n] \in Seq(S) /\ Kept(f[n], s, X, n))}
  <1>3. T = {}
    <2> SUFFICES ASSUME T # {} PROVE FALSE
      OBVIOUS
    <2>1. PICK n \in T : \A o \in T : n <= o
      <3>1. T \subseteq Nat
        OBVIOUS
      <3> HIDE DEF T
      <3> QED BY <3>1, LeastNatural, Zenon
    <2>2. n # 0
      <3>1. << >> \in Seq(S) /\ Kept(<< >>, s, X, 0)
        BY DEF Kept
      <3>2. f[0] = << >>
        BY <1>2 DEF OneByOne
      <3> QED BY <2>1, <3>1, <3>2, Zenon
    <2>3. n \in 1 .. N /\ n - 1 \in 0 .. N /\ n - 1 \notin T
      BY <2>1, <2>2
    <2>4. PICK c : c = f[n - 1] /\ c \in Seq(S) /\ Kept(c, s, X, n - 1)
      BY <2>3
    <2>5. f[n] = KeepNext(c, s[n], X)
      BY <1>2, <2>3, <2>4 DEF OneByOne
    <2>6. f[n] \in Seq(S) /\ Kept(f[n], s, X, n)
      BY <1>1, <2>3, <2>4, <2>5, KeptGrows
    <2> QED BY <2>1, <2>6
  <1>4. f[N] \in Seq(S) /\ Kept(f[N], s, X, N)
    <2>1. N \in 0 .. N
      OBVIOUS
    <2> QED BY <1>3, <2>1
  <1> QED BY <1>1, <1>2, <1>4


\* Two runs over the same elements keep the same.
LEMMA KeepingAgrees ==
    ASSUME NEW s, NEW t, NEW X, NEW Y, NEW m \in Nat, NEW f, NEW g,
           OneByOne(f, s, X, m), OneByOne(g, t, Y, m),
           \A n \in 1 .. m : s[n] = t[n] /\ (s[n] \in X <=> t[n] \in Y)
    PROVE  f[m] = g[m]
  <1> DEFINE T == {n \in 0 .. m : f[n] # g[n]}
  <1>1. T = {}
    <2> SUFFICES ASSUME T # {} PROVE FALSE
      OBVIOUS
    <2>1. PICK n \in T : \A o \in T : n <= o
      <3>1. T \subseteq Nat
        OBVIOUS
      <3> HIDE DEF T
      <3> QED BY <3>1, LeastNatural, Zenon
    <2>2. n # 0
      BY <2>1 DEF OneByOne
    <2>3. n \in 1 .. m /\ f[n - 1] = g[n - 1]
      BY <2>1, <2>2
    <2>4. f[n] = KeepNext(f[n - 1], s[n], X) /\ g[n] = KeepNext(g[n - 1], t[n], Y)
      BY <2>3 DEF OneByOne
    <2>5. s[n] = t[n] /\ (s[n] \in X <=> t[n] \in Y)
      BY <2>3
    <2> QED BY <2>1, <2>3, <2>4, <2>5 DEF KeepNext
  <1> QED BY <1>1

LEMMA RetainAgrees ==
    ASSUME NEW S, NEW s \in Seq(S), NEW X, NEW Y, \A n \in 1 .. Len(s) : s[n] \in X <=> s[n] \in Y
    PROVE  Registry!retain(s, X) = Registry!retain(s, Y)
  <1>1. PICK m \in Nat : m = Len(s)
    OBVIOUS
  <1>2. PICK f : OneByOne(f, s, X, m) /\ Registry!retain(s, X) = f[m]
    BY <1>1, RetainIsKeeping
  <1>3. PICK g : OneByOne(g, s, Y, m) /\ Registry!retain(s, Y) = g[m]
    BY <1>1, RetainIsKeeping
  <1>4. f[m] = g[m]
    BY <1>1, <1>2, <1>3, KeepingAgrees
  <1> QED BY <1>2, <1>3, <1>4

LEMMA RetainAppended ==
    ASSUME NEW S, NEW s \in Seq(S), NEW x \in S, NEW X
    PROVE  Registry!retain(Append(s, x), X) = KeepNext(Registry!retain(s, X), x, X)
  <1>1. PICK m \in Nat : m = Len(s)
    OBVIOUS
  <1>2. PICK t : t = Append(s, x)
    BY Zenon
  <1>3. Len(t) = m + 1 /\ t[m + 1] = x /\ \A n \in 1 .. m : t[n] = s[n]
    BY <1>1, <1>2
  <1>4. PICK f : OneByOne(f, s, X, m) /\ Registry!retain(s, X) = f[m]
    BY <1>1, RetainIsKeeping
  <1>5. PICK g : OneByOne(g, t, X, m + 1) /\ Registry!retain(t, X) = g[m + 1]
    BY <1>3, RetainIsKeeping
  <1>6. OneByOne(g, t, X, m) /\ g[m + 1] = KeepNext(g[m], x, X)
    <2>1. m + 1 \in 1 .. m + 1 /\ (m + 1) - 1 = m /\ \A n \in 1 .. m : n \in 1 .. m + 1
      OBVIOUS
    <2> QED BY <1>3, <1>5, <2>1 DEF OneByOne
  <1>7. f[m] = g[m]
    BY <1>3, <1>4, <1>6, KeepingAgrees
  <1> QED BY <1>2, <1>4, <1>5, <1>6, <1>7

LEMMA RetainTwice ==
    ASSUME NEW S, NEW s \in Seq(S), NEW X, NEW Y
    PROVE  Registry!retain(Registry!retain(s, X), Y) = Registry!retain(s, X \cap Y)
  <1>1. PICK m \in Nat : m = Len(s)
    OBVIOUS
  <1>2. PICK f : OneByOne(f, s, X, m) /\ Registry!retain(s, X) = f[m]
    BY <1>1, RetainIsKeeping
  <1>3. PICK g : OneByOne(g, s, X \cap Y, m) /\ Registry!retain(s, X \cap Y) = g[m]
    BY <1>1, RetainIsKeeping
  <1> DEFINE T == {n \in 0 .. m : ~ (f[n] \in Seq(S) /\ Registry!retain(f[n], Y) = g[n])}
  <1>4. T = {}
    <2> SUFFICES ASSUME T # {} PROVE FALSE
      OBVIOUS
    <2>1. PICK n \in T : \A o \in T : n <= o
      <3>1. T \subseteq Nat
        OBVIOUS
      <3> HIDE DEF T
      <3> QED BY <3>1, LeastNatural, Zenon
    <2>2. n # 0
      <3>1. f[0] = << >> /\ g[0] = << >>
        BY <1>2, <1>3 DEF OneByOne
      <3>2. PICK e \in Seq(S) : e = << >> /\ Len(e) = 0
        <4>1. << >> \in Seq(S) /\ Len(<< >>) = 0
          OBVIOUS
        <4> QED BY <4>1, Zenon
      <3>3. PICK h : OneByOne(h, e, Y, 0) /\ Registry!retain(e, Y) = h[0]
        BY <3>2, RetainIsKeeping
      <3>4. Registry!retain(e, Y) = << >>
        BY <3>3 DEF OneByOne
      <3> QED BY <2>1, <3>1, <3>2, <3>4, Zenon
    <2>3. n \in 1 .. m /\ n - 1 \in 0 .. m /\ n - 1 \notin T
      BY <2>1, <2>2
    <2>4. PICK c, d : c = f[n - 1] /\ d = g[n - 1] /\ c \in Seq(S) /\ Registry!retain(c, Y) = d
      BY <2>3
    <2>5. PICK x \in S : x = s[n]
      BY <1>1, <2>3
    <2>6. f[n] = KeepNext(c, x, X) /\ g[n] = KeepNext(d, x, X \cap Y)
      BY <1>2, <1>3, <2>3, <2>4, <2>5, Zenon DEF OneByOne
    <2>7. CASE x \in X
      <3>1. f[n] = Append(c, x) /\ f[n] \in Seq(S)
        BY <2>4, <2>5, <2>6, <2>7 DEF KeepNext
      <3>2. Registry!retain(Append(c, x), Y) = KeepNext(d, x, Y)
        BY <2>4, RetainAppended
      <3>3. KeepNext(d, x, Y) = KeepNext(d, x, X \cap Y)
        BY <2>7 DEF KeepNext
      <3> QED BY <2>1, <2>6, <3>1, <3>2, <3>3, Zenon
    <2>8. CASE x \notin X
      <3>1. f[n] = c /\ g[n] = d
        BY <2>6, <2>8 DEF KeepNext
      <3> QED BY <2>1, <2>4, <3>1
    <2> QED BY <2>7, <2>8
  <1>5. m \in 0 .. m
    OBVIOUS
  <1> QED BY <1>2, <1>3, <1>4, <1>5

\* Elements that are apart stay apart.
Apart(c, R) == \A i, j \in 1 .. Len(c) : <<c[i], c[j]>> \in R => i = j

LEMMA RetainApart ==
    ASSUME NEW S, NEW s \in Seq(S), NEW X, NEW R, Apart(s, R)
    PROVE  Apart(Registry!retain(s, X), R)
  <1>1. PICK N \in Nat : N = Len(s)
    OBVIOUS
  <1>2. PICK f : OneByOne(f, s, X, N) /\ Registry!retain(s, X) = f[N]
    BY <1>1, RetainIsKeeping
  <1> DEFINE T == {n \in 0 .. N : ~ (f[n] \in Seq(S) /\ Kept(f[n], s, X, n) /\ Apart(f[n], R))}
  <1>3. T = {}
    <2> SUFFICES ASSUME T # {} PROVE FALSE
      OBVIOUS
    <2>1. PICK n \in T : \A o \in T : n <= o
      <3>1. T \subseteq Nat
        OBVIOUS
      <3> HIDE DEF T
      <3> QED BY <3>1, LeastNatural, Zenon
    <2>2. n # 0
      <3>1. << >> \in Seq(S) /\ Kept(<< >>, s, X, 0) /\ Apart(<< >>, R)
        BY DEF Kept, Apart
      <3>2. f[0] = << >>
        BY <1>2 DEF OneByOne
      <3> QED BY <2>1, <3>1, <3>2, Zenon
    <2>3. n \in 1 .. N /\ n - 1 \in 0 .. N /\ n - 1 \notin T
      BY <2>1, <2>2
    <2>4. PICK c : c = f[n - 1] /\ c \in Seq(S) /\ Kept(c, s, X, n - 1) /\ Apart(c, R)
      BY <2>3
    <2>5. f[n] = KeepNext(c, s[n], X)
      BY <1>2, <2>3, <2>4 DEF OneByOne
    <2>6. f[n] \in Seq(S) /\ Kept(f[n], s, X, n)
      BY <1>1, <2>3, <2>4, <2>5, KeptGrows
    <2>7. Apart(f[n], R)
      <3>1. CASE s[n] \notin X
        BY <2>4, <2>5, <3>1 DEF KeepNext
      <3>2. CASE s[n] \in X
        <4>1. PICK x \in S : x = s[n]
          BY <1>1, <2>3
        <4>2. PICK d : d = Append(c, x)
          BY Zenon
        <4>3. /\ Len(d) = Len(c) + 1 /\ Len(c) \in Nat /\ d[Len(c) + 1] = x
              /\ \A i \in 1 .. Len(c) : d[i] = c[i]
          BY <2>4, <4>1, <4>2
        <4>4. \A i \in 1 .. Len(c) : <<c[i], x>> \notin R /\ <<x, c[i]>> \notin R
          <5> SUFFICES ASSUME NEW i \in 1 .. Len(c), <<c[i], x>> \in R \/ <<x, c[i]>> \in R PROVE FALSE
            OBVIOUS
          <5>1. PICK k \in 1 .. n - 1 : c[i] = s[k]
            BY <2>4 DEF Kept
          <5>2. k \in 1 .. Len(s) /\ n \in 1 .. Len(s) /\ k # n
            BY <1>1, <2>3
          <5> QED BY <4>1, <5>1, <5>2 DEF Apart
        <4>5. ASSUME NEW i \in 1 .. Len(d), NEW j \in 1 .. Len(d), <<d[i], d[j]>> \in R PROVE i = j
          <5>1. CASE i = Len(c) + 1 /\ j = Len(c) + 1
            BY <5>1
          <5>2. CASE i = Len(c) + 1 /\ j # Len(c) + 1
            <6>1. j \in 1 .. Len(c)
              BY <4>3, <5>2
            <6> QED BY <4>3, <4>4, <4>5, <5>2, <6>1, Zenon
          <5>3. CASE i # Len(c) + 1 /\ j = Len(c) + 1
            <6>1. i \in 1 .. Len(c)
              BY <4>3, <5>3
            <6> QED BY <4>3, <4>4, <4>5, <5>3, <6>1, Zenon
          <5>4. CASE i # Len(c) + 1 /\ j # Len(c) + 1
            <6>1. i \in 1 .. Len(c) /\ j \in 1 .. Len(c)
              BY <4>3, <5>4
            <6> QED BY <2>4, <4>3, <4>5, <6>1, Zenon DEF Apart
          <5> QED BY <5>1, <5>2, <5>3, <5>4
        <4>6. Apart(d, R)
          BY <4>5, Zenon DEF Apart
        <4> QED BY <2>5, <3>2, <4>1, <4>2, <4>6 DEF KeepNext
      <3> QED BY <3>1, <3>2
    <2> QED BY <2>1, <2>6, <2>7
  <1>4. N \in 0 .. N
    OBVIOUS
  <1> QED BY <1>2, <1>3, <1>4

\* Elements with different identifiers stay different.
DistinctIds(c) == \A i, j \in 1 .. Len(c) : c[i].id = c[j].id => i = j

LEMMA RetainDistinct ==
    ASSUME NEW S, NEW s \in Seq(S), NEW X, DistinctIds(s)
    PROVE  DistinctIds(Registry!retain(s, X))
  <1>1. PICK R : R = {p \in S \X S : p[1].id = p[2].id}
    BY Zenon
  <1>2. PICK c : c = Registry!retain(s, X) /\ c \in Seq(S)
    BY RetainKeeps
  <1>3. \A t \in Seq(S) : \A i, j \in 1 .. Len(t) : <<t[i], t[j]>> \in R <=> t[i].id = t[j].id
    BY <1>1
  <1>4. Apart(s, R)
    BY <1>3 DEF Apart, DistinctIds
  <1>5. Apart(c, R)
    BY <1>2, <1>4, RetainApart
  <1> QED BY <1>2, <1>3, <1>5, Zenon DEF Apart, DistinctIds

-----------------------------------------------------------------------------
(* A registry and the history it carries.                                  *)

SomeEndpoint == CHOOSE id \in Endpoints : TRUE

Stac == [id : Endpoints, url : Urls]

RegistryEntries ==
    [origin : {"ui", "cli"}, op : {"register", "remove", "search"},
     ids : Seq(Endpoints \cup {SomeEndpoint}), url : Urls \cup {"-"}]

\* The registration at k, which no later change takes away.
Live(h, k) ==
    /\ h[k].op = "register"
    /\ \A j \in k + 1 .. Len(h) : h[j].op = "search" \/ h[j].ids[1] # h[k].ids[1]

Registered(h, id) == \E k \in 1 .. Len(h) : h[k].op = "register" /\ h[k].ids[1] = id

\* The searches of the workbench name what was registered before them.
SearchesFollow(h) ==
    \A i \in 1 .. Len(h) : h[i].origin = "ui" /\ h[i].op = "search" =>
        \A n \in DOMAIN h[i].ids : \E k \in 1 .. i - 1 :
            h[k].op = "register" /\ h[k].ids[1] = h[i].ids[n]

Sound(r) ==
    /\ r = [endpoints |-> r.endpoints, history |-> r.history]
    /\ r.endpoints \in Seq(Stac) /\ r.history \in Seq(RegistryEntries)
    /\ Registry!Range(r.endpoints) = Registry!Explained(r.history)
    /\ DistinctIds(r.endpoints)
    /\ SearchesFollow(r.history)

LEMMA ExplainedIs ==
    ASSUME NEW h, h \in Seq(RegistryEntries), NEW x
    PROVE  x \in Registry!Explained(h) <=>
               \E k \in 1 .. Len(h) : Live(h, k) /\ x = [id |-> h[k].ids[1], url |-> h[k].url]
  <1>1. DOMAIN h = 1 .. Len(h)
    OBVIOUS
  <1> QED BY <1>1, Zenon DEF Registry!Explained, Live

LEMMA ExplainedAppended ==
    ASSUME NEW h, h \in Seq(RegistryEntries), NEW e \in RegistryEntries, NEW x
    PROVE  x \in Registry!Explained(Append(h, e)) <=>
               \/ x \in Registry!Explained(h) /\ (e.op = "search" \/ x.id # e.ids[1])
               \/ e.op = "register" /\ x = [id |-> e.ids[1], url |-> e.url]
  <1>1. PICK g : g = Append(h, e)
    BY Zenon
  <1>2. PICK L \in Nat : L = Len(h)
    OBVIOUS
  <1>3. g \in Seq(RegistryEntries) /\ Len(g) = L + 1 /\ g[L + 1] = e /\ \A k \in 1 .. L : g[k] = h[k]
    BY <1>1, <1>2
  <1>4. \A k \in 1 .. L : Live(g, k) <=> Live(h, k) /\ (e.op = "search" \/ e.ids[1] # h[k].ids[1])
    <2> SUFFICES ASSUME NEW k \in 1 .. L
                 PROVE  Live(g, k) <=> Live(h, k) /\ (e.op = "search" \/ e.ids[1] # h[k].ids[1])
      OBVIOUS
    <2>1. /\ \A j \in k + 1 .. L + 1 : j = L + 1 \/ j \in k + 1 .. L
          /\ \A j \in k + 1 .. L : j \in k + 1 .. L + 1 /\ j \in 1 .. L
          /\ L + 1 \in k + 1 .. L + 1
      OBVIOUS
    <2>2. Live(g, k) => Live(h, k) /\ (e.op = "search" \/ e.ids[1] # h[k].ids[1])
      BY <1>2, <1>3, <2>1 DEF Live
    <2>3. Live(h, k) /\ (e.op = "search" \/ e.ids[1] # h[k].ids[1]) => Live(g, k)
      BY <1>2, <1>3, <2>1 DEF Live
    <2> QED BY <2>2, <2>3
  <1>5. Live(g, L + 1) <=> e.op = "register"
    <2>1. \A j \in (L + 1) + 1 .. L + 1 : FALSE
      OBVIOUS
    <2> QED BY <1>3, <2>1 DEF Live
  <1>6. x \in Registry!Explained(g) <=>
           \E k \in 1 .. L + 1 : Live(g, k) /\ x = [id |-> g[k].ids[1], url |-> g[k].url]
    BY <1>3, ExplainedIs
  <1>7. x \in Registry!Explained(h) <=>
           \E k \in 1 .. L : Live(h, k) /\ x = [id |-> h[k].ids[1], url |-> h[k].url]
    BY <1>2, ExplainedIs
  <1>8. ASSUME x \in Registry!Explained(g)
        PROVE  \/ x \in Registry!Explained(h) /\ (e.op = "search" \/ x.id # e.ids[1])
               \/ e.op = "register" /\ x = [id |-> e.ids[1], url |-> e.url]
    <2>1. PICK k \in 1 .. L + 1 : Live(g, k) /\ x = [id |-> g[k].ids[1], url |-> g[k].url]
      BY <1>6, <1>8
    <2>2. CASE k = L + 1
      BY <1>3, <1>5, <2>1, <2>2
    <2>3. CASE k # L + 1
      <3>1. k \in 1 .. L /\ g[k] = h[k]
        BY <1>3, <2>3
      <3>2. Live(h, k) /\ (e.op = "search" \/ e.ids[1] # h[k].ids[1])
        BY <1>4, <2>1, <3>1
      <3>3. x \in Registry!Explained(h) /\ x.id = h[k].ids[1]
        BY <1>7, <2>1, <3>1, <3>2
      <3> QED BY <3>2, <3>3
    <2> QED BY <2>2, <2>3
  <1>9. ASSUME \/ x \in Registry!Explained(h) /\ (e.op = "search" \/ x.id # e.ids[1])
               \/ e.op = "register" /\ x = [id |-> e.ids[1], url |-> e.url]
        PROVE  x \in Registry!Explained(g)
    <2>1. CASE x \in Registry!Explained(h) /\ (e.op = "search" \/ x.id # e.ids[1])
      <3>1. PICK k \in 1 .. L : Live(h, k) /\ x = [id |-> h[k].ids[1], url |-> h[k].url]
        BY <1>7, <2>1
      <3>2. x.id = h[k].ids[1]
        BY <3>1
      <3>3. Live(g, k) /\ k \in 1 .. L + 1 /\ g[k] = h[k]
        BY <1>3, <1>4, <2>1, <3>1, <3>2
      <3> QED BY <1>6, <3>1, <3>3
    <2>2. CASE e.op = "register" /\ x = [id |-> e.ids[1], url |-> e.url]
      <3>1. L + 1 \in 1 .. L + 1
        OBVIOUS
      <3> QED BY <1>3, <1>5, <1>6, <2>2, <3>1
    <2> QED BY <1>9, <2>1, <2>2
  <1> QED BY <1>1, <1>8, <1>9

LEMMA SearchesFollowAppended ==
    ASSUME NEW h, h \in Seq(RegistryEntries), NEW e \in RegistryEntries, SearchesFollow(h),
           e.origin = "ui" /\ e.op = "search" => \A n \in DOMAIN e.ids : Registered(h, e.ids[n])
    PROVE  SearchesFollow(Append(h, e))
  <1>1. PICK g : g = Append(h, e)
    BY Zenon
  <1>2. PICK L \in Nat : L = Len(h)
    OBVIOUS
  <1>3. Len(g) = L + 1 /\ g[L + 1] = e /\ \A k \in 1 .. L : g[k] = h[k]
    BY <1>1, <1>2
  <1>4. ASSUME NEW i \in 1 .. L + 1, g[i].origin = "ui", g[i].op = "search", NEW n \in DOMAIN g[i].ids
        PROVE  \E k \in 1 .. i - 1 : g[k].op = "register" /\ g[k].ids[1] = g[i].ids[n]
    <2>1. CASE i = L + 1
      <3>1. PICK k \in 1 .. L : h[k].op = "register" /\ h[k].ids[1] = e.ids[n]
        BY <1>2, <1>3, <1>4, <2>1 DEF Registered
      <3>2. k \in 1 .. i - 1
        BY <2>1
      <3> QED BY <1>3, <2>1, <3>1, <3>2
    <2>2. CASE i # L + 1
      <3>1. i \in 1 .. L /\ g[i] = h[i] /\ \A k \in 1 .. i - 1 : k \in 1 .. L
        BY <1>3, <2>2
      <3>2. PICK k \in 1 .. i - 1 : h[k].op = "register" /\ h[k].ids[1] = h[i].ids[n]
        BY <1>2, <1>4, <3>1 DEF SearchesFollow
      <3> QED BY <1>3, <3>1, <3>2
    <2> QED BY <2>1, <2>2
  <1>5. SearchesFollow(g)
    BY <1>3, <1>4 DEF SearchesFollow
  <1> QED BY <1>1, <1>5


LEMMA NewIsSound == Sound(Registry!NewRegistry)
  <1>1. PICK e : e = << >> /\ e \in Seq(Stac) /\ e \in Seq(RegistryEntries) /\ Len(e) = 0 /\ DOMAIN e = {}
    <2>1. << >> \in Seq(Stac) /\ << >> \in Seq(RegistryEntries) /\ Len(<< >>) = 0 /\ DOMAIN << >> = {}
      OBVIOUS
    <2> QED BY <2>1, Zenon
  <1>2. Registry!Range(e) = {}
    BY <1>1 DEF Registry!Range
  <1>3. Registry!Explained(e) = {}
    BY <1>1, Zenon DEF Registry!Explained
  <1>4. DistinctIds(e) /\ SearchesFollow(e)
    BY <1>1 DEF DistinctIds, SearchesFollow
  <1>5. Sound([endpoints |-> e, history |-> e])
    BY <1>1, <1>2, <1>3, <1>4, Zenon DEF Sound
  <1> QED BY <1>1, <1>5 DEF Registry!NewRegistry

LEMMA TornIsNotSound ==
    ASSUME NEW r, Sound(r)
    PROVE  r # Registry!Torn
  <1>1. "endpoints" \in DOMAIN r
    <2>1. r = [endpoints |-> r.endpoints, history |-> r.history]
      BY DEF Sound
    <2>2. PICK a, b : a = r.endpoints /\ b = r.history
      OBVIOUS
    <2>3. "endpoints" \in DOMAIN [endpoints |-> a, history |-> b]
      OBVIOUS
    <2> QED BY <2>1, <2>2, <2>3
  <1>2. "endpoints" \notin DOMAIN Registry!Torn
    BY DEF Registry!Torn
  <1> QED BY <1>1, <1>2

\* Every element of retain, as a set.
LEMMA RetainRange ==
    ASSUME NEW S, NEW s \in Seq(S), NEW X, NEW x
    PROVE  x \in Registry!Range(Registry!retain(s, X)) <=> x \in X /\ x \in Registry!Range(s)
  <1>1. PICK c \in Seq(S) : c = Registry!retain(s, X)
    BY RetainKeeps
  <1>2. Kept(c, s, X, Len(s))
    BY <1>1, RetainKeeps
  <1>3. DOMAIN c = 1 .. Len(c) /\ DOMAIN s = 1 .. Len(s)
    OBVIOUS
  <1>4. x \in Registry!Range(c) <=> x \in X /\ x \in Registry!Range(s)
    <2>1. ASSUME x \in Registry!Range(c) PROVE x \in X /\ x \in Registry!Range(s)
      <3>1. PICK i \in 1 .. Len(c) : x = c[i]
        BY <1>3, <2>1 DEF Registry!Range
      <3> QED BY <1>2, <1>3, <3>1 DEF Kept, Registry!Range
    <2>2. ASSUME x \in X, x \in Registry!Range(s) PROVE x \in Registry!Range(c)
      <3>1. PICK i \in 1 .. Len(s) : x = s[i]
        BY <1>3, <2>2 DEF Registry!Range
      <3>2. PICK j \in 1 .. Len(c) : c[j] = s[i]
        BY <1>2, <2>2, <3>1 DEF Kept
      <3> QED BY <1>3, <3>1, <3>2 DEF Registry!Range
    <2> QED BY <2>1, <2>2
  <1> QED BY <1>1, <1>4

LEMMA EntryTypes ==
    ASSUME NEW origin \in {"ui", "cli"}, NEW entry \in Registry!RegisterOrRemove(origin)
    PROVE  /\ entry \in RegistryEntries /\ entry.op \in {"register", "remove"} /\ entry.ids[1] \in Endpoints
           /\ entry.op = "register" => [id |-> entry.ids[1], url |-> entry.url] \in Stac
           /\ entry.origin = origin
  <1>1. CASE \E id \in Endpoints, url \in Urls : entry = Registry!Entry(origin, "register", <<id>>, url)
    <2>1. PICK id \in Endpoints, url \in Urls : entry = Registry!Entry(origin, "register", <<id>>, url)
      BY <1>1
    <2>2. <<id>> \in Seq(Endpoints \cup {SomeEndpoint}) /\ <<id>>[1] = id
      OBVIOUS
    <2>3. /\ entry = [origin |-> origin, op |-> "register", ids |-> <<id>>, url |-> url]
      BY <2>1 DEF Registry!Entry
    <2> QED BY <2>2, <2>3 DEF RegistryEntries, Stac
  <1>2. CASE \E id \in Endpoints : entry = Registry!Entry(origin, "remove", <<id>>, "-")
    <2>1. PICK id \in Endpoints : entry = Registry!Entry(origin, "remove", <<id>>, "-")
      BY <1>2
    <2>2. <<id>> \in Seq(Endpoints \cup {SomeEndpoint}) /\ <<id>>[1] = id
      OBVIOUS
    <2>3. entry = [origin |-> origin, op |-> "remove", ids |-> <<id>>, url |-> "-"]
      BY <2>1 DEF Registry!Entry
    <2> QED BY <2>2, <2>3 DEF RegistryEntries, Stac
  <1>3. \/ \E id \in Endpoints, url \in Urls : entry = Registry!Entry(origin, "register", <<id>>, url)
        \/ \E id \in Endpoints : entry = Registry!Entry(origin, "remove", <<id>>, "-")
    BY SMT DEF Registry!RegisterOrRemove
  <1> QED BY <1>1, <1>2, <1>3, Zenon

LEMMA ApplyIsSound ==
    ASSUME NEW r, Sound(r), NEW origin \in {"ui", "cli"}, NEW entry \in Registry!RegisterOrRemove(origin)
    PROVE  /\ Sound(Registry!apply(r, entry))
           /\ Registry!apply(r, entry).history = Append(r.history, entry)
  <1>1. PICK eps, h, id : eps = r.endpoints /\ h = r.history /\ id = entry.ids[1]
    OBVIOUS
  <1>2. /\ eps \in Seq(Stac) /\ h \in Seq(RegistryEntries) /\ DistinctIds(eps) /\ SearchesFollow(h)
        /\ \A x : x \in Registry!Range(eps) <=> x \in Registry!Explained(h)
    BY <1>1 DEF Sound
  <1>3. /\ entry \in RegistryEntries /\ entry.op \in {"register", "remove"}
        /\ entry.op = "register" => [id |-> id, url |-> entry.url] \in Stac
    BY <1>1, EntryTypes
  <1> DEFINE X == {e \in Registry!Range(eps) : e.id # id}
  <1>4. PICK others \in Seq(Stac) : others = Registry!retain(eps, X)
    BY <1>2, RetainKeeps, Zenon
  <1>5. \A x : x \in Registry!Range(others) <=> x \in Registry!Range(eps) /\ x.id # id
    BY <1>2, <1>4, RetainRange
  <1>6. DistinctIds(others)
    BY <1>2, <1>4, RetainDistinct
  <1>7. others = Registry!OtherEndpoints(eps, id)
    BY <1>4 DEF Registry!OtherEndpoints
  <1>8. PICK now : now = IF entry.op = "register" THEN Append(others, [id |-> id, url |-> entry.url]) ELSE others
    BY Zenon
  <1>9. PICK g \in Seq(RegistryEntries) : g = Append(h, entry)
    <2>1. Append(h, entry) \in Seq(RegistryEntries)
      BY <1>2, <1>3
    <2> QED BY <2>1, Zenon
  <1>10. Registry!apply(r, entry) = [endpoints |-> now, history |-> g]
    BY <1>1, <1>7, <1>8, <1>9 DEF Registry!apply
  <1>11. SearchesFollow(g)
    BY <1>2, <1>3, <1>9, SearchesFollowAppended
  <1>12. \A x : x \in Registry!Explained(g) <=>
            \/ x \in Registry!Explained(h) /\ x.id # id
            \/ entry.op = "register" /\ x = [id |-> id, url |-> entry.url]
    <2> SUFFICES ASSUME NEW x
                 PROVE  x \in Registry!Explained(g) <=>
                           \/ x \in Registry!Explained(h) /\ x.id # id
                           \/ entry.op = "register" /\ x = [id |-> id, url |-> entry.url]
      OBVIOUS
    <2>1. x \in Registry!Explained(Append(h, entry)) <=>
               \/ x \in Registry!Explained(h) /\ (entry.op = "search" \/ x.id # entry.ids[1])
               \/ entry.op = "register" /\ x = [id |-> entry.ids[1], url |-> entry.url]
      BY <1>2, <1>3, ExplainedAppended
    <2> QED BY <1>1, <1>3, <1>9, <2>1
  <1>13. CASE entry.op = "register"
    <2>1. PICK y \in Stac : y = [id |-> id, url |-> entry.url] /\ y.id = id
      BY <1>3, <1>13
    <2>2. PICK L \in Nat : L = Len(others)
      OBVIOUS
    <2>3. /\ now = Append(others, y) /\ now \in Seq(Stac) /\ Len(now) = L + 1 /\ now[L + 1] = y
          /\ \A i \in 1 .. L : now[i] = others[i]
      BY <1>8, <1>13, <2>1, <2>2
    <2>4. \A i \in 1 .. L : others[i].id # id
      BY <1>5, <2>2 DEF Registry!Range
    <2>5. DistinctIds(now)
      <3> SUFFICES ASSUME NEW i \in 1 .. L + 1, NEW j \in 1 .. L + 1, now[i].id = now[j].id PROVE i = j
        BY <2>3 DEF DistinctIds
      <3>1. CASE i = L + 1 /\ j # L + 1
        <4>1. j \in 1 .. L
          BY <3>1
        <4> QED BY <2>1, <2>3, <2>4, <3>1, <4>1
      <3>2. CASE i # L + 1 /\ j = L + 1
        <4>1. i \in 1 .. L
          BY <3>2
        <4> QED BY <2>1, <2>3, <2>4, <3>2, <4>1
      <3>3. CASE i # L + 1 /\ j # L + 1
        <4>1. i \in 1 .. L /\ j \in 1 .. L
          BY <3>3
        <4> QED BY <1>6, <2>2, <2>3, <4>1 DEF DistinctIds
      <3> QED BY <3>1, <3>2, <3>3
    <2>6. \A x : x \in Registry!Range(now) <=> x \in Registry!Range(others) \/ x = y
      <3>1. DOMAIN now = 1 .. L + 1 /\ DOMAIN others = 1 .. L /\ L + 1 \in 1 .. L + 1
            /\ (\A i \in 1 .. L + 1 : i = L + 1 \/ i \in 1 .. L) /\ \A i \in 1 .. L : i \in 1 .. L + 1
        BY <2>2, <2>3
      <3> QED BY <2>3, <3>1 DEF Registry!Range
    <2>7. Registry!Range(now) = Registry!Explained(g)
      <3>1. \A x : x \in Registry!Range(now) <=> x \in Registry!Explained(g)
        BY <1>2, <1>5, <1>12, <1>13, <2>1, <2>6
      <3> QED BY <3>1, Zenon
    <2> QED BY <1>9, <1>10, <1>11, <2>3, <2>5, <2>7, <1>1 DEF Sound
  <1>14. CASE entry.op # "register"
    <2>1. now = others
      BY <1>8, <1>14
    <2>2. Registry!Range(now) = Registry!Explained(g)
      <3>1. \A x : x \in Registry!Range(now) <=> x \in Registry!Explained(g)
        BY <1>2, <1>5, <1>12, <1>14, <2>1
      <3> QED BY <3>1, Zenon
    <2> QED BY <1>1, <1>6, <1>9, <1>10, <1>11, <2>1, <2>2 DEF Sound
  <1> QED BY <1>13, <1>14

LEMMA SearchIsSound ==
    ASSUME NEW r, Sound(r), NEW e \in RegistryEntries, e.op = "search",
           e.origin = "ui" => \A n \in DOMAIN e.ids : Registered(r.history, e.ids[n])
    PROVE  /\ Sound(Registry!record_search(r, e))
           /\ Registry!record_search(r, e).history = Append(r.history, e)
  <1>1. PICK eps, h : eps = r.endpoints /\ h = r.history
    OBVIOUS
  <1>2. /\ eps \in Seq(Stac) /\ h \in Seq(RegistryEntries) /\ DistinctIds(eps) /\ SearchesFollow(h)
        /\ Registry!Range(eps) = Registry!Explained(h) /\ r = [endpoints |-> eps, history |-> h]
    BY <1>1 DEF Sound
  <1>3. PICK g \in Seq(RegistryEntries) : g = Append(h, e)
    <2>1. Append(h, e) \in Seq(RegistryEntries)
      BY <1>2
    <2> QED BY <2>1, Zenon
  <1>4. Registry!record_search(r, e) = [endpoints |-> eps, history |-> g]
    <2>1. Registry!record_search(r, e) = [r EXCEPT !.history = g]
      BY <1>1, <1>3 DEF Registry!record_search
    <2> QED BY <1>2, <2>1
  <1>5. SearchesFollow(g)
    BY <1>1, <1>2, <1>3, SearchesFollowAppended
  <1>6. Registry!Explained(g) = Registry!Explained(h)
    <2>1. \A x : x \in Registry!Explained(g) <=> x \in Registry!Explained(h)
      <3> SUFFICES ASSUME NEW x PROVE x \in Registry!Explained(g) <=> x \in Registry!Explained(h)
        OBVIOUS
      <3>1. x \in Registry!Explained(Append(h, e)) <=>
               \/ x \in Registry!Explained(h) /\ (e.op = "search" \/ x.id # e.ids[1])
               \/ e.op = "register" /\ x = [id |-> e.ids[1], url |-> e.url]
        BY <1>2, ExplainedAppended
      <3> QED BY <1>3, <3>1
    <2> QED BY <2>1, Zenon
  <1>7. Sound([endpoints |-> eps, history |-> g])
    <2>1. Registry!Range(eps) = Registry!Explained(g)
      BY <1>2, <1>6
    <2> QED BY <1>2, <1>3, <1>5, <2>1 DEF Sound
  <1> QED BY <1>1, <1>3, <1>4, <1>7


-----------------------------------------------------------------------------
(* What is listed can be searched.                                         *)

LEMMA SameCardinality ==
    ASSUME NEW S
    PROVE  Registry!Cardinality(S) = Cardinality(S)
  BY DEF Registry!Cardinality, Cardinality

LEMMA SetToSeqIs ==
    ASSUME NEW S, IsFiniteSet(S)
    PROVE  Registry!SetToSeq(S) \in [1 .. Cardinality(S) -> S]
  <1>1. PICK N : N = 1 .. Cardinality(S)
    OBVIOUS
  <1>2. ExistsBijection(N, S)
    BY <1>1, FS_CardinalityType
  <1>3. PICK f \in Bijection(N, S) : TRUE
    BY <1>2 DEF ExistsBijection
  <1>4. f \in [N -> S] /\ Registry!IsInjective(f)
    BY <1>3 DEF Bijection, Injection, Surjection, Registry!IsInjective, IsInjective
  <1>5. (CHOOSE g \in [N -> S] : Registry!IsInjective(g)) \in [N -> S]
    BY <1>4
  <1> QED BY <1>1, <1>5, SameCardinality, Zenon DEF Registry!SetToSeq

LEMMA SetToSeqIsSeq ==
    ASSUME NEW T, NEW S, S \subseteq T, IsFiniteSet(S)
    PROVE  /\ Registry!SetToSeq(S) \in Seq(T)
           /\ \A n \in DOMAIN Registry!SetToSeq(S) : Registry!SetToSeq(S)[n] \in S
  <1>1. PICK N \in Nat : N = Cardinality(S)
    BY FS_CardinalityType
  <1>2. PICK f \in [1 .. N -> S] : f = Registry!SetToSeq(S)
    BY <1>1, SetToSeqIs
  <1>3. f \in Seq(T) /\ \A n \in DOMAIN f : f[n] \in S
    BY <1>1, <1>2
  <1> QED BY <1>2, <1>3

LEMMA ListedAreRegistered ==
    ASSUME NEW r, Sound(r)
    PROVE  /\ IsFiniteSet(Registry!RegisteredIds(r))
           /\ Registry!RegisteredIds(r) \subseteq Endpoints
           /\ \A id \in Registry!RegisteredIds(r) : Registered(r.history, id)
           /\ Len(r.endpoints) = Cardinality(Registry!RegisteredIds(r))
  <1>1. PICK eps \in Seq(Stac), h \in Seq(RegistryEntries) : eps = r.endpoints /\ h = r.history
    BY DEF Sound
  <1>2. DistinctIds(eps) /\ Registry!Range(eps) = Registry!Explained(h)
    BY <1>1 DEF Sound
  <1>13. PICK N \in Nat : N = Len(eps)
    OBVIOUS
  <1>3. PICK D : D = 1 .. N /\ N = Len(eps)
    BY <1>13
  <1>4. DOMAIN eps = D /\ \A i \in D : eps[i] \in Stac /\ eps[i].id \in Endpoints
    <2>1. DOMAIN eps = 1 .. Len(eps) /\ \A i \in 1 .. Len(eps) : eps[i] \in Stac
      OBVIOUS
    <2>2. \A x \in Stac : x.id \in Endpoints
      BY DEF Stac
    <2> QED BY <1>3, <2>1, <2>2
  <1>5. PICK I : I = Registry!RegisteredIds(r)
    OBVIOUS
  <1>6. \A id : id \in I <=> \E i \in D : id = eps[i].id
    BY <1>1, <1>4, <1>5 DEF Registry!RegisteredIds
  <1>7. PICK f : f = [i \in D |-> eps[i].id]
    BY Zenon
  <1>8. f \in Bijection(D, I)
    <2>1. f \in [D -> I] /\ \A i \in D : f[i] = eps[i].id
      BY <1>6, <1>7
    <2>2. \A i, j \in D : f[i] = f[j] => i = j
      BY <1>2, <1>3, <2>1 DEF DistinctIds
    <2>3. \A id \in I : \E i \in D : f[i] = id
      BY <1>6, <2>1
    <2> QED BY <2>1, <2>2, <2>3 DEF Bijection, Injection, Surjection, IsInjective
  <1>9. IsFiniteSet(D) /\ Cardinality(D) = N
    <2>1. IsFiniteSet(1 .. N) /\ Cardinality(1 .. N) = IF 1 > N THEN 0 ELSE N - 1 + 1
      <3>1. N \in Int /\ 1 \in Int
        BY <1>13
      <3> QED BY <3>1, FS_Interval
    <2> QED BY <1>3, <1>13, <2>1
  <1>10. IsFiniteSet(I) /\ Cardinality(I) = N
    <2>1. ExistsBijection(D, I)
      BY <1>8 DEF ExistsBijection
    <2> QED BY <1>9, <2>1, FS_Bijection
  <1>11. I \subseteq Endpoints
    BY <1>4, <1>6
  <1>12. \A id \in I : Registered(h, id)
    <2> SUFFICES ASSUME NEW id \in I PROVE Registered(h, id)
      OBVIOUS
    <2>1. PICK i \in D : id = eps[i].id
      BY <1>6
    <2>2. PICK x : x = eps[i] /\ x \in Registry!Range(eps)
      BY <1>4 DEF Registry!Range
    <2>3. PICK k \in 1 .. Len(h) : Live(h, k) /\ x = [id |-> h[k].ids[1], url |-> h[k].url]
      BY <1>2, <2>2, ExplainedIs
    <2> QED BY <2>1, <2>2, <2>3 DEF Live, Registered
  <1> QED BY <1>1, <1>3, <1>5, <1>10, <1>11, <1>12

LEMMA RegisteredStays ==
    ASSUME NEW h \in Seq(RegistryEntries), NEW e \in RegistryEntries, NEW id, Registered(h, id)
    PROVE  Registered(Append(h, e), id)
  <1>1. PICK g : g = Append(h, e)
    BY Zenon
  <1>2. PICK L \in Nat : L = Len(h)
    OBVIOUS
  <1>3. Len(g) = L + 1 /\ \A k \in 1 .. L : g[k] = h[k]
    BY <1>1, <1>2
  <1>4. PICK k \in 1 .. L : h[k].op = "register" /\ h[k].ids[1] = id
    BY <1>2 DEF Registered
  <1>5. k \in 1 .. L + 1
    BY <1>2
  <1> QED BY <1>1, <1>3, <1>4, <1>5 DEF Registered

LEMMA LastAppended ==
    ASSUME NEW S, NEW s \in Seq(S), NEW e \in S
    PROVE  Registry!Last(Append(s, e)) = e
  BY DEF Registry!Last

-----------------------------------------------------------------------------
(* The registry of the workbench, its file and the running command.        *)

CommandShape(c) ==
    \/ c = Registry!Idle
    \/ /\ c = [phase |-> c.phase, op |-> c.op, registry |-> c.registry, base |-> c.base]
       /\ c.phase \in {"loaded", "saving"}
       /\ Sound(c.registry) /\ Sound(c.base)
       /\ c.phase = "loaded" => c.registry = c.base

SearchingInv ==
    /\ IsFiniteSet(searching) /\ searching \subseteq Endpoints
    /\ \A id \in searching : Registered(memory.history, id)

\* A save that is under way adds one change to what was reported.
OneMore(h, reported) == h = Append(reported, Registry!Last(h))

FileInv ==
    ~overlapped =>
        /\ ~ (writing /\ command.phase = "saving")
        /\ writing => registryFile = Registry!Torn /\ OneMore(memory.history, acked)
        /\ command.phase = "saving" =>
              registryFile = Registry!Torn /\ OneMore(command.registry.history, acked)
        /\ ~writing /\ command.phase # "saving" =>
              registryFile # Registry!Torn /\ registryFile.history = acked

CopiesInv ==
    /\ Sound(memory)
    /\ registryFile = Registry!Torn \/ Sound(registryFile)
    /\ CommandShape(command)

EndpointInv == CopiesInv /\ SearchingInv /\ FileInv

LEMMA RegistryStarts ==
    ASSUME Registry!Init
    PROVE  EndpointInv
  <1>1. /\ registryFile = Registry!NewRegistry /\ memory = Registry!NewRegistry /\ writing = FALSE
        /\ searching = {} /\ command = Registry!Idle /\ acked = << >>
    BY DEF Registry!Init
  <1>2. Sound(Registry!NewRegistry)
    BY NewIsSound
  <1>3. Registry!NewRegistry # Registry!Torn
    BY <1>2, TornIsNotSound
  <1>4. Registry!NewRegistry.history = << >> /\ Registry!Idle.phase = "idle"
    BY DEF Registry!NewRegistry, Registry!Idle
  <1>5. CopiesInv
    BY <1>1, <1>2 DEF CopiesInv, CommandShape
  <1>6. SearchingInv
    BY <1>1, FS_EmptySet DEF SearchingInv
  <1>7. FileInv
    BY <1>1, <1>3, <1>4 DEF FileInv
  <1> QED BY <1>5, <1>6, <1>7 DEF EndpointInv

\* When the file is the version a writer read, nothing is being saved.
LEMMA FileIsReported ==
    ASSUME EndpointInv, ~overlapped, Sound(registryFile)
    PROVE  ~writing /\ command.phase # "saving" /\ registryFile.history = acked
  <1>1. registryFile # Registry!Torn
    BY TornIsNotSound
  <1> QED BY <1>1 DEF EndpointInv, FileInv

LEMMA OneMoreAppended ==
    ASSUME NEW r, Sound(r), NEW e \in RegistryEntries, NEW h, h = Append(r.history, e)
    PROVE  OneMore(h, r.history)
  <1>1. r.history \in Seq(RegistryEntries)
    BY DEF Sound
  <1> QED BY <1>1, LastAppended DEF OneMore


LEMMA ChangeKeeps ==
    ASSUME EndpointInv, NEW entry \in Registry!RegisterOrRemove("ui"), Registry!WorkbenchChange(entry)
    PROVE  EndpointInv'
  <1>1. /\ ~writing /\ memory' = Registry!apply(memory, entry) /\ registryFile' = Registry!Torn
        /\ overlapped' = (overlapped \/ registryFile # memory) /\ writing' = TRUE
        /\ UNCHANGED <<searching, command, acked>>
    BY DEF Registry!WorkbenchChange, Registry!BeginSave
  <1>2. Sound(memory) /\ CommandShape(command)
    BY DEF EndpointInv, CopiesInv
  <1>3. PICK now : now = Registry!apply(memory, entry)
    OBVIOUS
  <1>4. Sound(now) /\ now.history = Append(memory.history, entry) /\ entry \in RegistryEntries
    BY <1>2, <1>3, ApplyIsSound, EntryTypes, Zenon
  <1>5. CopiesInv'
    BY <1>1, <1>2, <1>3, <1>4 DEF CopiesInv
  <1>6. SearchingInv'
    <2>1. ASSUME NEW id \in searching PROVE Registered(now.history, id)
      <3>1. Registered(memory.history, id) /\ memory.history \in Seq(RegistryEntries)
        BY <1>2, <2>1 DEF EndpointInv, SearchingInv, Sound
      <3> QED BY <1>4, <3>1, RegisteredStays
    <2> QED BY <1>1, <1>3, <2>1 DEF EndpointInv, SearchingInv
  <1>7. FileInv'
    <2> SUFFICES ASSUME ~overlapped' PROVE command.phase # "saving" /\ OneMore(now.history, acked)
      BY <1>1, <1>3 DEF FileInv
    <2>1. ~overlapped /\ registryFile = memory
      BY <1>1, Zenon
    <2>2. command.phase # "saving" /\ memory.history = acked
      BY <1>2, <2>1, FileIsReported
    <2>3. OneMore(now.history, memory.history)
      BY <1>2, <1>4, OneMoreAppended, Zenon
    <2> QED BY <2>2, <2>3
  <1> QED BY <1>5, <1>6, <1>7 DEF EndpointInv

LEMMA SearchKeeps ==
    ASSUME EndpointInv, NEW ids \in SUBSET Endpoints, Registry!WorkbenchSearch(ids)
    PROVE  EndpointInv'
  <1>1. /\ searching' = Registry!federated_catalog(memory, ids)
        /\ UNCHANGED <<registryFile, memory, writing, command, acked, overlapped>>
    BY DEF Registry!WorkbenchSearch
  <1>2. PICK all : all = Registry!RegisteredIds(memory)
    OBVIOUS
  <1>3. IsFiniteSet(all) /\ all \subseteq Endpoints /\ \A id \in all : Registered(memory.history, id)
    BY <1>2, ListedAreRegistered DEF EndpointInv, CopiesInv
  <1>4. searching' \subseteq all
    BY <1>1, <1>2 DEF Registry!federated_catalog
  <1>5. IsFiniteSet(searching')
    BY <1>3, <1>4, FS_Subset
  <1>6. SearchingInv'
    BY <1>1, <1>3, <1>4, <1>5 DEF SearchingInv
  <1>7. CopiesInv' /\ FileInv'
    BY <1>1 DEF EndpointInv, CopiesInv, FileInv
  <1> QED BY <1>6, <1>7 DEF EndpointInv

\* The entry of a search, in the form the registry keeps.
LEMMA SearchEntry ==
    ASSUME NEW origin \in {"ui", "cli"}, NEW S, IsFiniteSet(S), S \subseteq Endpoints \cup {SomeEndpoint},
           NEW e, e = Registry!Entry(origin, "search", Registry!SetToSeq(S), "-")
    PROVE  /\ e \in RegistryEntries /\ e.op = "search" /\ e.origin = origin
           /\ \A n \in DOMAIN e.ids : e.ids[n] \in S
  <1>1. PICK q : q = Registry!SetToSeq(S)
    OBVIOUS
  <1>2. q \in Seq(Endpoints \cup {SomeEndpoint}) /\ \A n \in DOMAIN q : q[n] \in S
    BY <1>1, SetToSeqIsSeq
  <1>3. e = [origin |-> origin, op |-> "search", ids |-> q, url |-> "-"]
    BY <1>1 DEF Registry!Entry
  <1> QED BY <1>2, <1>3 DEF RegistryEntries

LEMMA SearchedKeeps ==
    ASSUME EndpointInv, Registry!WorkbenchSearched
    PROVE  EndpointInv'
  <1>1. PICK e : e = Registry!Entry("ui", "search", Registry!SetToSeq(searching), "-")
    OBVIOUS
  <1>2. /\ ~writing /\ memory' = Registry!record_search(memory, e) /\ registryFile' = Registry!Torn
        /\ overlapped' = (overlapped \/ registryFile # memory) /\ writing' = TRUE /\ searching' = {}
        /\ UNCHANGED <<command, acked>>
    BY <1>1 DEF Registry!WorkbenchSearched, Registry!BeginSave
  <1>3. Sound(memory) /\ CommandShape(command)
    BY DEF EndpointInv, CopiesInv
  <1>4. /\ e \in RegistryEntries /\ e.op = "search" /\ e.origin = "ui"
        /\ \A n \in DOMAIN e.ids : e.ids[n] \in searching
    <2>1. IsFiniteSet(searching) /\ searching \subseteq Endpoints \cup {SomeEndpoint}
      BY DEF EndpointInv, SearchingInv
    <2> QED BY <1>1, <2>1, SearchEntry
  <1>5. \A n \in DOMAIN e.ids : Registered(memory.history, e.ids[n])
    BY <1>4 DEF EndpointInv, SearchingInv
  <1>6. PICK now : now = Registry!record_search(memory, e)
    OBVIOUS
  <1>7. Sound(now) /\ now.history = Append(memory.history, e)
    BY <1>3, <1>4, <1>5, <1>6, SearchIsSound
  <1>8. CopiesInv'
    BY <1>2, <1>3, <1>6, <1>7 DEF CopiesInv
  <1>9. SearchingInv'
    BY <1>2, FS_EmptySet DEF SearchingInv
  <1>10. FileInv'
    <2> SUFFICES ASSUME ~overlapped' PROVE command.phase # "saving" /\ OneMore(now.history, acked)
      BY <1>2, <1>6 DEF FileInv
    <2>1. ~overlapped /\ registryFile = memory
      BY <1>2, Zenon
    <2>2. command.phase # "saving" /\ memory.history = acked
      BY <1>3, <2>1, FileIsReported
    <2>3. OneMore(now.history, memory.history)
      BY <1>3, <1>4, <1>7, OneMoreAppended, Zenon
    <2> QED BY <2>2, <2>3
  <1> QED BY <1>8, <1>9, <1>10 DEF EndpointInv

LEMMA SavedKeeps ==
    ASSUME EndpointInv, Registry!WorkbenchSaved
    PROVE  EndpointInv'
  <1>1. /\ writing /\ writing' = FALSE /\ acked' = Append(acked, Registry!Last(memory.history))
        /\ registryFile' = memory \/ (registryFile # Registry!Torn /\ registryFile' = Registry!Torn)
        /\ overlapped' = (overlapped \/ registryFile # Registry!Torn)
        /\ UNCHANGED <<memory, searching, command>>
    BY DEF Registry!WorkbenchSaved, Registry!EndSave
  <1>2. CopiesInv'
    BY <1>1 DEF EndpointInv, CopiesInv
  <1>3. SearchingInv'
    BY <1>1 DEF EndpointInv, SearchingInv
  <1>4. FileInv'
    <2> SUFFICES ASSUME ~overlapped' PROVE FileInv'
      BY DEF FileInv
    <2>1. ~overlapped /\ registryFile = Registry!Torn /\ registryFile' = memory
      BY <1>1, Zenon
    <2>2. command.phase # "saving" /\ memory.history = Append(acked, Registry!Last(memory.history))
      BY <1>1, <2>1 DEF EndpointInv, FileInv, OneMore
    <2>3. memory # Registry!Torn
      BY TornIsNotSound DEF EndpointInv, CopiesInv
    <2> QED BY <1>1, <2>1, <2>2, <2>3 DEF FileInv
  <1> QED BY <1>2, <1>3, <1>4 DEF EndpointInv

LEMMA RestartKeeps ==
    ASSUME EndpointInv, Registry!WorkbenchRestart
    PROVE  EndpointInv'
  <1>1. /\ memory' = Registry!load(registryFile) /\ writing' = FALSE /\ searching' = {}
        /\ overlapped' = (overlapped \/ writing \/ registryFile = Registry!Torn)
        /\ UNCHANGED <<registryFile, command, acked>>
    BY DEF Registry!WorkbenchRestart
  <1>2. Sound(Registry!load(registryFile))
    BY NewIsSound DEF EndpointInv, CopiesInv, Registry!load
  <1>3. CopiesInv'
    BY <1>1, <1>2 DEF EndpointInv, CopiesInv
  <1>4. SearchingInv'
    BY <1>1, FS_EmptySet DEF SearchingInv
  <1>5. FileInv'
    <2> SUFFICES ASSUME ~overlapped' PROVE FileInv'
      BY DEF FileInv
    <2>1. ~overlapped /\ ~writing /\ registryFile # Registry!Torn
      BY <1>1, Zenon
    <2> QED BY <1>1, <2>1 DEF EndpointInv, FileInv
  <1> QED BY <1>3, <1>4, <1>5 DEF EndpointInv

LEMMA LoadsKeeps ==
    ASSUME EndpointInv, NEW op, Registry!CommandLoads(op)
    PROVE  EndpointInv'
  <1>1. /\ command = Registry!Idle /\ registryFile # Registry!Torn
        /\ command' = [phase |-> "loaded", op |-> op, registry |-> registryFile, base |-> registryFile]
        /\ UNCHANGED <<registryFile, memory, writing, searching, acked, overlapped>>
    BY DEF Registry!CommandLoads
  <1>2. Sound(registryFile)
    BY <1>1 DEF EndpointInv, CopiesInv
  <1>3. PICK f, c : f = registryFile /\ c = [phase |-> "loaded", op |-> op, registry |-> f, base |-> f]
    BY Zenon
  <1>4. CommandShape(c)
    BY <1>2, <1>3 DEF CommandShape
  <1>5. command' = c /\ command.phase # "saving" /\ c.phase # "saving"
    BY <1>1, <1>3 DEF Registry!Idle
  <1>6. CopiesInv'
    BY <1>1, <1>4, <1>5 DEF EndpointInv, CopiesInv
  <1>7. SearchingInv'
    BY <1>1 DEF EndpointInv, SearchingInv
  <1>8. FileInv'
    BY <1>1, <1>5 DEF EndpointInv, FileInv
  <1> QED BY <1>6, <1>7, <1>8 DEF EndpointInv

SavingCommand(c, x) == [c EXCEPT !.phase = "saving", !.registry = x]

LEMMA CommandUpdate ==
    ASSUME NEW p, NEW o, NEW r, NEW b, NEW x, NEW c, c = [phase |-> p, op |-> o, registry |-> r, base |-> b]
    PROVE  SavingCommand(c, x) = [phase |-> "saving", op |-> o, registry |-> x, base |-> b]
  <1>1. PICK d : d = [c EXCEPT !.phase = "saving"]
    BY Zenon
  <1>2. d = [phase |-> "saving", op |-> o, registry |-> r, base |-> b]
    BY <1>1
  <1>3. [d EXCEPT !.registry = x] = [phase |-> "saving", op |-> o, registry |-> x, base |-> b]
    BY <1>2
  <1> QED BY <1>1, <1>3 DEF SavingCommand

\* A command that has changed the registry it read begins to save it.
LEMMA CommandSaves ==
    ASSUME EndpointInv, command # Registry!Idle, command.phase = "loaded", NEW e \in RegistryEntries, NEW now,
           Sound(now), now.history = Append(command.registry.history, e),
           command' = [command EXCEPT !.phase = "saving", !.registry = now],
           Registry!BeginSave(command.base), UNCHANGED <<memory, writing, searching, acked>>
    PROVE  EndpointInv'
  <1>1. PICK c : c = command
    OBVIOUS
  <1>2. /\ c = [phase |-> c.phase, op |-> c.op, registry |-> c.registry, base |-> c.base]
        /\ Sound(c.base) /\ c.registry = c.base
    BY <1>1 DEF EndpointInv, CopiesInv, CommandShape
  <1>3. PICK o, b : o = c.op /\ b = c.base
    OBVIOUS
  <1>4. PICK d : d = [phase |-> "saving", op |-> o, registry |-> now, base |-> b]
    BY Zenon
  <1>5. command' = d
    <2>1. SavingCommand(c, now) = d
      <3>1. PICK p, r : p = c.phase /\ r = c.registry
        OBVIOUS
      <3>2. c = [phase |-> p, op |-> o, registry |-> r, base |-> b]
        BY <1>2, <1>3, <3>1
      <3> QED BY <1>4, <3>2, CommandUpdate
    <2> QED BY <1>1, <2>1, Zenon DEF SavingCommand
  <1>6. d.phase = "saving" /\ d.registry = now /\ d.base = b /\ CommandShape(d)
    BY <1>2, <1>3, <1>4 DEF CommandShape
  <1>7. registryFile' = Registry!Torn /\ overlapped' = (overlapped \/ registryFile # command.base)
    BY DEF Registry!BeginSave
  <1>8. CopiesInv'
    BY <1>5, <1>6, <1>7 DEF EndpointInv, CopiesInv
  <1>9. SearchingInv'
    BY DEF EndpointInv, SearchingInv
  <1>10. FileInv'
    <2> SUFFICES ASSUME ~overlapped' PROVE ~writing /\ OneMore(now.history, acked)
      BY <1>5, <1>6, <1>7, Zenon DEF FileInv
    <2>1. ~overlapped /\ registryFile = b
      BY <1>1, <1>3, <1>7, Zenon
    <2>2. ~writing /\ b.history = acked
      BY <1>2, <1>3, <2>1, FileIsReported
    <2>3. OneMore(now.history, b.history)
      BY <1>1, <1>2, <1>3, OneMoreAppended, Zenon
    <2> QED BY <2>2, <2>3
  <1> QED BY <1>8, <1>9, <1>10 DEF EndpointInv

LEMMA AppliesKeeps ==
    ASSUME EndpointInv, Registry!CommandApplies
    PROVE  EndpointInv'
  <1>1. PICK entry \in Registry!RegisterOrRemove("cli") :
            command' = [command EXCEPT !.phase = "saving", !.registry = Registry!apply(command.registry, entry)]
    BY Zenon DEF Registry!CommandApplies
  <1>2. /\ command.phase = "loaded" /\ Registry!BeginSave(command.base)
        /\ UNCHANGED <<memory, writing, searching, acked>>
    BY DEF Registry!CommandApplies
  <1>3. command # Registry!Idle
    BY <1>2 DEF Registry!Idle
  <1>4. Sound(command.registry)
    BY <1>3 DEF EndpointInv, CopiesInv, CommandShape
  <1>5. PICK now : now = Registry!apply(command.registry, entry)
    OBVIOUS
  <1>6. Sound(now) /\ now.history = Append(command.registry.history, entry) /\ entry \in RegistryEntries
    BY <1>4, <1>5, ApplyIsSound, EntryTypes, Zenon
  <1> QED BY <1>1, <1>2, <1>3, <1>5, <1>6, CommandSaves, Zenon

LEMMA CommandSearchedKeeps ==
    ASSUME EndpointInv, Registry!CommandSearched
    PROVE  EndpointInv'
  <1>1. PICK S \in {Registry!RegisteredIds(command.registry), {SomeEndpoint}} :
            command' = [command EXCEPT !.phase = "saving",
                !.registry = Registry!record_search(command.registry,
                                 Registry!Entry("cli", "search", Registry!SetToSeq(S), "-"))]
    BY Zenon DEF Registry!CommandSearched, SomeEndpoint
  <1>2. /\ command.phase = "loaded" /\ Registry!BeginSave(command.base)
        /\ UNCHANGED <<memory, writing, searching, acked>>
    BY DEF Registry!CommandSearched
  <1>3. command # Registry!Idle
    BY <1>2 DEF Registry!Idle
  <1>4. Sound(command.registry)
    BY <1>3 DEF EndpointInv, CopiesInv, CommandShape
  <1>5. IsFiniteSet(S) /\ S \subseteq Endpoints \cup {SomeEndpoint}
    <2>1. IsFiniteSet({SomeEndpoint})
      BY FS_Singleton, Zenon
    <2>2. IsFiniteSet(Registry!RegisteredIds(command.registry))
          /\ Registry!RegisteredIds(command.registry) \subseteq Endpoints
      BY <1>4, ListedAreRegistered
    <2> QED BY <2>1, <2>2
  <1>6. PICK e : e = Registry!Entry("cli", "search", Registry!SetToSeq(S), "-")
    OBVIOUS
  <1>7. e \in RegistryEntries /\ e.op = "search" /\ e.origin = "cli"
    BY <1>5, <1>6, SearchEntry
  <1>8. PICK now : now = Registry!record_search(command.registry, e)
    OBVIOUS
  <1>9. Sound(now) /\ now.history = Append(command.registry.history, e)
    BY <1>4, <1>7, <1>8, SearchIsSound, Zenon
  <1> QED BY <1>1, <1>2, <1>3, <1>6, <1>7, <1>8, <1>9, CommandSaves, Zenon

LEMMA CommandSavedKeeps ==
    ASSUME EndpointInv, Registry!CommandSaved
    PROVE  EndpointInv'
  <1>1. /\ command.phase = "saving" /\ command' = Registry!Idle
        /\ acked' = Append(acked, Registry!Last(command.registry.history))
        /\ registryFile' = command.registry \/ (registryFile # Registry!Torn /\ registryFile' = Registry!Torn)
        /\ overlapped' = (overlapped \/ registryFile # Registry!Torn)
        /\ UNCHANGED <<memory, writing, searching>>
    BY DEF Registry!CommandSaved, Registry!EndSave
  <1>2. Sound(command.registry) /\ Registry!Idle.phase # "saving"
    BY <1>1 DEF EndpointInv, CopiesInv, CommandShape, Registry!Idle
  <1>3. CopiesInv'
    BY <1>1, <1>2 DEF EndpointInv, CopiesInv, CommandShape
  <1>4. SearchingInv'
    BY <1>1 DEF EndpointInv, SearchingInv
  <1>5. FileInv'
    <2> SUFFICES ASSUME ~overlapped' PROVE FileInv'
      BY DEF FileInv
    <2>1. ~overlapped /\ registryFile = Registry!Torn /\ registryFile' = command.registry
      BY <1>1, Zenon
    <2>2. ~writing /\ command.registry.history = Append(acked, Registry!Last(command.registry.history))
      BY <1>1, <2>1 DEF EndpointInv, FileInv, OneMore
    <2>3. command.registry # Registry!Torn
      BY <1>2, TornIsNotSound
    <2> QED BY <1>1, <1>2, <2>1, <2>2, <2>3 DEF FileInv
  <1> QED BY <1>3, <1>4, <1>5 DEF EndpointInv

LEMMA CommandEndsKeeps ==
    ASSUME EndpointInv, Registry!CommandEnds
    PROVE  EndpointInv'
  <1>1. /\ command' = Registry!Idle /\ overlapped' = (overlapped \/ command.phase = "saving")
        /\ UNCHANGED <<registryFile, memory, writing, searching, acked>>
    BY DEF Registry!CommandEnds
  <1>2. Registry!Idle.phase # "saving"
    BY DEF Registry!Idle
  <1>3. CopiesInv'
    BY <1>1 DEF EndpointInv, CopiesInv, CommandShape
  <1>4. SearchingInv'
    BY <1>1 DEF EndpointInv, SearchingInv
  <1>5. FileInv'
    BY <1>1, <1>2, Zenon DEF EndpointInv, FileInv
  <1> QED BY <1>3, <1>4, <1>5 DEF EndpointInv

LEMMA RegistryUnmoved ==
    ASSUME EndpointInv, UNCHANGED <<registryFile, memory, writing, searching, command, acked, overlapped>>
    PROVE  EndpointInv'
  <1>1. CopiesInv'
    BY DEF EndpointInv, CopiesInv
  <1>2. SearchingInv'
    BY DEF EndpointInv, SearchingInv
  <1>3. FileInv'
    BY DEF EndpointInv, FileInv
  <1> QED BY <1>1, <1>2, <1>3 DEF EndpointInv


-----------------------------------------------------------------------------
(* Imports.  The overlay holds the last import of every item: each job's   *)
(* records are what they will be once its own import is reported.          *)

ImportRecords == [item : Items, version : Nat]

LastImports(s) ==
    {r \in Registry!Range(s) : \A i \in DOMAIN s : s[i].item = r.item => s[i].version <= r.version}

Accumulated(s) == Registry!retain(s, LastImports(s))

VersionsBelow(s, n) == \A i \in 1 .. Len(s) : s[i].version < n
HasVersion(s, v) == \E i \in 1 .. Len(s) : s[i].version = v

LEMMA NothingAccumulated == Accumulated(<< >>) = << >>
  <1>1. PICK e \in Seq(ImportRecords) : e = << >> /\ Len(e) = 0
    <2>1. << >> \in Seq(ImportRecords) /\ Len(<< >>) = 0
      OBVIOUS
    <2> QED BY <2>1, Zenon
  <1>2. PICK c \in Seq(ImportRecords) : c = Registry!retain(e, LastImports(e)) /\ Kept(c, e, LastImports(e), Len(e))
    BY RetainKeeps
  <1>3. Len(c) = 0
    <2>1. Len(c) \in Nat /\ (Len(c) # 0 => 1 \in 1 .. Len(c)) /\ ~ \E k \in 1 .. Len(e) : TRUE
      BY <1>1
    <2> QED BY <1>2, <2>1 DEF Kept
  <1>4. c = << >>
    BY <1>3
  <1> QED BY <1>1, <1>2, <1>4 DEF Accumulated

LEMMA AccumulatedAppended ==
    ASSUME NEW s \in Seq(ImportRecords), NEW x \in ImportRecords, VersionsBelow(s, x.version)
    PROVE  Registry!WithRecord(Accumulated(s), x) = Accumulated(Append(s, x))
  <1>1. PICK t \in Seq(ImportRecords) : t = Append(s, x)
    <2>1. Append(s, x) \in Seq(ImportRecords)
      OBVIOUS
    <2> QED BY <2>1, Zenon
  <1>2. PICK L \in Nat : L = Len(s)
    OBVIOUS
  <1>3. /\ DOMAIN s = 1 .. L /\ DOMAIN t = 1 .. L + 1 /\ t[L + 1] = x /\ L + 1 \in 1 .. L + 1
        /\ \A i \in 1 .. L : i \in 1 .. L + 1 /\ t[i] = s[i]
        /\ \A i \in 1 .. L + 1 : i = L + 1 \/ i \in 1 .. L
    BY <1>1, <1>2
  <1>4. x.version \in Nat /\ \A i \in 1 .. L : s[i].version \in Nat /\ s[i].version < x.version
    <2>1. \A r \in ImportRecords : r.version \in Nat
      BY DEF ImportRecords
    <2>2. \A i \in 1 .. L : s[i] \in ImportRecords
      BY <1>2
    <2>3. \A i \in 1 .. L : s[i].version < x.version
      BY <1>2 DEF VersionsBelow
    <2> QED BY <2>1, <2>2, <2>3
  <1>5. x \in LastImports(t)
    <2>1. x \in Registry!Range(t)
      BY <1>3 DEF Registry!Range
    <2>2. \A i \in 1 .. L + 1 : t[i].version <= x.version
      BY <1>3, <1>4
    <2> QED BY <1>3, <2>1, <2>2 DEF LastImports
  <1>6. PICK A \in Seq(ImportRecords) : A = Accumulated(s)
    BY RetainKeeps DEF Accumulated
  <1>7. PICK Y : Y = {r \in Registry!Range(A) : r.item # x.item}
    BY Zenon
  <1>8. \A n \in 1 .. L : s[n] \in LastImports(s) \cap Y <=> s[n] \in LastImports(t)
    <2> SUFFICES ASSUME NEW n \in 1 .. L PROVE s[n] \in LastImports(s) \cap Y <=> s[n] \in LastImports(t)
      OBVIOUS
    <2>1. s[n] \in Registry!Range(s) /\ s[n] \in Registry!Range(t)
      BY <1>3, Zenon DEF Registry!Range
    <2>2. s[n] \in LastImports(s) <=> \A i \in 1 .. L : s[i].item = s[n].item => s[i].version <= s[n].version
      BY <1>3, <2>1, Zenon DEF LastImports
    <2>3. s[n] \in LastImports(t) <=> \A i \in 1 .. L + 1 : t[i].item = s[n].item => t[i].version <= s[n].version
      BY <1>3, <2>1, Zenon DEF LastImports
    <2>4. s[n] \in Registry!Range(A) <=> s[n] \in LastImports(s)
      BY <1>6, <2>1, RetainRange DEF Accumulated
    <2>5. s[n] \in Y <=> s[n] \in LastImports(s) /\ s[n].item # x.item
      BY <1>7, <2>4
    <2>6. ~ (x.version <= s[n].version)
      BY <1>4
    <2> QED BY <1>3, <2>2, <2>3, <2>5, <2>6
  <1>9. Registry!retain(A, Y) = Registry!retain(s, LastImports(t))
    <2>1. Registry!retain(A, Y) = Registry!retain(s, LastImports(s) \cap Y)
      BY <1>6, RetainTwice DEF Accumulated
    <2>2. Registry!retain(s, LastImports(s) \cap Y) = Registry!retain(s, LastImports(t))
      BY <1>2, <1>8, RetainAgrees
    <2> QED BY <2>1, <2>2
  <1>10. Registry!WithRecord(A, x) = Append(Registry!retain(s, LastImports(t)), x)
    BY <1>7, <1>9, Zenon DEF Registry!WithRecord
  <1>11. Registry!retain(t, LastImports(t)) = Append(Registry!retain(s, LastImports(t)), x)
    BY <1>1, <1>5, RetainAppended DEF KeepNext
  <1> QED BY <1>1, <1>6, <1>10, <1>11 DEF Accumulated

\* What is written with a record: no version but the record's is new.
LEMMA WithRecordAdds ==
    ASSUME NEW s \in Seq(ImportRecords), NEW x \in ImportRecords
    PROVE  /\ Registry!WithRecord(s, x) \in Seq(ImportRecords)
           /\ HasVersion(Registry!WithRecord(s, x), x.version)
           /\ \A v : HasVersion(Registry!WithRecord(s, x), v) => v = x.version \/ HasVersion(s, v)
  <1>1. PICK Y : Y = {r \in Registry!Range(s) : r.item # x.item}
    BY Zenon
  <1>2. PICK c \in Seq(ImportRecords) : c = Registry!retain(s, Y) /\ Kept(c, s, Y, Len(s))
    BY RetainKeeps
  <1>3. PICK t \in Seq(ImportRecords) : t = Append(c, x)
    <2>1. Append(c, x) \in Seq(ImportRecords)
      OBVIOUS
    <2> QED BY <2>1, Zenon
  <1>4. Registry!WithRecord(s, x) = t
    BY <1>1, <1>2, <1>3 DEF Registry!WithRecord
  <1>5. PICK L \in Nat : L = Len(c)
    OBVIOUS
  <1>6. /\ Len(t) = L + 1 /\ t[L + 1] = x /\ L + 1 \in 1 .. L + 1
        /\ \A i \in 1 .. L : t[i] = c[i]
        /\ \A i \in 1 .. L + 1 : i = L + 1 \/ i \in 1 .. L
    BY <1>3, <1>5
  <1>7. HasVersion(t, x.version)
    BY <1>6 DEF HasVersion
  <1>8. ASSUME NEW v, HasVersion(t, v) PROVE v = x.version \/ HasVersion(s, v)
    <2>1. PICK i \in 1 .. L + 1 : t[i].version = v
      BY <1>6, <1>8 DEF HasVersion
    <2>2. CASE i \in 1 .. L
      <3>1. PICK k \in 1 .. Len(s) : c[i] = s[k]
        BY <1>2, <1>5, <2>2 DEF Kept
      <3> QED BY <1>6, <2>1, <2>2, <3>1 DEF HasVersion
    <2> QED BY <1>6, <2>1, <2>2
  <1> QED BY <1>3, <1>4, <1>7, <1>8


Importers == {"a", "b"}

OverlayOf(s) == [records |-> s]

JobShape(j) ==
    \/ j = Registry!Idle
    \/ /\ j = [phase |-> j.phase, item |-> j.item, version |-> j.version, base |-> j.base, records |-> j.records]
       /\ j.phase \in {"read", "saving"}
       /\ j.item \in Items /\ j.version \in Nat /\ j.records \in Seq(ImportRecords)
       /\ j.phase = "read" => IF j.base = Registry!Torn THEN j.records = << >> ELSE j.base = OverlayOf(j.records)
       /\ j.phase = "saving" => HasVersion(j.records, j.version)

OverlayShape == overlay = Registry!Torn \/ (overlay = OverlayOf(overlay.records) /\ overlay.records \in Seq(ImportRecords))

ImportShape ==
    /\ importing = [p \in Importers |-> importing[p]]
    /\ \A p \in Importers : JobShape(importing[p])
    /\ OverlayShape
    /\ imported \in Seq(ImportRecords)
    /\ changes \in Nat

\* Every version that is about was taken from the count of changes.
VersionsInv ==
    /\ VersionsBelow(imported, changes)
    /\ overlay # Registry!Torn => VersionsBelow(overlay.records, changes)
    /\ \A p \in Importers : importing[p] # Registry!Idle =>
          importing[p].version < changes /\ VersionsBelow(importing[p].records, changes)

\* A version is nobody else's, and is not in the overlay, until it is saved.
FreshInv ==
    \A p \in Importers : importing[p] # Registry!Idle =>
        /\ overlay # Registry!Torn => ~HasVersion(overlay.records, importing[p].version)
        /\ \A q \in Importers \ {p} : importing[q] # Registry!Idle =>
              importing[q].version # importing[p].version /\ ~HasVersion(importing[q].records, importing[p].version)

OverlayInv ==
    ~interleaved =>
        /\ \A p \in Importers : importing[p].phase = "saving" =>
              /\ overlay = Registry!Torn
              /\ importing[p].records = Accumulated(Append(imported, Registry!Record(importing[p])))
              /\ \A q \in Importers \ {p} : importing[q].phase # "saving"
        /\ (\A p \in Importers : importing[p].phase # "saving") => overlay = OverlayOf(Accumulated(imported))
        /\ \A p \in Importers : importing[p].phase = "read" /\ overlay = importing[p].base /\ overlay # Registry!Torn =>
              VersionsBelow(imported, importing[p].version)

ImportInv == ImportShape /\ VersionsInv /\ FreshInv /\ OverlayInv

LEMMA OverlayIsNotTorn ==
    ASSUME NEW s
    PROVE  OverlayOf(s) # Registry!Torn /\ OverlayOf(s).records = s
  <1>1. "records" \in DOMAIN OverlayOf(s) /\ "records" \notin DOMAIN Registry!Torn
    BY DEF OverlayOf, Registry!Torn
  <1> QED BY <1>1 DEF OverlayOf

LEMMA IdlePhase == Registry!Idle.phase = "idle"
  BY DEF Registry!Idle

LEMMA ImportsStart ==
    ASSUME Registry!Init
    PROVE  ImportInv
  <1>1. /\ overlay = [records |-> << >>] /\ importing = [p \in {"a", "b"} |-> Registry!Idle] /\ imported = << >>
        /\ changes = 0
    BY DEF Registry!Init
  <1>2. PICK e : e = << >> /\ e \in Seq(ImportRecords) /\ Len(e) = 0
    <2>1. << >> \in Seq(ImportRecords) /\ Len(<< >>) = 0
      OBVIOUS
    <2> QED BY <2>1, Zenon
  <1>3. overlay = OverlayOf(e) /\ overlay.records = e /\ imported = e /\ Accumulated(e) = e
    BY <1>1, <1>2, OverlayIsNotTorn, NothingAccumulated DEF OverlayOf
  <1>4. importing = [p \in Importers |-> importing[p]] /\ \A p \in Importers : importing[p] = Registry!Idle
    BY <1>1 DEF Importers
  <1>5. ImportShape
    BY <1>1, <1>2, <1>3, <1>4 DEF ImportShape, JobShape, OverlayShape
  <1>6. VersionsInv
    BY <1>1, <1>2, <1>3, <1>4 DEF VersionsInv, VersionsBelow
  <1>7. FreshInv
    BY <1>4 DEF FreshInv
  <1>8. OverlayInv
    BY <1>3, <1>4, IdlePhase DEF OverlayInv
  <1> QED BY <1>5, <1>6, <1>7, <1>8 DEF ImportInv

\* Changes of the registry leave the imports alone; the count may grow.
LEMMA ImportsUnmoved ==
    ASSUME ImportInv, UNCHANGED <<overlay, importing, imported, interleaved>>, changes' \in Nat, changes <= changes'
    PROVE  ImportInv'
  <1>1. PICK now \in Nat : now = changes'
    OBVIOUS
  <1>2. \A s \in Seq(ImportRecords) : VersionsBelow(s, changes) => VersionsBelow(s, now)
    <2> SUFFICES ASSUME NEW s \in Seq(ImportRecords), VersionsBelow(s, changes), NEW i \in 1 .. Len(s)
                 PROVE  s[i].version < now
      BY DEF VersionsBelow
    <2>1. s[i].version \in Nat /\ s[i].version < changes
      <3>1. s[i] \in ImportRecords
        OBVIOUS
      <3> QED BY <3>1 DEF ImportRecords, VersionsBelow
    <2> QED BY <1>1, <2>1 DEF ImportInv, ImportShape
  <1>3. ImportShape'
    BY DEF ImportInv, ImportShape, OverlayShape
  <1>4. VersionsInv'
    <2>1. VersionsBelow(imported, now)
      BY <1>2 DEF ImportInv, ImportShape, VersionsInv
    <2>2. overlay # Registry!Torn => VersionsBelow(overlay.records, now)
      BY <1>2 DEF ImportInv, ImportShape, OverlayShape, VersionsInv
    <2>3. ASSUME NEW p \in Importers, importing[p] # Registry!Idle
          PROVE  importing[p].version < now /\ VersionsBelow(importing[p].records, now)
      <3>1. /\ importing[p].records \in Seq(ImportRecords) /\ importing[p].version \in Nat /\ changes \in Nat
            /\ importing[p].version < changes /\ VersionsBelow(importing[p].records, changes)
        BY <2>3 DEF ImportInv, ImportShape, JobShape, VersionsInv
      <3> QED BY <1>1, <1>2, <3>1
    <2> QED BY <1>1, <2>1, <2>2, <2>3 DEF VersionsInv
  <1>5. FreshInv'
    BY DEF ImportInv, FreshInv
  <1>6. OverlayInv'
    BY DEF ImportInv, OverlayInv
  <1> QED BY <1>3, <1>4, <1>5, <1>6 DEF ImportInv


\* One job is replaced by j; the others are left alone.
Replaced(p, j) ==
    /\ importing' = [q \in Importers |-> importing'[q]]
    /\ importing'[p] = j
    /\ \A q \in Importers \ {p} : importing'[q] = importing[q]

LEMMA JobReplaced ==
    ASSUME ImportShape, NEW p \in Importers, NEW j, importing' = [importing EXCEPT ![p] = j]
    PROVE  Replaced(p, j)
  <1>1. PICK f : f = importing /\ f = [q \in Importers |-> f[q]]
    BY DEF ImportShape
  <1>2. PICK g : g = [f EXCEPT ![p] = j]
    BY Zenon
  <1>3. g = [q \in Importers |-> g[q]] /\ g[p] = j /\ \A q \in Importers \ {p} : g[q] = f[q]
    BY <1>1, <1>2
  <1> QED BY <1>1, <1>2, <1>3 DEF Replaced

LEMMA ReadKeeps ==
    ASSUME ImportInv, NEW p \in Importers, NEW item \in Items, Registry!ImportReads(p, item)
    PROVE  ImportInv'
  <1>1. PICK s : s = IF overlay = Registry!Torn THEN << >> ELSE overlay.records
    OBVIOUS
  <1>14. PICK b : b = overlay
    OBVIOUS
  <1>2. PICK v \in Nat : v = changes /\ b = overlay
    BY <1>14 DEF ImportInv, ImportShape
  <1>3. PICK j : j = [phase |-> "read", item |-> item, version |-> v, base |-> b, records |-> s]
    BY Zenon
  <1>4. /\ importing[p] = Registry!Idle /\ changes' = v + 1 /\ importing' = [importing EXCEPT ![p] = j]
        /\ UNCHANGED <<overlay, imported, interleaved>>
    BY <1>1, <1>2, <1>3 DEF Registry!ImportReads, Registry!Counted
  <1>5. Replaced(p, j)
    BY <1>4, JobReplaced, Zenon DEF ImportInv
  <1>6. /\ j.phase = "read" /\ j.version = v /\ j.base = b /\ j.records = s /\ j.item = item
        /\ j # Registry!Idle
    BY <1>3 DEF Registry!Idle
  <1>7. s \in Seq(ImportRecords) /\ VersionsBelow(s, v)
    <2>1. << >> \in Seq(ImportRecords) /\ VersionsBelow(<< >>, v)
      BY DEF VersionsBelow
    <2> QED BY <1>1, <1>2, <2>1 DEF ImportInv, ImportShape, OverlayShape, VersionsInv
  <1>8. JobShape(j)
    <2>1. IF b = Registry!Torn THEN s = << >> ELSE b = OverlayOf(s)
      BY <1>1, <1>2 DEF ImportInv, ImportShape, OverlayShape
    <2>2. j = [phase |-> j.phase, item |-> j.item, version |-> j.version, base |-> j.base, records |-> j.records]
      BY <1>3
    <2> QED BY <1>2, <1>6, <1>7, <2>1, <2>2 DEF JobShape
  <1>9. ImportShape'
    BY <1>4, <1>5, <1>8 DEF ImportInv, ImportShape, OverlayShape, Replaced
  <1>10. \A t \in Seq(ImportRecords) : VersionsBelow(t, v) => VersionsBelow(t, v + 1)
    <2> SUFFICES ASSUME NEW t \in Seq(ImportRecords), VersionsBelow(t, v), NEW i \in 1 .. Len(t)
                 PROVE  t[i].version < v + 1
      BY DEF VersionsBelow
    <2>1. t[i].version \in Nat /\ t[i].version < v
      <3>1. t[i] \in ImportRecords
        OBVIOUS
      <3> QED BY <3>1 DEF ImportRecords, VersionsBelow
    <2> QED BY <2>1
  <1>11. VersionsInv'
    <2>1. VersionsBelow(imported, v + 1)
      BY <1>2, <1>10 DEF ImportInv, ImportShape, VersionsInv
    <2>2. overlay # Registry!Torn => VersionsBelow(overlay.records, v + 1)
      BY <1>2, <1>10 DEF ImportInv, ImportShape, OverlayShape, VersionsInv
    <2>3. ASSUME NEW q \in Importers, importing'[q] # Registry!Idle
          PROVE  importing'[q].version < v + 1 /\ VersionsBelow(importing'[q].records, v + 1)
      <3>1. CASE q = p
        BY <1>5, <1>6, <1>7, <1>10, <3>1 DEF Replaced
      <3>2. CASE q # p
        <4>1. importing'[q] = importing[q] /\ importing[q] # Registry!Idle
          BY <1>5, <2>3, <3>2 DEF Replaced
        <4>2. /\ importing[q].records \in Seq(ImportRecords) /\ importing[q].version \in Nat
              /\ importing[q].version < v /\ VersionsBelow(importing[q].records, v)
          BY <1>2, <4>1 DEF ImportInv, ImportShape, JobShape, VersionsInv
        <4> QED BY <1>10, <4>1, <4>2
      <3> QED BY <3>1, <3>2
    <2> QED BY <1>4, <2>1, <2>2, <2>3 DEF VersionsInv
  <1>12. FreshInv'
    <2>1. \A t \in Seq(ImportRecords) : VersionsBelow(t, v) => ~HasVersion(t, v)
      BY DEF VersionsBelow, HasVersion
    <2>2. overlay # Registry!Torn => ~HasVersion(overlay.records, v)
      BY <1>2, <2>1 DEF ImportInv, ImportShape, OverlayShape, VersionsInv
    <2>3. ASSUME NEW q \in Importers \ {p}, importing[q] # Registry!Idle
          PROVE  /\ importing[q].version # v /\ ~HasVersion(importing[q].records, v)
                 /\ ~HasVersion(s, importing[q].version)
                 /\ overlay # Registry!Torn => ~HasVersion(overlay.records, importing[q].version)
      <3>1. /\ importing[q].records \in Seq(ImportRecords) /\ importing[q].version \in Nat
            /\ importing[q].version < v /\ VersionsBelow(importing[q].records, v)
        BY <1>2, <2>3 DEF ImportInv, ImportShape, JobShape, VersionsInv
      <3>2. overlay # Registry!Torn => ~HasVersion(overlay.records, importing[q].version)
        BY <2>3 DEF ImportInv, FreshInv
      <3>3. ~HasVersion(s, importing[q].version)
        <4>1. ~HasVersion(<< >>, importing[q].version)
          BY DEF HasVersion
        <4> QED BY <1>1, <3>2, <4>1
      <3> QED BY <2>1, <3>1, <3>2, <3>3
    <2> SUFFICES ASSUME NEW q \in Importers, importing'[q] # Registry!Idle
                 PROVE  /\ overlay # Registry!Torn => ~HasVersion(overlay.records, importing'[q].version)
                        /\ \A r \in Importers \ {q} : importing'[r] # Registry!Idle =>
                              /\ importing'[r].version # importing'[q].version
                              /\ ~HasVersion(importing'[r].records, importing'[q].version)
      BY <1>4 DEF FreshInv
    <2>4. CASE q = p
      BY <1>5, <1>6, <2>2, <2>3, <2>4 DEF Replaced
    <2>5. CASE q # p
      <3>1. importing'[q] = importing[q] /\ q \in Importers \ {p}
        BY <1>5, <2>5 DEF Replaced
      <3>2. ASSUME NEW r \in Importers \ {q}, importing'[r] # Registry!Idle
            PROVE  /\ importing'[r].version # importing[q].version
                   /\ ~HasVersion(importing'[r].records, importing[q].version)
        <4>1. CASE r = p
          BY <1>5, <1>6, <2>3, <3>1, <4>1 DEF Replaced
        <4>2. CASE r # p
          <5>1. importing'[r] = importing[r]
            BY <1>5, <4>2 DEF Replaced
          <5> QED BY <3>1, <3>2, <5>1 DEF ImportInv, FreshInv
        <4> QED BY <4>1, <4>2
      <3> QED BY <2>3, <3>1, <3>2
    <2> QED BY <2>4, <2>5
  <1>13. OverlayInv'
    <2> SUFFICES ASSUME ~interleaved PROVE OverlayInv'
      BY <1>4 DEF OverlayInv
    <2>1. /\ importing[p].phase # "saving" /\ importing'[p].phase # "saving"
          /\ \A q \in Importers : q # p => importing'[q] = importing[q]
      BY <1>4, <1>5, <1>6, IdlePhase DEF Replaced
    <2>2. VersionsBelow(imported, v)
      BY <1>2 DEF ImportInv, VersionsInv
    <2>3. ASSUME NEW q \in Importers, importing'[q].phase = "saving"
          PROVE  /\ overlay = Registry!Torn
                 /\ importing'[q].records = Accumulated(Append(imported, Registry!Record(importing'[q])))
                 /\ \A r \in Importers \ {q} : importing'[r].phase # "saving"
      <3>1. importing'[q] = importing[q] /\ q # p
        BY <2>1, <2>3
      <3> QED BY <2>1, <2>3, <3>1 DEF ImportInv, OverlayInv
    <2>4. (\A q \in Importers : importing'[q].phase # "saving") => overlay = OverlayOf(Accumulated(imported))
      BY <2>1 DEF ImportInv, OverlayInv
    <2>5. ASSUME NEW q \in Importers, importing'[q].phase = "read", overlay = importing'[q].base, overlay # Registry!Torn
          PROVE  VersionsBelow(imported, importing'[q].version)
      <3>1. CASE q = p
        BY <1>5, <1>6, <2>2, <3>1 DEF Replaced
      <3>2. CASE q # p
        BY <2>1, <2>5, <3>2 DEF ImportInv, OverlayInv
      <3> QED BY <3>1, <3>2
    <2> QED BY <1>4, <2>3, <2>4, <2>5 DEF OverlayInv
  <1> QED BY <1>9, <1>11, <1>12, <1>13 DEF ImportInv

LEMMA DiesKeeps ==
    ASSUME ImportInv, NEW p \in Importers, Registry!ImportDies(p)
    PROVE  ImportInv'
  <1>1. /\ importing' = [importing EXCEPT ![p] = Registry!Idle] /\ interleaved' = TRUE
        /\ UNCHANGED <<overlay, imported, changes>>
    BY DEF Registry!ImportDies
  <1>2. Replaced(p, Registry!Idle)
    BY <1>1, JobReplaced, Zenon DEF ImportInv
  <1>3. \A q \in Importers : importing'[q] # Registry!Idle => importing'[q] = importing[q]
    BY <1>2 DEF Replaced
  <1>4. ImportShape'
    <2>1. \A q \in Importers : JobShape(importing'[q])
      BY <1>3 DEF ImportInv, ImportShape, JobShape
    <2> QED BY <1>1, <1>2, <2>1 DEF ImportInv, ImportShape, OverlayShape, Replaced
  <1>5. VersionsInv'
    BY <1>1, <1>3 DEF ImportInv, VersionsInv
  <1>6. FreshInv'
    BY <1>1, <1>3 DEF ImportInv, FreshInv
  <1>7. OverlayInv'
    BY <1>1 DEF OverlayInv
  <1> QED BY <1>4, <1>5, <1>6, <1>7 DEF ImportInv


SavingJob(j, s) == [j EXCEPT !.phase = "saving", !.records = s]

LEMMA JobUpdate ==
    ASSUME NEW j, NEW s, JobShape(j), j # Registry!Idle
    PROVE  SavingJob(j, s) = [phase |-> "saving", item |-> j.item, version |-> j.version, base |-> j.base, records |-> s]
  <1>1. PICK h, i, v, b, r : h = j.phase /\ i = j.item /\ v = j.version /\ b = j.base /\ r = j.records
    OBVIOUS
  <1>2. j = [phase |-> h, item |-> i, version |-> v, base |-> b, records |-> r]
    BY <1>1 DEF JobShape
  <1>3. PICK d : d = [j EXCEPT !.phase = "saving"]
    BY Zenon
  <1>4. d = [phase |-> "saving", item |-> i, version |-> v, base |-> b, records |-> r]
    BY <1>2, <1>3
  <1>5. [d EXCEPT !.records = s] = [phase |-> "saving", item |-> i, version |-> v, base |-> b, records |-> s]
    BY <1>4
  <1>6. SavingJob(j, s) = [d EXCEPT !.records = s]
    BY <1>3 DEF SavingJob
  <1> QED BY <1>1, <1>5, <1>6

LEMMA TruncatesKeeps ==
    ASSUME ImportInv, NEW p \in Importers, Registry!ImportTruncates(p)
    PROVE  ImportInv'
  <1>1. PICK i : i = importing[p] /\ i.phase = "read" /\ i # Registry!Idle /\ JobShape(i)
    BY IdlePhase DEF Registry!ImportTruncates, ImportInv, ImportShape
  <1>2. PICK x : x = Registry!Record(i)
    OBVIOUS
  <1>3. x \in ImportRecords /\ x.version = i.version /\ i.version \in Nat
    BY <1>1, <1>2 DEF Registry!Record, JobShape, ImportRecords
  <1>4. PICK s : s = Registry!WithRecord(i.records, x)
    OBVIOUS
  <1>5. PICK j : j = SavingJob(i, s)
    OBVIOUS
  <1>6. /\ importing' = [importing EXCEPT ![p] = j] /\ overlay' = Registry!Torn
        /\ interleaved' = (interleaved \/ overlay # i.base \/ overlay = Registry!Torn)
        /\ UNCHANGED <<imported, changes>>
    BY <1>1, <1>2, <1>4, <1>5 DEF Registry!ImportTruncates, SavingJob
  <1>7. Replaced(p, j)
    BY <1>6, JobReplaced, Zenon DEF ImportInv
  <1>8. PICK it, v, b : it = i.item /\ v = i.version /\ b = i.base
    OBVIOUS
  <1>9. j = [phase |-> "saving", item |-> it, version |-> v, base |-> b, records |-> s]
    BY <1>1, <1>5, <1>8, JobUpdate
  <1>10. /\ j.phase = "saving" /\ j.version = v /\ j.item = it /\ j.records = s /\ j # Registry!Idle
         /\ j = [phase |-> j.phase, item |-> j.item, version |-> j.version, base |-> j.base, records |-> j.records]
    BY <1>9 DEF Registry!Idle
  <1>11. /\ s \in Seq(ImportRecords) /\ HasVersion(s, v)
         /\ \A w : HasVersion(s, w) => w = v \/ HasVersion(i.records, w)
    <2>1. i.records \in Seq(ImportRecords)
      BY <1>1 DEF JobShape
    <2> QED BY <1>3, <1>4, <1>8, <2>1, WithRecordAdds
  <1>12. JobShape(j)
    <2>1. it \in Items /\ v \in Nat
      BY <1>1, <1>8 DEF JobShape
    <2> QED BY <1>10, <1>11, <2>1 DEF JobShape
  <1>13. ImportShape'
    <2>1. \A q \in Importers : JobShape(importing'[q])
      BY <1>7, <1>12 DEF ImportInv, ImportShape, Replaced
    <2> QED BY <1>6, <1>7, <2>1 DEF ImportInv, ImportShape, OverlayShape, Replaced
  <1>14. VersionsInv'
    <2>1. v < changes /\ VersionsBelow(i.records, changes) /\ changes \in Nat
      BY <1>1, <1>8 DEF ImportInv, ImportShape, VersionsInv
    <2>2. VersionsBelow(s, changes)
      <3> SUFFICES ASSUME NEW k \in 1 .. Len(s) PROVE s[k].version < changes
        BY DEF VersionsBelow
      <3>1. HasVersion(s, s[k].version)
        BY DEF HasVersion
      <3>2. s[k].version = v \/ HasVersion(i.records, s[k].version)
        BY <1>11, <3>1
      <3> QED BY <2>1, <3>2 DEF HasVersion, VersionsBelow
    <2>3. \A q \in Importers : importing'[q] # Registry!Idle =>
              importing'[q].version < changes /\ VersionsBelow(importing'[q].records, changes)
      BY <1>7, <1>10, <2>1, <2>2 DEF ImportInv, VersionsInv, Replaced
    <2> QED BY <1>6, <2>3 DEF ImportInv, VersionsInv
  <1>15. FreshInv'
    <2> SUFFICES ASSUME NEW q \in Importers, importing'[q] # Registry!Idle,
                        NEW r \in Importers \ {q}, importing'[r] # Registry!Idle
                 PROVE  /\ importing'[r].version # importing'[q].version
                        /\ ~HasVersion(importing'[r].records, importing'[q].version)
      BY <1>6 DEF FreshInv
    <2>1. importing[p] # Registry!Idle /\ importing[p].version = v /\ importing[p].records = i.records
      BY <1>1, <1>8
    <2>2. CASE q = p
      <3>1. importing'[r] = importing[r] /\ importing'[q].version = importing[p].version
        BY <1>7, <1>10, <2>1, <2>2 DEF Replaced
      <3> QED BY <2>1, <2>2, <3>1 DEF ImportInv, FreshInv
    <2>3. CASE q # p /\ r = p
      <3>1. importing'[q] = importing[q] /\ importing'[r] = j
        BY <1>7, <2>3 DEF Replaced
      <3>2. v # importing[q].version /\ ~HasVersion(i.records, importing[q].version)
        BY <2>1, <2>3, <3>1 DEF ImportInv, FreshInv
      <3> QED BY <1>10, <1>11, <3>1, <3>2
    <2>4. CASE q # p /\ r # p
      <3>1. importing'[q] = importing[q] /\ importing'[r] = importing[r]
        BY <1>7, <2>4 DEF Replaced
      <3> QED BY <3>1 DEF ImportInv, FreshInv
    <2> QED BY <2>2, <2>3, <2>4
  <1>16. OverlayInv'
    <2> SUFFICES ASSUME ~interleaved' PROVE OverlayInv'
      BY DEF OverlayInv
    <2>1. ~interleaved /\ overlay = i.base /\ overlay # Registry!Torn
      BY <1>6, Zenon
    <2>2. \A q \in Importers : importing[q].phase # "saving"
      BY <2>1 DEF ImportInv, OverlayInv
    <2>3. overlay = OverlayOf(Accumulated(imported)) /\ VersionsBelow(imported, i.version)
      BY <1>1, <2>1, <2>2 DEF ImportInv, OverlayInv
    <2>4. i.records = Accumulated(imported)
      <3>1. overlay = OverlayOf(i.records)
        BY <1>1, <2>1 DEF JobShape
      <3> QED BY <2>3, <3>1, OverlayIsNotTorn, Zenon
    <2>5. s = Accumulated(Append(imported, x))
      BY <1>3, <1>4, <2>3, <2>4, AccumulatedAppended DEF ImportInv, ImportShape
    <2>6. Registry!Record(j) = x
      BY <1>2, <1>8, <1>10 DEF Registry!Record
    <2>7. ASSUME NEW q \in Importers, importing'[q].phase = "saving"
          PROVE  /\ importing'[q].records = Accumulated(Append(imported, Registry!Record(importing'[q])))
                 /\ \A r \in Importers \ {q} : importing'[r].phase # "saving"
      <3>1. q = p
        BY <1>7, <2>2, <2>7 DEF Replaced
      <3>2. importing'[q] = j /\ \A r \in Importers \ {q} : importing'[r] = importing[r]
        BY <1>7, <3>1 DEF Replaced
      <3> QED BY <1>10, <2>2, <2>5, <2>6, <3>2
    <2>8. importing'[p].phase = "saving"
      BY <1>7, <1>10 DEF Replaced
    <2> QED BY <1>6, <2>7, <2>8 DEF OverlayInv
  <1> QED BY <1>13, <1>14, <1>15, <1>16 DEF ImportInv

LEMMA ImportedKeeps ==
    ASSUME ImportInv, NEW p \in Importers, Registry!ImportSaved(p)
    PROVE  ImportInv'
  <1>1. PICK i : i = importing[p] /\ i.phase = "saving" /\ i # Registry!Idle /\ JobShape(i)
    BY IdlePhase DEF Registry!ImportSaved, ImportInv, ImportShape
  <1>2. PICK x : x = Registry!Record(i)
    OBVIOUS
  <1>3. /\ x \in ImportRecords /\ x.version = i.version /\ i.version \in Nat
        /\ i.records \in Seq(ImportRecords) /\ HasVersion(i.records, i.version)
    BY <1>1, <1>2 DEF Registry!Record, JobShape, ImportRecords
  <1>4. /\ importing' = [importing EXCEPT ![p] = Registry!Idle]
        /\ overlay' = OverlayOf(i.records) \/ (overlay # Registry!Torn /\ overlay' = Registry!Torn)
        /\ interleaved' = (interleaved \/ overlay # Registry!Torn)
        /\ imported' = Append(imported, x) /\ UNCHANGED changes
    BY <1>1, <1>2 DEF Registry!ImportSaved, OverlayOf
  <1>5. Replaced(p, Registry!Idle)
    BY <1>4, JobReplaced, Zenon DEF ImportInv
  <1>6. \A q \in Importers : importing'[q] # Registry!Idle => q # p /\ importing'[q] = importing[q]
    BY <1>5 DEF Replaced
  <1>7. PICK t \in Seq(ImportRecords) : t = imported
    BY DEF ImportInv, ImportShape
  <1>8. overlay' # Registry!Torn => overlay' = OverlayOf(i.records) /\ overlay'.records = i.records
    BY <1>4, OverlayIsNotTorn
  <1>9. ImportShape'
    <2>1. \A q \in Importers : JobShape(importing'[q])
      BY <1>6 DEF ImportInv, ImportShape, JobShape
    <2>2. imported' \in Seq(ImportRecords)
      BY <1>3, <1>4, <1>7
    <2>3. OverlayShape'
      BY <1>3, <1>8 DEF OverlayShape
    <2> QED BY <1>4, <1>5, <2>1, <2>2, <2>3 DEF ImportInv, ImportShape, Replaced
  <1>10. VersionsInv'
    <2>1. x.version < changes /\ VersionsBelow(i.records, changes) /\ VersionsBelow(t, changes)
      BY <1>1, <1>3, <1>7 DEF ImportInv, VersionsInv
    <2>2. VersionsBelow(Append(t, x), changes)
      <3> SUFFICES ASSUME NEW k \in 1 .. Len(Append(t, x)) PROVE Append(t, x)[k].version < changes
        BY DEF VersionsBelow
      <3>1. CASE k \in 1 .. Len(t)
        BY <2>1, <3>1 DEF VersionsBelow
      <3>2. CASE k = Len(t) + 1
        BY <2>1, <3>2
      <3> QED BY <3>1, <3>2
    <2> QED BY <1>4, <1>6, <1>7, <1>8, <2>1, <2>2 DEF ImportInv, VersionsInv
  <1>11. FreshInv'
    <2>1. ASSUME NEW q \in Importers, importing'[q] # Registry!Idle
          PROVE  ~HasVersion(i.records, importing'[q].version)
      BY <1>1, <1>6, <2>1 DEF ImportInv, FreshInv
    <2> QED BY <1>6, <1>8, <2>1 DEF ImportInv, FreshInv
  <1>12. OverlayInv'
    <2> SUFFICES ASSUME ~interleaved' PROVE OverlayInv'
      BY DEF OverlayInv
    <2>1. ~interleaved /\ overlay = Registry!Torn /\ overlay' = OverlayOf(i.records)
      BY <1>4, Zenon
    <2>2. i.records = Accumulated(imported') /\ \A q \in Importers \ {p} : importing[q].phase # "saving"
      BY <1>1, <1>2, <1>4, <2>1 DEF ImportInv, OverlayInv
    <2>3. \A q \in Importers : importing'[q].phase # "saving"
      BY <1>5, <2>2, IdlePhase DEF Replaced
    <2>4. ASSUME NEW q \in Importers, importing'[q].phase = "read", overlay' = importing'[q].base, overlay' # Registry!Torn
          PROVE  FALSE
      <3>1. importing'[q] # Registry!Idle
        BY <2>4, IdlePhase
      <3>2. q # p /\ importing'[q] = importing[q] /\ importing[q] # Registry!Idle
        BY <1>6, <3>1
      <3>3. importing[q].base = OverlayOf(importing[q].records)
        BY <2>4, <3>2 DEF ImportInv, ImportShape, JobShape
      <3>4. importing[q].records = i.records
        BY <2>1, <2>4, <3>2, <3>3, OverlayIsNotTorn, Zenon
      <3>5. ~HasVersion(importing[q].records, i.version)
        BY <1>1, <3>2 DEF ImportInv, FreshInv
      <3> QED BY <1>3, <3>4, <3>5
    <2> QED BY <2>1, <2>2, <2>3, <2>4 DEF OverlayInv
  <1> QED BY <1>9, <1>10, <1>11, <1>12 DEF ImportInv


LEMMA CopiesAreSound ==
    ASSUME EndpointInv, NEW copy \in Registry!Copies
    PROVE  Sound(copy)
  <1>1. Sound(memory) /\ Sound(Registry!load(registryFile))
    BY NewIsSound DEF EndpointInv, CopiesInv, Registry!load
  <1>2. command # Registry!Idle => Sound(command.registry)
    BY DEF EndpointInv, CopiesInv, CommandShape
  <1>3. copy \in {memory, Registry!load(registryFile)} \/ (command # Registry!Idle /\ copy = command.registry)
    BY DEF Registry!Copies
  <1> QED BY <1>1, <1>2, <1>3

LEMMA RegistryIsKept ==
    ASSUME EndpointInv, ImportInv
    PROVE  RegistryKeepsItsChanges
  <1>1. Registry!HistoryExplainsEndpoints
    <2> SUFFICES ASSUME NEW copy \in Registry!Copies
                 PROVE  /\ {copy.endpoints[i] : i \in DOMAIN copy.endpoints} = Registry!Explained(copy.history)
                        /\ Len(copy.endpoints) = Registry!Cardinality(Registry!RegisteredIds(copy))
      BY Zenon DEF Registry!HistoryExplainsEndpoints
    <2>1. Sound(copy)
      BY CopiesAreSound
    <2>2. {copy.endpoints[i] : i \in DOMAIN copy.endpoints} = Registry!Explained(copy.history)
      <3>1. PICK eps : eps = copy.endpoints /\ Registry!Range(eps) = Registry!Explained(copy.history)
        BY <2>1 DEF Sound
      <3>2. {eps[i] : i \in DOMAIN eps} = Registry!Range(eps)
        BY DEF Registry!Range
      <3> QED BY <3>1, <3>2, Zenon
    <2>3. Len(copy.endpoints) = Registry!Cardinality(Registry!RegisteredIds(copy))
      BY <2>1, ListedAreRegistered, SameCardinality
    <2> QED BY <2>2, <2>3
  <1>2. Registry!SearchesNameRegistered
    <2> SUFFICES ASSUME NEW copy \in Registry!Copies, NEW i \in DOMAIN copy.history,
                        copy.history[i].origin = "ui", copy.history[i].op = "search",
                        NEW id \in {copy.history[i].ids[n] : n \in DOMAIN copy.history[i].ids}
                 PROVE  \E k \in 1 .. i - 1 : copy.history[k].op = "register" /\ copy.history[k].ids[1] = id
      BY Zenon DEF Registry!SearchesNameRegistered
    <2>1. PICK h \in Seq(RegistryEntries) : h = copy.history /\ SearchesFollow(h)
      BY CopiesAreSound DEF Sound
    <2>2. i \in 1 .. Len(h)
      BY <2>1
    <2>3. PICK n \in DOMAIN h[i].ids : id = h[i].ids[n]
      BY <2>1
    <2> QED BY <2>1, <2>2, <2>3 DEF SearchesFollow
  <1>3. Registry!ReportedChangesAreKept
    <2> SUFFICES ASSUME ~overlapped, ~writing, command.phase # "saving"
                 PROVE  Registry!load(registryFile).history = acked
      BY DEF Registry!ReportedChangesAreKept
    <2>1. registryFile # Registry!Torn /\ registryFile.history = acked
      BY DEF EndpointInv, FileInv
    <2> QED BY <2>1 DEF Registry!load
  <1>4. Registry!ImportsAccumulate
    <2>1. DOMAIN importing = Importers
      BY DEF ImportInv, ImportShape
    <2> SUFFICES ASSUME ~interleaved, \A p \in Importers : importing[p].phase # "saving"
                 PROVE  overlay = OverlayOf(Accumulated(imported))
      BY <2>1, Zenon DEF Registry!ImportsAccumulate, OverlayOf, Accumulated, LastImports
    <2> QED BY DEF ImportInv, OverlayInv
  <1> QED BY <1>1, <1>2, <1>3, <1>4
      DEF RegistryKeepsItsChanges, HistoryExplainsEndpoints, SearchesNameRegistered, ReportedChangesAreKept, ImportsAccumulate

LEMMA RegistrySteps ==
    ASSUME EndpointInv, ImportInv, [SessionsNext]_allVars
    PROVE  EndpointInv' /\ ImportInv'
  <1>1. CASE Registry!Next
    <2>1. changes \in Nat /\ DOMAIN importing = Importers
      BY DEF ImportInv, ImportShape
    <2>2. CASE \E entry \in Registry!RegisterOrRemove("ui") : Registry!WorkbenchChange(entry)
      <3>1. PICK entry \in Registry!RegisterOrRemove("ui") : Registry!WorkbenchChange(entry)
        BY <2>2
      <3>2. changes' = changes + 1 /\ UNCHANGED <<overlay, importing, imported, interleaved>>
        BY <3>1 DEF Registry!WorkbenchChange, Registry!Counted, Registry!overlayVars
      <3>3. changes' \in Nat /\ changes <= changes'
        BY <2>1, <3>2
      <3> QED BY <3>1, <3>2, <3>3, ChangeKeeps, ImportsUnmoved
    <2>3. CASE \E ids \in SUBSET Endpoints : Registry!WorkbenchSearch(ids)
      <3>1. PICK ids \in SUBSET Endpoints : Registry!WorkbenchSearch(ids)
        BY <2>3
      <3>2. changes' = changes + 1 /\ UNCHANGED <<overlay, importing, imported, interleaved>>
        BY <3>1 DEF Registry!WorkbenchSearch, Registry!Counted, Registry!overlayVars
      <3>3. changes' \in Nat /\ changes <= changes'
        BY <2>1, <3>2
      <3> QED BY <3>1, <3>2, <3>3, SearchKeeps, ImportsUnmoved
    <2>4. CASE \E op \in {"register", "remove", "search"} : Registry!CommandLoads(op)
      <3>1. PICK op \in {"register", "remove", "search"} : Registry!CommandLoads(op)
        BY <2>4
      <3>2. changes' = changes + 1 /\ UNCHANGED <<overlay, importing, imported, interleaved>>
        BY <3>1 DEF Registry!CommandLoads, Registry!Counted, Registry!overlayVars
      <3>3. changes' \in Nat /\ changes <= changes'
        BY <2>1, <3>2
      <3> QED BY <3>1, <3>2, <3>3, LoadsKeeps, ImportsUnmoved
    <2>5. CASE UNCHANGED <<overlay, importing, imported, interleaved, changes>> /\
               \/ Registry!WorkbenchSearched \/ Registry!WorkbenchSaved \/ Registry!WorkbenchRestart
               \/ Registry!CommandApplies \/ Registry!CommandSearched \/ Registry!CommandSaved \/ Registry!CommandEnds
      <3>1. changes' \in Nat /\ changes <= changes'
        BY <2>1, <2>5
      <3>2. ImportInv'
        BY <2>5, <3>1, ImportsUnmoved
      <3>3. EndpointInv'
        BY <2>5, SearchedKeeps, SavedKeeps, RestartKeeps, AppliesKeeps, CommandSearchedKeeps, CommandSavedKeeps,
           CommandEndsKeeps
      <3> QED BY <3>2, <3>3
    <2>6. CASE \E p \in Importers, item \in Items : Registry!ImportReads(p, item)
      <3>1. PICK p \in Importers, item \in Items : Registry!ImportReads(p, item)
        BY <2>6
      <3>2. UNCHANGED <<registryFile, memory, writing, searching, command, acked, overlapped>>
        BY <3>1 DEF Registry!ImportReads, Registry!registryVars
      <3> QED BY <3>1, <3>2, ReadKeeps, RegistryUnmoved
    <2>7. CASE \E p \in Importers : Registry!ImportTruncates(p) \/ Registry!ImportSaved(p) \/ Registry!ImportDies(p)
      <3>1. PICK p \in Importers : Registry!ImportTruncates(p) \/ Registry!ImportSaved(p) \/ Registry!ImportDies(p)
        BY <2>7
      <3>2. UNCHANGED <<registryFile, memory, writing, searching, command, acked, overlapped>>
        BY <3>1 DEF Registry!ImportTruncates, Registry!ImportSaved, Registry!ImportDies, Registry!registryVars
      <3> QED BY <3>1, <3>2, TruncatesKeeps, ImportedKeeps, DiesKeeps, RegistryUnmoved
    <2>8. \/ Registry!WorkbenchSearched \/ Registry!WorkbenchSaved \/ Registry!WorkbenchRestart
          \/ Registry!CommandApplies \/ Registry!CommandSearched \/ Registry!CommandSaved \/ Registry!CommandEnds
          => UNCHANGED <<overlay, importing, imported, interleaved, changes>>
      BY Zenon DEF Registry!WorkbenchSearched, Registry!WorkbenchSaved, Registry!WorkbenchRestart, Registry!CommandApplies,
             Registry!CommandSearched, Registry!CommandSaved, Registry!CommandEnds, Registry!overlayVars
    <2> QED BY <1>1, <2>1, <2>2, <2>3, <2>4, <2>5, <2>6, <2>7, <2>8, Zenon DEF Registry!Next
  <1>2. CASE UNCHANGED endpointVars
    <2>1. /\ UNCHANGED <<registryFile, memory, writing, searching, command, acked, overlapped>>
          /\ UNCHANGED <<overlay, importing, imported, interleaved, changes>>
      BY <1>2 DEF endpointVars
    <2>2. changes' \in Nat /\ changes <= changes'
      BY <2>1 DEF ImportInv, ImportShape
    <2> QED BY <2>1, <2>2, RegistryUnmoved, ImportsUnmoved
  <1>3. Registry!Next \/ UNCHANGED endpointVars
    BY DEF SessionsNext, Still, allVars
  <1> QED BY <1>1, <1>2, <1>3

(* Whatever the workbench, the commands and two importers do to the two    *)
(* files, and wherever one of them dies: every copy of the registry is     *)
(* what its own history says, a search of the workbench names what was     *)
(* registered before it, and as long as no save replaced a version its     *)
(* writer had not read, the file is exactly what was reported as done and  *)
(* the overlay the last import of every item (EndpointRegistry::apply,     *)
(* record_search, save, import_stac_item_url).                             *)
THEOREM RegistryKeepsItsChangesTheorem == SessionsSpec => []RegistryKeepsItsChanges
  <1>1. SessionsInit => EndpointInv /\ ImportInv
    BY RegistryStarts, ImportsStart DEF SessionsInit
  <1> QED BY <1>1, RegistrySteps, RegistryIsKept, PTL DEF SessionsSpec

-----------------------------------------------------------------------------
(* Drafts.  Every version of a draft is a graph: steps that are named,     *)
(* each once, and references that resolve.                                 *)

LEMMA SameRetain ==
    ASSUME NEW s, NEW X
    PROVE  Composer!retain(s, X) = Registry!retain(s, X)
  BY Zenon DEF Composer!retain, Registry!retain

LEMMA SameRange ==
    ASSUME NEW f
    PROVE  Composer!Range(f) = Range(f)
  BY Zenon DEF Composer!Range, Range

GraphOf(g, st, o, c) == [goal |-> g, steps |-> st, output_refs |-> o, input_contracts |-> c]

\* The fields of a step an edit changes, and the ones it keeps.
StepOf(id, d, pa, de, i, o, oc) ==
    [stable_id |-> id, derived |-> d, parameters |-> pa, depends_on |-> de, inputs |-> i, outputs |-> o,
     output_contracts |-> oc]

Named(s) ==
    /\ s = StepOf(s.stable_id, s.derived, s.parameters, s.depends_on, s.inputs, s.outputs, s.output_contracts)
    /\ s.stable_id # NoNode

IdsOf(st) == {st[i].stable_id : i \in DOMAIN st}

\* A step whose references resolve among these nodes.
Resolving(s, ids) ==
    s.depends_on \subseteq ids /\ \A r \in s.inputs : r.node # NoNode => r.node \in s.depends_on

\* The steps of a graph, as a list.
Steps(st) ==
    /\ st \in Seq(Range(st))
    /\ \A i \in 1 .. Len(st) : Named(st[i]) /\ Resolving(st[i], IdsOf(st))
    /\ \A i, j \in 1 .. Len(st) : st[i].stable_id = st[j].stable_id => i = j

LEMMA GraphIs ==
    ASSUME NEW w
    PROVE  Graph(w) <=> /\ w = GraphOf(w.goal, w.steps, w.output_refs, w.input_contracts)
                        /\ Steps(w.steps)
                        /\ \A r \in w.output_refs : r.node \in IdsOf(w.steps)
  <1>1. PICK st : st = w.steps
    OBVIOUS
  <1>2. StepIds(w) = IdsOf(st)
    BY <1>1 DEF StepIds, IdsOf
  <1>3. st \in Seq(Range(st)) => DOMAIN st = 1 .. Len(st)
    OBVIOUS
  <1>4. NamedSteps(w) <=> /\ st \in Seq(Range(st))
                          /\ \A i \in DOMAIN st : Named(st[i])
                          /\ \A i, j \in DOMAIN st : st[i].stable_id = st[j].stable_id => i = j
    BY <1>1, Zenon DEF NamedSteps, Named, StepOf
  <1>5. Graph(w) <=> /\ w = GraphOf(w.goal, w.steps, w.output_refs, w.input_contracts)
                     /\ NamedSteps(w)
                     /\ \A r \in w.output_refs : r.node \in IdsOf(st)
                     /\ \A i \in DOMAIN st : Resolving(st[i], IdsOf(st))
    BY <1>1, <1>2, Zenon DEF Graph, GraphOf, Resolving
  <1> QED BY <1>1, <1>3, <1>4, <1>5, Zenon DEF Steps

\* One step is replaced: its name stays, and its references resolve.
LEMMA StepReplaced ==
    ASSUME NEW st, Steps(st), NEW k \in 1 .. Len(st), NEW s, Named(s), s.stable_id = st[k].stable_id,
           Resolving(s, IdsOf(st))
    PROVE  Steps([st EXCEPT ![k] = s]) /\ IdsOf([st EXCEPT ![k] = s]) = IdsOf(st)
  <1>1. PICK N \in Nat : N = Len(st) /\ DOMAIN st = 1 .. N
    BY DEF Steps
  <1>2. PICK t : t = [st EXCEPT ![k] = s]
    BY Zenon
  <1>3. /\ DOMAIN t = 1 .. N /\ t[k] = s /\ \A i \in 1 .. N : i # k => t[i] = st[i]
        /\ t = [i \in 1 .. N |-> t[i]]
    BY <1>1, <1>2, Zenon DEF Steps
  <1>4. t \in Seq(Range(t)) /\ Len(t) = N
    <2>1. \A i \in 1 .. N : t[i] \in Range(t)
      BY <1>3 DEF Range
    <2>2. t \in [1 .. N -> Range(t)]
      BY <1>3, <2>1
    <2> QED BY <1>1, <2>2
  <1>5. \A i \in 1 .. N : t[i].stable_id = st[i].stable_id
    BY <1>3, Zenon
  <1>6. IdsOf(t) = IdsOf(st)
    BY <1>1, <1>3, <1>5 DEF IdsOf
  <1>7. \A i \in 1 .. N : Named(t[i]) /\ Resolving(t[i], IdsOf(st))
    BY <1>1, <1>3 DEF Steps
  <1>8. \A i, j \in 1 .. N : t[i].stable_id = t[j].stable_id => i = j
    BY <1>1, <1>5 DEF Steps
  <1> QED BY <1>2, <1>4, <1>6, <1>7, <1>8, Zenon DEF Steps

LEMMA StepAppended ==
    ASSUME NEW st, Steps(st), NEW s, Named(s), s.stable_id \notin IdsOf(st), s.depends_on = {},
           \A r \in s.inputs : r.node = NoNode
    PROVE  Steps(Append(st, s)) /\ IdsOf(st) \subseteq IdsOf(Append(st, s))
  <1>1. PICK N \in Nat : N = Len(st) /\ DOMAIN st = 1 .. N
    BY DEF Steps
  <1>2. PICK t : t = Append(st, s)
    BY Zenon
  <1>3. /\ Len(t) = N + 1 /\ DOMAIN t = 1 .. N + 1 /\ t[N + 1] = s /\ \A i \in 1 .. N : t[i] = st[i]
        /\ t = [i \in 1 .. N + 1 |-> t[i]]
    <2>1. st \in Seq(Range(st) \cup {s}) /\ s \in Range(st) \cup {s}
      BY WiderSequences DEF Steps
    <2>2. t \in Seq(Range(st) \cup {s}) /\ Len(t) = N + 1 /\ t[N + 1] = s /\ \A i \in 1 .. N : t[i] = st[i]
      BY <1>1, <1>2, <2>1
    <2> QED BY <2>2
  <1>4. t \in Seq(Range(t))
    <2>1. \A i \in 1 .. N + 1 : t[i] \in Range(t)
      BY <1>3 DEF Range
    <2>2. t \in [1 .. N + 1 -> Range(t)]
      BY <1>3, <2>1
    <2> QED BY <1>1, <2>2
  <1>5. \A i \in 1 .. N + 1 : i \in 1 .. N \/ i = N + 1
    BY <1>1
  <1>6. IdsOf(st) \subseteq IdsOf(t)
    <2>1. \A i \in 1 .. N : i \in 1 .. N + 1
      BY <1>1
    <2> QED BY <1>1, <1>3, <2>1 DEF IdsOf
  <1>7. \A i \in 1 .. N + 1 : Named(t[i]) /\ Resolving(t[i], IdsOf(t))
    <2>1. \A i \in 1 .. N : Named(t[i]) /\ Resolving(t[i], IdsOf(t))
      BY <1>1, <1>3, <1>6, Zenon DEF Steps, Resolving
    <2>2. Named(t[N + 1]) /\ Resolving(t[N + 1], IdsOf(t))
      BY <1>3 DEF Resolving
    <2> QED BY <1>5, <2>1, <2>2
  <1>8. \A i, j \in 1 .. N + 1 : t[i].stable_id = t[j].stable_id => i = j
    <2>1. \A i \in 1 .. N : t[i].stable_id # s.stable_id
      BY <1>1, <1>3, Zenon DEF IdsOf
    <2>2. \A i, j \in 1 .. N : t[i].stable_id = t[j].stable_id => i = j
      BY <1>1, <1>3, Zenon DEF Steps
    <2> QED BY <1>3, <1>5, <2>1, <2>2, Zenon
  <1> QED BY <1>2, <1>3, <1>4, <1>6, <1>7, <1>8, Zenon DEF Steps

Others(st, n) == Registry!retain(st, {s \in Range(st) : s.stable_id # n})

AreOthers(c, st, n) ==
    /\ c \in Seq(Range(st))
    /\ \A i \in 1 .. Len(c) : \E k \in 1 .. Len(st) : c[i] = st[k] /\ st[k].stable_id # n
    /\ \A k \in 1 .. Len(st) : st[k].stable_id # n => \E i \in 1 .. Len(c) : c[i] = st[k]
    /\ \A i, j \in 1 .. Len(c) : c[i].stable_id = c[j].stable_id => i = j

LEMMA OthersAre ==
    ASSUME NEW st, Steps(st), NEW n
    PROVE  AreOthers(Others(st, n), st, n)
  <1>1. PICK S : S = Range(st) /\ st \in Seq(S)
    BY DEF Steps
  <1>2. PICK X : X = {s \in S : s.stable_id # n}
    BY Zenon
  <1>3. PICK R : R = {p \in S \X S : p[1].stable_id = p[2].stable_id}
    BY Zenon
  <1>4. PICK c : c = Others(st, n)
    OBVIOUS
  <1>5. c = Registry!retain(st, X)
    BY <1>1, <1>2, <1>4 DEF Others
  <1>6. c \in Seq(S) /\ Kept(c, st, X, Len(st))
    BY <1>1, <1>5, RetainKeeps
  <1>7. Apart(st, R)
    BY <1>3 DEF Apart, Steps
  <1>8. Apart(c, R)
    BY <1>1, <1>5, <1>7, RetainApart
  <1>9. \A i \in 1 .. Len(c) : c[i] \in S
    BY <1>6
  <1>10. \A i, j \in 1 .. Len(c) : c[i].stable_id = c[j].stable_id => i = j
    <2> SUFFICES ASSUME NEW i \in 1 .. Len(c), NEW j \in 1 .. Len(c), c[i].stable_id = c[j].stable_id PROVE i = j
      OBVIOUS
    <2>1. <<c[i], c[j]>> \in R
      BY <1>3, <1>9
    <2> QED BY <1>8, <2>1 DEF Apart
  <1>11. \A k \in 1 .. Len(st) : st[k] \in S
    BY <1>1
  <1>12. \A k \in 1 .. Len(st) : st[k] \in X <=> st[k].stable_id # n
    BY <1>2, <1>11
  <1>13. AreOthers(c, st, n)
    BY <1>1, <1>6, <1>10, <1>12, Zenon DEF Kept, AreOthers
  <1> QED BY <1>4, <1>13

-----------------------------------------------------------------------------
(* What the edits make of a step.                                          *)

Redirected(s, d, i) == [s EXCEPT !.depends_on = d, !.inputs = i]

LEMMA RedirectedIs ==
    ASSUME NEW s, Named(s), NEW d, NEW i
    PROVE  /\ Named(Redirected(s, d, i)) /\ Redirected(s, d, i).stable_id = s.stable_id
           /\ Redirected(s, d, i).depends_on = d /\ Redirected(s, d, i).inputs = i
  <1>1. PICK a, b, c, e, f, g, h : s = StepOf(a, b, c, e, f, g, h) /\ a = s.stable_id
    BY Zenon DEF Named
  <1>2. a # NoNode
    BY <1>1 DEF Named
  <1>3. PICK t : t = [s EXCEPT !.depends_on = d]
    BY Zenon
  <1>4. t = StepOf(a, b, c, d, f, g, h)
    BY <1>1, <1>3 DEF StepOf
  <1>5. Redirected(s, d, i) = [t EXCEPT !.inputs = i]
    BY <1>3 DEF Redirected
  <1>6. Redirected(s, d, i) = StepOf(a, b, c, d, i, g, h)
    BY <1>4, <1>5 DEF StepOf
  <1> QED BY <1>1, <1>2, <1>6 DEF Named, StepOf

LEMMA WithoutIs ==
    ASSUME NEW s, NEW n
    PROVE  Composer!Without(s, n) = Redirected(s, s.depends_on \ {n}, {r \in s.inputs : r.node # n})
  BY DEF Composer!Without, Redirected

LEMMA WithoutResolves ==
    ASSUME NEW s, Named(s), NEW n, NEW ids, Resolving(s, ids)
    PROVE  /\ Named(Composer!Without(s, n)) /\ Composer!Without(s, n).stable_id = s.stable_id
           /\ Resolving(Composer!Without(s, n), ids \ {n})
  <1>1. PICK t : t = Composer!Without(s, n)
    OBVIOUS
  <1>2. /\ Named(t) /\ t.stable_id = s.stable_id
        /\ t.depends_on = s.depends_on \ {n} /\ t.inputs = {r \in s.inputs : r.node # n}
    <2>1. PICK d, i : d = s.depends_on \ {n} /\ i = {r \in s.inputs : r.node # n}
      BY Zenon
    <2>2. t = Redirected(s, d, i)
      BY <1>1, <2>1, WithoutIs, Zenon
    <2> QED BY <2>1, <2>2, RedirectedIs
  <1>3. Resolving(t, ids \ {n})
    BY <1>2 DEF Resolving
  <1> QED BY <1>1, <1>2, <1>3

StepsWithout(st, n) == [i \in DOMAIN Others(st, n) |-> Composer!Without(Others(st, n)[i], n)]

LEMMA StepsRemoved ==
    ASSUME NEW st, Steps(st), NEW n
    PROVE  Steps(StepsWithout(st, n)) /\ IdsOf(StepsWithout(st, n)) = IdsOf(st) \ {n}
  <1>1. PICK c : c = Others(st, n)
    OBVIOUS
  <1>2. PICK t : t = StepsWithout(st, n)
    OBVIOUS
  <1>3. /\ c \in Seq(Range(st))
        /\ \A i \in 1 .. Len(c) : \E k \in 1 .. Len(st) : c[i] = st[k] /\ st[k].stable_id # n
        /\ \A k \in 1 .. Len(st) : st[k].stable_id # n => \E i \in 1 .. Len(c) : c[i] = st[k]
        /\ \A i, j \in 1 .. Len(c) : c[i].stable_id = c[j].stable_id => i = j
    <2>1. AreOthers(c, st, n)
      BY <1>1, OthersAre
    <2> QED BY <2>1 DEF AreOthers
  <1>4. PICK M \in Nat : M = Len(c) /\ DOMAIN c = 1 .. M
    BY <1>3
  <1>5. t = [i \in 1 .. M |-> Composer!Without(c[i], n)]
    BY <1>1, <1>2, <1>4 DEF StepsWithout
  <1>6. DOMAIN t = 1 .. M /\ \A i \in 1 .. M : t[i] = Composer!Without(c[i], n)
    BY <1>5
  <1>7. t \in Seq(Range(t)) /\ Len(t) = M
    <2>1. \A i \in 1 .. M : t[i] \in Range(t)
      BY <1>6 DEF Range
    <2>2. t \in [1 .. M -> Range(t)]
      BY <1>5, <1>6, <2>1
    <2> QED BY <1>4, <2>2
  <1>8. \A i \in 1 .. M : Named(c[i]) /\ Resolving(c[i], IdsOf(st)) /\ c[i].stable_id # n
    BY <1>3, <1>4, Zenon DEF Steps
  <1>9. \A i \in 1 .. M : Named(t[i]) /\ t[i].stable_id = c[i].stable_id /\ Resolving(t[i], IdsOf(st) \ {n})
    BY <1>6, <1>8, WithoutResolves
  <1>10. IdsOf(t) = IdsOf(st) \ {n}
    <2>1. DOMAIN st = 1 .. Len(st)
      BY DEF Steps
    <2>2. ASSUME NEW x \in IdsOf(t) PROVE x \in IdsOf(st) \ {n}
      <3>1. PICK i \in 1 .. M : x = t[i].stable_id
        BY <1>6 DEF IdsOf
      <3>2. PICK k \in 1 .. Len(st) : c[i] = st[k] /\ st[k].stable_id # n
        BY <1>3, <1>4
      <3> QED BY <1>9, <2>1, <3>1, <3>2, Zenon DEF IdsOf
    <2>3. ASSUME NEW x \in IdsOf(st), x # n PROVE x \in IdsOf(t)
      <3>1. PICK k \in 1 .. Len(st) : x = st[k].stable_id
        BY <2>1 DEF IdsOf
      <3>2. PICK i \in 1 .. M : c[i] = st[k]
        BY <1>3, <1>4, <2>3, <3>1
      <3> QED BY <1>6, <1>9, <3>1, <3>2, Zenon DEF IdsOf
    <2> QED BY <2>2, <2>3
  <1>11. \A i, j \in 1 .. M : t[i].stable_id = t[j].stable_id => i = j
    BY <1>3, <1>4, <1>9
  <1> QED BY <1>2, <1>7, <1>9, <1>10, <1>11, Zenon DEF Steps

-----------------------------------------------------------------------------
(* Every edit of a graph is one.                                           *)

LEMMA GraphMade ==
    ASSUME NEW g, NEW st, NEW o, NEW c, Steps(st), \A r \in o : r.node \in IdsOf(st)
    PROVE  Graph(GraphOf(g, st, o, c))
  <1>1. PICK w : w = GraphOf(g, st, o, c)
    OBVIOUS
  <1>2. w.goal = g /\ w.steps = st /\ w.output_refs = o /\ w.input_contracts = c
    BY <1>1 DEF GraphOf
  <1> QED BY <1>1, <1>2, GraphIs

LEMMA GraphTaken ==
    ASSUME NEW w, Graph(w)
    PROVE  \E g, st, o, c : /\ w = GraphOf(g, st, o, c) /\ Steps(st) /\ \A r \in o : r.node \in IdsOf(st)
                            /\ w.steps = st
  BY GraphIs, Zenon

WithSteps(w, st) == [w EXCEPT !.steps = st]

LEMMA StepsEdited ==
    ASSUME NEW w, Graph(w), NEW st, Steps(st), IdsOf(w.steps) \subseteq IdsOf(st)
    PROVE  Graph(WithSteps(w, st))
  <1>1. PICK g, ot, o, c : /\ w = GraphOf(g, ot, o, c) /\ (\A r \in o : r.node \in IdsOf(ot)) /\ w.steps = ot
    BY GraphTaken
  <1>2. WithSteps(w, st) = GraphOf(g, st, o, c)
    BY <1>1 DEF WithSteps, GraphOf
  <1>3. \A r \in o : r.node \in IdsOf(st)
    BY <1>1
  <1> QED BY <1>2, <1>3, GraphMade

LEMMA GoalEdited ==
    ASSUME NEW w, Graph(w), NEW goal
    PROVE  Graph([w EXCEPT !.goal = goal])
  <1>1. PICK g, st, o, c : w = GraphOf(g, st, o, c) /\ Steps(st) /\ \A r \in o : r.node \in IdsOf(st)
    BY GraphTaken
  <1>2. [w EXCEPT !.goal = goal] = GraphOf(goal, st, o, c)
    BY <1>1 DEF GraphOf
  <1> QED BY <1>1, <1>2, GraphMade

LEMMA NodeRemoved ==
    ASSUME NEW w, Graph(w), NEW n
    PROVE  Graph(Composer!Removed(w, n))
  <1>1. PICK g, st, o, c : w = GraphOf(g, st, o, c) /\ Steps(st) /\ (\A r \in o : r.node \in IdsOf(st)) /\ w.steps = st
    BY GraphTaken
  <1>2. Composer!OtherSteps(st, n) = Others(st, n)
    BY SameRetain, SameRange, Zenon DEF Composer!OtherSteps, Others
  <1>3. PICK t : t = StepsWithout(st, n)
    OBVIOUS
  <1>4. Composer!Removed(w, n) = [w EXCEPT !.steps = t, !.output_refs = {r \in w.output_refs : r.node # n}]
    BY <1>1, <1>2, <1>3 DEF Composer!Removed, StepsWithout
  <1>5. Composer!Removed(w, n) = GraphOf(g, t, {r \in o : r.node # n}, c)
    BY <1>1, <1>4, Zenon DEF GraphOf
  <1>6. Steps(t) /\ IdsOf(t) = IdsOf(st) \ {n}
    BY <1>1, <1>3, StepsRemoved
  <1>7. \A r \in {x \in o : x.node # n} : r.node \in IdsOf(t)
    BY <1>1, <1>6
  <1> QED BY <1>5, <1>6, <1>7, GraphMade

\* The step a name is the name of.
LEMMA PositionIs ==
    ASSUME NEW n, Graph(workflow), Composer!Present(n)
    PROVE  /\ Composer!Position(n) \in 1 .. Len(workflow.steps)
           /\ workflow.steps[Composer!Position(n)].stable_id = n
           /\ n \in IdsOf(workflow.steps)
  <1>1. PICK st : st = workflow.steps
    OBVIOUS
  <1>2. DOMAIN st = 1 .. Len(st)
    BY <1>1, GraphIs DEF Steps
  <1>3. \E i \in DOMAIN st : st[i].stable_id = n
    BY <1>1 DEF Composer!Present
  <1>4. PICK k : k = Composer!Position(n)
    OBVIOUS
  <1>5. k \in DOMAIN st /\ st[k].stable_id = n
    BY <1>1, <1>3, <1>4 DEF Composer!Position
  <1> QED BY <1>1, <1>2, <1>4, <1>5 DEF IdsOf

SetStep(w, k, s) == WithSteps(w, [w.steps EXCEPT ![k] = s])

LEMMA StepSet ==
    ASSUME NEW w, Graph(w), NEW k \in 1 .. Len(w.steps), NEW s, Named(s), s.stable_id = w.steps[k].stable_id,
           Resolving(s, IdsOf(w.steps))
    PROVE  Graph(SetStep(w, k, s))
  <1>1. PICK st : st = w.steps
    OBVIOUS
  <1>2. Steps(st)
    BY <1>1, GraphIs
  <1>3. PICK t : t = [st EXCEPT ![k] = s]
    BY Zenon
  <1>4. Steps(t) /\ IdsOf(t) = IdsOf(st)
    BY <1>1, <1>2, <1>3, StepReplaced
  <1>5. Graph(WithSteps(w, t))
    BY <1>1, <1>4, StepsEdited
  <1> QED BY <1>1, <1>3, <1>5 DEF SetStep

LEMMA StepIsOne ==
    ASSUME NEW w, Graph(w), NEW k \in 1 .. Len(w.steps)
    PROVE  Named(w.steps[k]) /\ Resolving(w.steps[k], IdsOf(w.steps))
  BY GraphIs DEF Steps

Linked(w, k, n, r) == [w EXCEPT !.steps[k].depends_on = @ \cup {n}, !.steps[k].inputs = @ \cup {r}]

LEMMA LinkedIs ==
    ASSUME NEW w, Graph(w), NEW k \in 1 .. Len(w.steps), NEW n, NEW r
    PROVE  Linked(w, k, n, r)
             = SetStep(w, k, Redirected(w.steps[k], w.steps[k].depends_on \cup {n}, w.steps[k].inputs \cup {r}))
  <1>1. PICK g, st, o, c : w = GraphOf(g, st, o, c) /\ Steps(st) /\ w.steps = st
    BY GraphTaken
  <1>2. PICK s : s = st[k]
    OBVIOUS
  <1>3. PICK v : v = [w EXCEPT !.steps[k].depends_on = @ \cup {n}]
    BY Zenon
  <1>4. PICK s1 : s1 = [s EXCEPT !.depends_on = s.depends_on \cup {n}]
    BY Zenon
  <1>5. PICK t1 : t1 = [st EXCEPT ![k] = s1]
    BY Zenon
  <1>6. v = GraphOf(g, t1, o, c)
    BY <1>1, <1>2, <1>3, <1>4, <1>5, Zenon DEF GraphOf
  <1>7. Linked(w, k, n, r) = [v EXCEPT !.steps[k].inputs = @ \cup {r}]
    BY <1>3, Zenon DEF Linked
  <1>8. k \in DOMAIN st /\ t1[k] = s1 /\ t1 \in [DOMAIN st -> Range(st) \cup {s1}]
    BY <1>1, <1>5 DEF Steps
  <1>9. PICK e, f : e = s.depends_on \cup {n} /\ f = s.inputs \cup {r}
    BY Zenon
  <1>10. Named(s) /\ s1 = [s EXCEPT !.depends_on = e]
    BY <1>1, <1>2, <1>4, <1>9 DEF Steps
  <1>11. s1.inputs = s.inputs
    BY <1>10 DEF Named, StepOf
  <1>12. PICK s2 : s2 = [s1 EXCEPT !.inputs = f]
    BY Zenon
  <1>13. s2 = Redirected(s, e, f)
    BY <1>10, <1>12 DEF Redirected
  <1>14. Linked(w, k, n, r) = GraphOf(g, [t1 EXCEPT ![k] = s2], o, c)
    <2>1. v.steps = t1
      BY <1>6 DEF GraphOf
    <2>2. [v EXCEPT !.steps[k].inputs = @ \cup {r}] = [v EXCEPT !.steps = [t1 EXCEPT ![k] = [s1 EXCEPT !.inputs = s1.inputs \cup {r}]]]
      BY <1>8, <2>1
    <2>3. [v EXCEPT !.steps[k].inputs = @ \cup {r}] = [v EXCEPT !.steps = [t1 EXCEPT ![k] = s2]]
      BY <1>9, <1>11, <1>12, <2>2
    <2> QED BY <1>6, <1>7, <2>3 DEF GraphOf
  <1>15. [t1 EXCEPT ![k] = s2] = [st EXCEPT ![k] = s2]
    BY <1>5, <1>8, Zenon
  <1>16. SetStep(w, k, s2) = GraphOf(g, [st EXCEPT ![k] = s2], o, c)
    BY <1>1 DEF SetStep, WithSteps, GraphOf
  <1> QED BY <1>1, <1>2, <1>9, <1>13, <1>14, <1>15, <1>16

LEMMA NodesConnected ==
    ASSUME NEW w, Graph(w), NEW k \in 1 .. Len(w.steps), NEW n \in IdsOf(w.steps), NEW r, r.node = n
    PROVE  Graph(Linked(w, k, n, r))
  <1>1. PICK s : s = w.steps[k]
    OBVIOUS
  <1>2. Named(s) /\ Resolving(s, IdsOf(w.steps))
    BY <1>1, StepIsOne
  <1>3. PICK e, f : e = s.depends_on \cup {n} /\ f = s.inputs \cup {r}
    BY Zenon
  <1>4. PICK t : t = Redirected(s, e, f)
    OBVIOUS
  <1>5. Named(t) /\ t.stable_id = s.stable_id /\ t.depends_on = e /\ t.inputs = f
    BY <1>2, <1>4, RedirectedIs
  <1>6. Resolving(t, IdsOf(w.steps))
    BY <1>2, <1>3, <1>5 DEF Resolving
  <1>7. Graph(SetStep(w, k, t))
    BY <1>1, <1>5, <1>6, StepSet
  <1>8. Linked(w, k, n, r) = SetStep(w, k, t)
    BY <1>1, <1>3, <1>4, LinkedIs, Zenon
  <1> QED BY <1>7, <1>8

LEMMA NodesDisconnected ==
    ASSUME NEW w, Graph(w), NEW k \in 1 .. Len(w.steps), NEW n
    PROVE  Graph([w EXCEPT !.steps[k] = Composer!Without(@, n)])
  <1>1. PICK s : s = w.steps[k]
    OBVIOUS
  <1>2. Named(s) /\ Resolving(s, IdsOf(w.steps))
    BY <1>1, StepIsOne
  <1>3. PICK t : t = Composer!Without(s, n)
    OBVIOUS
  <1>4. Named(t) /\ t.stable_id = s.stable_id /\ Resolving(t, IdsOf(w.steps) \ {n})
    BY <1>2, <1>3, WithoutResolves
  <1>5. Resolving(t, IdsOf(w.steps))
    BY <1>4 DEF Resolving
  <1>6. Graph(SetStep(w, k, t))
    BY <1>1, <1>4, <1>5, StepSet
  <1>7. [w EXCEPT !.steps[k] = Composer!Without(@, n)] = SetStep(w, k, t)
    BY <1>1, <1>3 DEF SetStep, WithSteps
  <1> QED BY <1>6, <1>7

LEMMA ParametersSet ==
    ASSUME NEW w, Graph(w), NEW k \in 1 .. Len(w.steps), NEW p
    PROVE  Graph([w EXCEPT !.steps[k].parameters = p])
  <1>1. PICK s : s = w.steps[k]
    OBVIOUS
  <1>2. Named(s) /\ Resolving(s, IdsOf(w.steps))
    BY <1>1, StepIsOne
  <1>3. PICK t : t = [s EXCEPT !.parameters = p]
    BY Zenon
  <1>4. PICK a, b, c, e, f, g, h : s = StepOf(a, b, c, e, f, g, h) /\ a # NoNode
    BY <1>2, Zenon DEF Named
  <1>5. t = StepOf(a, b, p, e, f, g, h)
    BY <1>3, <1>4 DEF StepOf
  <1>6. Named(t) /\ t.stable_id = s.stable_id /\ t.depends_on = s.depends_on /\ t.inputs = s.inputs
    BY <1>4, <1>5 DEF StepOf, Named
  <1>7. Resolving(t, IdsOf(w.steps))
    BY <1>2, <1>6 DEF Resolving
  <1>8. Graph(SetStep(w, k, t))
    BY <1>1, <1>6, <1>7, StepSet
  <1>9. [w EXCEPT !.steps[k].parameters = p] = SetStep(w, k, t)
    BY <1>1, <1>3 DEF SetStep, WithSteps
  <1> QED BY <1>8, <1>9

\* The copy of a reviewed node, under its new name.
CopyOf(s, n) == [s EXCEPT !.stable_id = n, !.depends_on = {}, !.inputs = {r \in @ : r.node = NoNode}]

LEMMA NodeAdded ==
    ASSUME NEW w, Graph(w), NEW s, Named(s), NEW n, n # NoNode, n \notin IdsOf(w.steps)
    PROVE  Graph([w EXCEPT !.steps = Append(@, CopyOf(s, n))])
  <1>1. PICK t : t = CopyOf(s, n)
    OBVIOUS
  <1>2. PICK i : i = {r \in s.inputs : r.node = NoNode}
    BY Zenon
  <1>3. PICK a, b, c, e, f, g, h : s = StepOf(a, b, c, e, f, g, h)
    BY Zenon DEF Named
  <1>4. t = StepOf(n, b, c, {}, i, g, h)
    <2>1. PICK s1 : s1 = [s EXCEPT !.stable_id = n]
      BY Zenon
    <2>2. s1 = StepOf(n, b, c, e, f, g, h)
      BY <1>3, <2>1 DEF StepOf
    <2>3. PICK s2 : s2 = [s1 EXCEPT !.depends_on = {}]
      BY Zenon
    <2>4. s2 = StepOf(n, b, c, {}, f, g, h)
      BY <2>2, <2>3 DEF StepOf
    <2>5. s2.inputs = s.inputs
      BY <1>3, <2>4 DEF StepOf
    <2>6. t = [s2 EXCEPT !.inputs = {r \in @ : r.node = NoNode}]
      BY <1>1, <2>1, <2>3 DEF CopyOf
    <2>7. t = [s2 EXCEPT !.inputs = i]
      BY <1>2, <2>5, <2>6
    <2> QED BY <2>4, <2>7 DEF StepOf
  <1>5. Named(t) /\ t.stable_id = n /\ t.depends_on = {} /\ t.inputs = i
    BY <1>4 DEF Named, StepOf
  <1>6. PICK st : st = w.steps /\ Steps(st)
    BY GraphIs
  <1>7. \A r \in t.inputs : r.node = NoNode
    BY <1>2, <1>5
  <1>8. Steps(Append(st, t)) /\ IdsOf(st) \subseteq IdsOf(Append(st, t))
    BY <1>5, <1>6, <1>7, StepAppended
  <1>9. Graph(WithSteps(w, Append(st, t)))
    BY <1>6, <1>8, StepsEdited
  <1> QED BY <1>1, <1>6, <1>9 DEF WithSteps

\* A run resolves its template into a graph.
LEMMA ResolvedIs ==
    ASSUME NEW id \in DOMAIN Composer!Templates
    PROVE  Graph(Composer!Resolved(id))
  <1>1. PICK w : w = Composer!template_workflow(id)
    OBVIOUS
  <1>2. Graph(w)
    BY <1>1, TemplatesAssumption
  <1>3. PICK g, st, o, c : w = GraphOf(g, st, o, c) /\ Steps(st) /\ \A r \in o : r.node \in IdsOf(st)
    BY <1>2, GraphTaken
  <1>4. PICK cs : cs = [i \in DOMAIN w.input_contracts |->
                           [name |-> w.input_contracts[i].name, coherent |-> TRUE, source |-> catalog]]
    BY Zenon
  <1>5. Composer!Resolved(id) = IF id # "nagoya_density" THEN w ELSE [w EXCEPT !.input_contracts = cs]
    BY <1>1, <1>4 DEF Composer!Resolved
  <1>6. [w EXCEPT !.input_contracts = cs] = GraphOf(g, st, o, cs)
    BY <1>3 DEF GraphOf
  <1>7. Graph(GraphOf(g, st, o, cs))
    BY <1>3, GraphMade
  <1> QED BY <1>2, <1>5, <1>6, <1>7

GraphEdit == \E kind, edited : Composer!Commit(kind, edited) /\ Graph(edited)

LEMMA PaletteNode ==
    ASSUME NEW p \in Palette
    PROVE  LET t == Composer!template_workflow(p[1])
           IN  Named(t.steps[CHOOSE i \in DOMAIN t.steps : t.steps[i].stable_id = Composer!Node(p[2])])
  <1>1. PICK t : t = Composer!template_workflow(p[1])
    OBVIOUS
  <1>2. PICK x : x = Composer!Node(p[2])
    OBVIOUS
  <1>3. Graph(t) /\ x \in StepIds(t)
    BY <1>1, <1>2, TemplatesAssumption
  <1>4. \E i \in DOMAIN t.steps : t.steps[i].stable_id = x
    BY <1>3 DEF StepIds
  <1>5. PICK k : k = CHOOSE i \in DOMAIN t.steps : t.steps[i].stable_id = x
    OBVIOUS
  <1>6. k \in DOMAIN t.steps
    BY <1>4, <1>5
  <1>7. Named(t.steps[k])
    BY <1>3, <1>6, GraphIs DEF Steps
  <1> QED BY <1>1, <1>2, <1>5, <1>7

LEMMA EditsKeepGraphs ==
    ASSUME Graph(workflow), Composer!Next
    PROVE  \/ GraphEdit \/ Composer!Undo \/ Composer!Redo
           \/ Composer!CatalogChanges \/ Composer!StartRun
           \/ \E id \in TemplateIds : Composer!FinishRun(Composer!Resolved(id))
  <1>1. ASSUME NEW goal, Composer!SetGoal(goal) PROVE GraphEdit
    <2>1. Graph([workflow EXCEPT !.goal = goal])
      BY GoalEdited
    <2> QED BY <1>1, <2>1 DEF Composer!SetGoal, GraphEdit
  <1>2. ASSUME NEW p \in Palette, NEW new, Composer!AddReviewedNode(p[1], p[2], new) PROVE GraphEdit
    <2>1. PICK t : t = Composer!template_workflow(p[1])
      OBVIOUS
    <2>2. PICK s : s = t.steps[CHOOSE i \in DOMAIN t.steps : t.steps[i].stable_id = Composer!Node(p[2])]
      BY Zenon
    <2>3. Named(s)
      BY <2>1, <2>2, PaletteNode, Zenon
    <2>4. PICK e : e = [workflow EXCEPT !.steps = Append(@, CopyOf(s, new))]
      BY Zenon
    <2>5. new # NoNode /\ ~ Composer!Present(new) /\ Composer!Commit("add_reviewed_node", e)
      BY <1>2, <2>1, <2>2, <2>4, Zenon DEF Composer!AddReviewedNode, CopyOf, NoNode, Composer!NoNode
    <2>6. new \notin IdsOf(workflow.steps)
      BY <2>5 DEF Composer!Present, IdsOf
    <2>7. Graph(e)
      BY <2>3, <2>4, <2>5, <2>6, NodeAdded, Zenon
    <2> QED BY <2>5, <2>7 DEF GraphEdit
  <1>3. ASSUME NEW n, Composer!RemoveNode(n) PROVE GraphEdit
    <2>1. Graph(Composer!Removed(workflow, n))
      BY NodeRemoved
    <2> QED BY <1>3, <2>1 DEF Composer!RemoveNode, GraphEdit
  <1>4. ASSUME NEW n, NEW p, Composer!SetParameters(n, p) PROVE GraphEdit
    <2>1. PICK k : k = Composer!Position(n)
      OBVIOUS
    <2>2. Composer!Present(n) /\ Composer!Commit("set_parameters", [workflow EXCEPT !.steps[k].parameters = p])
      BY <1>4, <2>1 DEF Composer!SetParameters
    <2>3. k \in 1 .. Len(workflow.steps)
      BY <2>1, <2>2, PositionIs
    <2>4. Graph([workflow EXCEPT !.steps[k].parameters = p])
      BY <2>3, ParametersSet, Zenon
    <2> QED BY <2>2, <2>4 DEF GraphEdit
  <1>5. ASSUME NEW n, NEW port, NEW m, Composer!Connect(n, port, m) PROVE GraphEdit
    <2>1. PICK k : k = Composer!Position(m)
      OBVIOUS
    <2>2. PICK r : r = Composer!DataRef(n, port)
      OBVIOUS
    <2>3. Composer!Present(n) /\ Composer!Present(m) /\ Composer!Commit("connect", Linked(workflow, k, n, r))
      BY <1>5, <2>1, <2>2 DEF Composer!Connect, Linked
    <2>4. r.node = n
      BY <2>2 DEF Composer!DataRef
    <2>5. k \in 1 .. Len(workflow.steps) /\ n \in IdsOf(workflow.steps)
      BY <2>1, <2>3, PositionIs
    <2>6. Graph(Linked(workflow, k, n, r))
      BY <2>4, <2>5, NodesConnected
    <2> QED BY <2>3, <2>6 DEF GraphEdit
  <1>6. ASSUME NEW n, NEW m, Composer!Disconnect(n, m) PROVE GraphEdit
    <2>1. PICK k : k = Composer!Position(m)
      OBVIOUS
    <2>2. Composer!Present(m) /\ Composer!Commit("disconnect", [workflow EXCEPT !.steps[k] = Composer!Without(@, n)])
      BY <1>6, <2>1 DEF Composer!Disconnect
    <2>3. k \in 1 .. Len(workflow.steps)
      BY <2>1, <2>2, PositionIs
    <2>4. Graph([workflow EXCEPT !.steps[k] = Composer!Without(@, n)])
      BY <2>3, NodesDisconnected
    <2> QED BY <2>2, <2>4 DEF GraphEdit
  <1> QED BY <1>1, <1>2, <1>3, <1>4, <1>5, <1>6 DEF Composer!Next

\* Every version of the draft, what runs and what ran are graphs.
DraftInv ==
    /\ \E S : Versions(S) /\ \A w \in S : Graph(w)
    /\ running # Null => Graph(running)
    /\ answer # Null => Graph(answer.executed)

LEMMA DraftStarts ==
    ASSUME Composer!Init PROVE DraftInv
  <1>1. template_id \in DOMAIN Composer!Templates /\ workflow = Composer!Resolved(template_id)
    BY TemplatesAssumption DEF Composer!Init
  <1>2. Graph(workflow)
    BY <1>1, ResolvedIs
  <1>3. Versions({workflow}) /\ \A w \in {workflow} : Graph(w)
    BY <1>2 DEF Composer!Init, Versions
  <1> QED BY <1>3 DEF Composer!Init, DraftInv

LEMMA DraftSteps ==
    ASSUME DraftInv, [Composer!Next]_Composer!vars PROVE DraftInv'
  <1>1. PICK S : Versions(S) /\ \A w \in S : Graph(w)
    BY DEF DraftInv
  <1>2. /\ Graph(workflow) /\ workflow \in S /\ undo \in Seq(S) /\ redo \in Seq(S)
        /\ Append(undo, workflow) \in Seq(S) /\ Append(redo, workflow) \in Seq(S)
    BY <1>1 DEF Versions
  <1>3. ASSUME GraphEdit PROVE DraftInv'
    <2>1. PICK kind, edited : Composer!Commit(kind, edited) /\ Graph(edited)
      BY <1>3 DEF GraphEdit
    <2>2. /\ workflow' = edited /\ undo' = Append(undo, workflow) /\ redo' = << >>
          /\ UNCHANGED <<running, answer>>
      BY <2>1 DEF Composer!Commit, Composer!Record
    <2>3. PICK T : T = S \cup {edited}
      BY Zenon
    <2>4. Append(undo, workflow) \in Seq(T) /\ << >> \in Seq(T)
      BY <1>2, <2>3, WiderSequences
    <2>5. Versions(T)' /\ \A w \in T : Graph(w)
      BY <1>1, <2>1, <2>2, <2>3, <2>4 DEF Versions
    <2> QED BY <2>2, <2>5 DEF DraftInv
  <1>4. CASE Composer!Undo
    <2>1. /\ undo # << >> /\ undo' = Composer!Front(undo) /\ redo' = Append(redo, workflow)
          /\ workflow' = Composer!Last(undo) /\ UNCHANGED <<running, answer>>
      BY <1>4 DEF Composer!Undo, Composer!Record
    <2>2. Composer!Front(undo) \in Seq(S) /\ Composer!Last(undo) \in S
      BY <1>2, <2>1, SameLine
    <2>3. Versions(S)'
      BY <1>2, <2>1, <2>2 DEF Versions
    <2> QED BY <1>1, <2>1, <2>3 DEF DraftInv
  <1>5. CASE Composer!Redo
    <2>1. /\ redo # << >> /\ redo' = Composer!Front(redo) /\ undo' = Append(undo, workflow)
          /\ workflow' = Composer!Last(redo) /\ UNCHANGED <<running, answer>>
      BY <1>5 DEF Composer!Redo, Composer!Record
    <2>2. Composer!Front(redo) \in Seq(S) /\ Composer!Last(redo) \in S
      BY <1>2, <2>1, SameLine
    <2>3. Versions(S)'
      BY <1>2, <2>1, <2>2 DEF Versions
    <2> QED BY <1>1, <2>1, <2>3 DEF DraftInv
  <1>6. ASSUME Composer!CatalogChanges \/ UNCHANGED Composer!vars PROVE DraftInv'
    <2>1. UNCHANGED <<workflow, undo, redo, running, answer>>
      BY <1>6 DEF Composer!CatalogChanges, Composer!vars, Composer!composer
    <2>2. Versions(S)'
      BY <1>1, <2>1 DEF Versions
    <2> QED BY <1>1, <2>1, <2>2 DEF DraftInv
  <1>7. CASE Composer!StartRun
    <2>1. UNCHANGED <<workflow, undo, redo, answer>> /\ running' = workflow
      BY <1>7 DEF Composer!StartRun, Composer!composer
    <2>2. Versions(S)'
      BY <1>1, <2>1 DEF Versions
    <2> QED BY <1>1, <1>2, <2>1, <2>2 DEF DraftInv
  <1>8. ASSUME NEW id \in TemplateIds, Composer!FinishRun(Composer!Resolved(id)) PROVE DraftInv'
    <2>1. PICK w : w = Composer!Resolved(id)
      OBVIOUS
    <2>2. Graph(w)
      BY <2>1, ResolvedIs, TemplatesAssumption
    <2>3. PICK d : d = Composer!stable_digest(running)
      OBVIOUS
    <2>4. /\ UNCHANGED <<workflow, undo, redo>> /\ running' = Null
          /\ answer' = answer \/ answer' = [command |-> d, executed |-> w]
      BY <1>8, <2>1, <2>3 DEF Composer!FinishRun, Composer!composer
    <2>5. Versions(S)'
      BY <1>1, <2>4 DEF Versions
    <2>6. answer' # Null => Graph(answer'.executed)
      BY <2>2, <2>4 DEF DraftInv
    <2> QED BY <1>1, <2>4, <2>5, <2>6 DEF DraftInv
  <1> QED BY <1>2, <1>3, <1>4, <1>5, <1>6, <1>7, <1>8, EditsKeepGraphs

-----------------------------------------------------------------------------
(* The verdict on a graph depends on the set of its steps, not on the order*)
(* they were added in.                                                     *)

AllSteps(w, A) == Graph(w) /\ A = Range(w.steps) /\ A # {}

\* The step of a name.
At(A, n) == CHOOSE s \in A : s.stable_id = n

Listed(st, A) ==
    /\ DOMAIN st = 1 .. Len(st) /\ Len(st) \in Nat /\ 1 \in DOMAIN st /\ st # << >>
    /\ \A i \in DOMAIN st : st[i] \in A /\ st[i].stable_id # 0
    /\ \A s \in A : \E i \in DOMAIN st : s = st[i]
    /\ \A i, j \in DOMAIN st : st[i].stable_id = st[j].stable_id => i = j

LEMMA GraphListed ==
    ASSUME NEW w, NEW A, AllSteps(w, A)
    PROVE  Listed(w.steps, A)
  <1>1. PICK st : st = w.steps
    OBVIOUS
  <1>2. Steps(st) /\ A = Range(st) /\ A # {}
    BY <1>1, GraphIs DEF AllSteps
  <1>3. DOMAIN st = 1 .. Len(st) /\ Len(st) \in Nat
    BY <1>2 DEF Steps
  <1>4. (\A i \in DOMAIN st : st[i] \in A) /\ (\A s \in A : \E i \in DOMAIN st : s = st[i])
    BY <1>2 DEF Range
  <1>5. PICK i \in 1 .. Len(st) : TRUE
    BY <1>2, <1>3, <1>4
  <1>6. 1 \in DOMAIN st /\ st # << >>
    BY <1>3, <1>5
  <1>7. \A k \in DOMAIN st : st[k].stable_id # 0
    BY <1>2, <1>3 DEF Steps, Named, NoNode
  <1>8. \A k, j \in DOMAIN st : st[k].stable_id = st[j].stable_id => k = j
    BY <1>2, <1>3 DEF Steps
  <1> QED BY <1>1, <1>3, <1>4, <1>6, <1>7, <1>8 DEF Listed

StepNames(A) == {s.stable_id : s \in A}

\* What the checks read of a graph.
Reads(w, A) ==
    /\ ~ Composer!is_legacy_linear(w)
    /\ \A i \in DOMAIN w.steps :
          /\ w.steps[i] \in A
          /\ Composer!node_id(w.steps[i]) = w.steps[i].stable_id
          /\ Composer!DependenciesOf(w, i) = w.steps[i].depends_on
          /\ Composer!InputsOf(w, i) = w.steps[i].inputs
    /\ \A s \in A : \E i \in DOMAIN w.steps : s = w.steps[i]
    /\ Composer!NodeIds(w) = StepNames(A)
    /\ \A n \in StepNames(A) :
          Composer!IndexOf(w, n) \in DOMAIN w.steps /\ w.steps[Composer!IndexOf(w, n)] = At(A, n)

LEMMA GraphReads ==
    ASSUME NEW w, NEW A, AllSteps(w, A)
    PROVE  Reads(w, A)
  <1>1. PICK st : st = w.steps
    OBVIOUS
  <1>2. Listed(st, A)
    BY <1>1, GraphListed
  <1>3. ~ Composer!is_legacy_linear(w)
    BY <1>1, <1>2 DEF Listed, Composer!is_legacy_linear
  <1>4. \A i \in DOMAIN st : Composer!node_id(st[i]) = st[i].stable_id
    BY <1>2 DEF Listed, Composer!node_id
  <1>5. \A i \in DOMAIN st : /\ Composer!DependenciesOf(w, i) = st[i].depends_on
                             /\ Composer!InputsOf(w, i) = st[i].inputs
    BY <1>1, <1>3 DEF Composer!DependenciesOf, Composer!InputsOf
  <1>6. Composer!NodeIds(w) = StepNames(A)
    <2>1. Composer!NodeIds(w) = {st[i].stable_id : i \in DOMAIN st}
      BY <1>1, <1>4 DEF Composer!NodeIds
    <2> QED BY <1>2, <2>1 DEF Listed, StepNames
  <1>7. ASSUME NEW n \in StepNames(A)
        PROVE  Composer!IndexOf(w, n) \in DOMAIN st /\ st[Composer!IndexOf(w, n)] = At(A, n)
    <2>1. \E i \in DOMAIN st : Composer!node_id(st[i]) = n
      BY <1>2, <1>4 DEF Listed, StepNames
    <2>2. PICK k : k = Composer!IndexOf(w, n)
      OBVIOUS
    <2>3. k \in DOMAIN st /\ Composer!node_id(st[k]) = n
      BY <1>1, <2>1, <2>2 DEF Composer!IndexOf
    <2>4. st[k].stable_id = n /\ st[k] \in A
      BY <1>2, <1>4, <2>3 DEF Listed
    <2>5. PICK s : s = At(A, n)
      OBVIOUS
    <2>6. s \in A /\ s.stable_id = n
      BY <2>4, <2>5 DEF At
    <2>7. s = st[k]
      BY <1>2, <2>3, <2>4, <2>6 DEF Listed
    <2> QED BY <2>2, <2>3, <2>5, <2>7
  <1> QED BY <1>1, <1>2, <1>3, <1>4, <1>5, <1>6, <1>7 DEF Reads, Listed

\* The order of Kahn's algorithm, from the dependencies of each node.
PlacedIn(ids, deps) ==
    LET N == Composer!Cardinality(ids)
        order[k \in 0..N] ==
            IF k = 0 THEN << >>
            ELSE LET prefix == order[k - 1]
                     placed == Composer!Range(prefix)
                     ready  == {n \in ids \ placed : deps[n] \subseteq placed}
                 IN  IF ready = {} THEN prefix ELSE Append(prefix, Composer!Min(ready))
    IN  order[N]

Needs(A) == [n \in StepNames(A) |-> At(A, n).depends_on]

LEMMA PlacedFirstIs ==
    ASSUME NEW w, NEW A, Reads(w, A)
    PROVE  Composer!PlacedFirst(w) = PlacedIn(StepNames(A), Needs(A))
  <1>1. Composer!PlacedFirst(w)
          = PlacedIn(Composer!NodeIds(w),
                     [n \in Composer!NodeIds(w) |-> Composer!DependenciesOf(w, Composer!IndexOf(w, n))])
    BY Zenon DEF Composer!PlacedFirst, PlacedIn
  <1>2. PICK ids, deps : ids = Composer!NodeIds(w)
                         /\ deps = [n \in Composer!NodeIds(w) |-> Composer!DependenciesOf(w, Composer!IndexOf(w, n))]
    BY Zenon
  <1>3. ids = StepNames(A) /\ deps = Needs(A)
    BY <1>2 DEF Reads, Needs
  <1>4. Composer!PlacedFirst(w) = PlacedIn(ids, deps)
    BY <1>1, <1>2, Zenon
  <1> QED BY <1>3, <1>4, Zenon

LEMMA StepsCounted ==
    ASSUME NEW w, NEW A, AllSteps(w, A)
    PROVE  Len(w.steps) = Cardinality(A)
  <1>1. PICK st : st = w.steps
    OBVIOUS
  <1>2. Listed(st, A) /\ A = Range(st)
    BY <1>1, GraphListed DEF AllSteps
  <1>3. PICK N \in Nat : N = Len(st) /\ DOMAIN st = 1 .. N
    BY <1>2, Zenon DEF Listed
  <1>4. st \in [1 .. N -> A] /\ \A i, j \in 1 .. N : st[i] = st[j] => i = j
    <2>1. st \in Seq(Range(st))
      BY <1>1, GraphIs DEF AllSteps, Steps
    <2>2. st \in [1 .. N -> Range(st)]
      BY <1>3, <2>1
    <2> QED BY <1>2, <1>3, <2>2, Zenon DEF Listed
  <1>5. \A s \in A : \E i \in 1 .. N : st[i] = s
    BY <1>2, <1>3 DEF Listed
  <1>6. st \in Bijection(1 .. N, A)
    BY <1>4, <1>5 DEF Bijection, Injection, Surjection, IsInjective
  <1>7. ExistsBijection(1 .. N, A)
    BY <1>6 DEF ExistsBijection
  <1>8. IsFiniteSet(1 .. N) /\ Cardinality(1 .. N) = N
    <2>1. IsFiniteSet(1 .. N) /\ Cardinality(1 .. N) = IF 1 > N THEN 0 ELSE N - 1 + 1
      <3>1. N \in Int /\ 1 \in Int
        BY <1>3
      <3> QED BY <3>1, FS_Interval
    <2> QED BY <1>3, <2>1
  <1>9. Cardinality(A) = N
    BY <1>7, <1>8, FS_Bijection
  <1> QED BY <1>1, <1>3, <1>9

Resolves(s, A, names) ==
    /\ s.depends_on \subseteq StepNames(A) \ {s.stable_id}
    /\ \A r \in s.inputs :
          IF r.node = NoNode THEN r.port \in names ELSE r.node \in s.depends_on /\ r \in At(A, r.node).outputs

LEMMA ReferencesAre ==
    ASSUME NEW w, NEW A, Reads(w, A), NEW i \in DOMAIN w.steps
    PROVE  Composer!ReferencesResolve(w, i) <=> Resolves(w.steps[i], A, Composer!ContractNames(w))
  <1>1. PICK s : s = w.steps[i]
    OBVIOUS
  <1>2. /\ Composer!DependenciesOf(w, i) = s.depends_on /\ Composer!InputsOf(w, i) = s.inputs
        /\ Composer!node_id(w.steps[i]) = s.stable_id /\ Composer!NodeIds(w) = StepNames(A)
        /\ ~ Composer!is_legacy_linear(w)
    BY <1>1 DEF Reads
  <1>3. \A n \in StepNames(A) : Composer!Exports(w, n) = At(A, n).outputs
    BY DEF Reads, Composer!Exports
  <1>4. PICK names : names = Composer!ContractNames(w)
    OBVIOUS
  <1>5. Composer!ReferencesResolve(w, i) <=>
          /\ s.depends_on \subseteq StepNames(A) \ {s.stable_id}
          /\ \A r \in s.inputs :
                IF r.node = NoNode THEN r.port \in names
                ELSE r.node \in s.depends_on /\ r \in Composer!Exports(w, r.node)
    BY <1>2, <1>4 DEF Composer!ReferencesResolve, NoNode, Composer!NoNode
  <1> QED BY <1>1, <1>3, <1>4, <1>5 DEF Resolves

LEMMA UnresolvedIs ==
    ASSUME NEW w, NEW A, Reads(w, A)
    PROVE  (\E i \in DOMAIN w.steps : ~ Composer!ReferencesResolve(w, i))
             <=> \E s \in A : ~ Resolves(s, A, Composer!ContractNames(w))
  <1>1. (\A i \in DOMAIN w.steps : w.steps[i] \in A) /\ (\A s \in A : \E i \in DOMAIN w.steps : s = w.steps[i])
    BY DEF Reads
  <1> QED BY <1>1, ReferencesAre, Zenon

StepEdges(A) == UNION {s.depends_on \X {s.stable_id} : s \in A}

LEMMA EdgesAre ==
    ASSUME NEW w, NEW A, Reads(w, A)
    PROVE  Composer!Edges(w) = StepEdges(A)
  <1>1. \A e : e \in Composer!Edges(w) <=> \E i \in DOMAIN w.steps : e \in w.steps[i].depends_on \X {w.steps[i].stable_id}
    BY DEF Composer!Edges, Reads
  <1>2. \A e : e \in StepEdges(A) <=> \E s \in A : e \in s.depends_on \X {s.stable_id}
    BY DEF StepEdges
  <1>3. (\A i \in DOMAIN w.steps : w.steps[i] \in A) /\ (\A s \in A : \E i \in DOMAIN w.steps : s = w.steps[i])
    BY DEF Reads
  <1>4. \A e : e \in Composer!Edges(w) <=> e \in StepEdges(A)
    BY <1>1, <1>2, <1>3, Zenon
  <1> QED BY <1>4

LEMMA RootNodesAre ==
    ASSUME NEW w, NEW A, Reads(w, A)
    PROVE  Composer!RootNodes(w) = {n \in StepNames(A) : At(A, n).depends_on = {}}
  BY DEF Reads, Composer!RootNodes

LEMMA OutputsDeclaredIs ==
    ASSUME NEW w, NEW A, Reads(w, A)
    PROVE  Composer!OutputsDeclared(w) <=>
              \A s \in A : s.outputs # {} /\ \A r \in s.outputs : r.node = s.stable_id
  <1>1. Composer!OutputsDeclared(w) <=>
          \A i \in DOMAIN w.steps : /\ w.steps[i].outputs # {}
                                    /\ \A r \in w.steps[i].outputs : r.node = w.steps[i].stable_id
    BY DEF Composer!OutputsDeclared, Reads
  <1> QED BY <1>1 DEF Reads

LEMMA OutputRefsAre ==
    ASSUME NEW w, NEW A, Reads(w, A)
    PROVE  Composer!validate_output_refs(w) <=>
              \A r \in w.output_refs : r.node \in StepNames(A) /\ r \in At(A, r.node).outputs
  BY DEF Reads, Composer!validate_output_refs, Composer!Exports

Declared(s) ==
    /\ \A c, d \in DOMAIN s.output_contracts : s.output_contracts[c].port = s.output_contracts[d].port => c = d
    /\ \A c \in DOMAIN s.output_contracts :
          /\ s.output_contracts[c].coherent
          /\ Composer!DataRef(s.stable_id, s.output_contracts[c].port) \in s.outputs

LEMMA OutputContractsAre ==
    ASSUME NEW w, NEW A, Reads(w, A)
    PROVE  Composer!validate_output_contracts(w) <=> \A s \in A : Declared(s)
  <1>1. Composer!validate_output_contracts(w) <=> \A i \in DOMAIN w.steps : Declared(w.steps[i])
    BY DEF Reads, Composer!validate_output_contracts, Declared
  <1>2. (\A i \in DOMAIN w.steps : w.steps[i] \in A) /\ (\A s \in A : \E i \in DOMAIN w.steps : s = w.steps[i])
    BY DEF Reads
  <1> QED BY <1>1, <1>2

\* The checks of two graphs with the same steps, contracts and outputs agree.
Agree(w, v) ==
    /\ (w.steps = << >>) <=> (v.steps = << >>)
    /\ Composer!DistinctNodeIds(w) <=> Composer!DistinctNodeIds(v)
    /\ Composer!validate_input_contracts(w) <=> Composer!validate_input_contracts(v)
    /\ (\E i \in DOMAIN w.steps : ~ Composer!ReferencesResolve(w, i))
         <=> (\E i \in DOMAIN v.steps : ~ Composer!ReferencesResolve(v, i))
    /\ Composer!PlacedFirst(w) = Composer!PlacedFirst(v)
    /\ Len(w.steps) = Len(v.steps)
    /\ Composer!Spread(Composer!RootNodes(w), Composer!Edges(w))
         = Composer!Spread(Composer!RootNodes(v), Composer!Edges(v))
    /\ Composer!NodeIds(w) = Composer!NodeIds(v)
    /\ Composer!Connected(w) <=> Composer!Connected(v)
    /\ Composer!OutputsDeclared(w) <=> Composer!OutputsDeclared(v)
    /\ Composer!validate_output_refs(w) <=> Composer!validate_output_refs(v)
    /\ Composer!validate_output_contracts(w) <=> Composer!validate_output_contracts(v)

LEMMA ChecksAgree ==
    ASSUME NEW w, NEW v, NEW A, AllSteps(w, A), AllSteps(v, A),
           w.output_refs = v.output_refs, w.input_contracts = v.input_contracts
    PROVE  Agree(w, v)
  <1>1. Reads(w, A) /\ Reads(v, A)
    BY GraphReads
  <1>2. Listed(w.steps, A) /\ Listed(v.steps, A)
    BY GraphListed
  <1>3. w.steps # << >> /\ v.steps # << >>
    BY <1>2 DEF Listed
  <1>4. ASSUME NEW x, Listed(x.steps, A), Reads(x, A) PROVE Composer!DistinctNodeIds(x)
    BY <1>4 DEF Listed, Reads, Composer!DistinctNodeIds
  <1>5. Composer!DistinctNodeIds(w) /\ Composer!DistinctNodeIds(v)
    BY <1>1, <1>2, <1>4
  <1>6. Composer!ContractNames(w) = Composer!ContractNames(v)
    BY DEF Composer!ContractNames
  <1>7. Composer!validate_input_contracts(w) <=> Composer!validate_input_contracts(v)
    BY DEF Composer!validate_input_contracts
  <1>8. (\E i \in DOMAIN w.steps : ~ Composer!ReferencesResolve(w, i))
           <=> (\E i \in DOMAIN v.steps : ~ Composer!ReferencesResolve(v, i))
    BY <1>1, <1>6, UnresolvedIs, Zenon
  <1>9. Composer!PlacedFirst(w) = Composer!PlacedFirst(v)
    BY <1>1, PlacedFirstIs, Zenon
  <1>10. Len(w.steps) = Len(v.steps)
    BY StepsCounted, Zenon
  <1>11. Composer!Edges(w) = Composer!Edges(v) /\ Composer!RootNodes(w) = Composer!RootNodes(v)
         /\ Composer!NodeIds(w) = Composer!NodeIds(v)
    <2>1. Composer!Edges(w) = Composer!Edges(v)
      BY <1>1, EdgesAre, Zenon
    <2>2. Composer!RootNodes(w) = Composer!RootNodes(v)
      BY <1>1, RootNodesAre, Zenon
    <2>3. Composer!NodeIds(w) = Composer!NodeIds(v)
      BY <1>1 DEF Reads
    <2> QED BY <2>1, <2>2, <2>3
  <1>12. Composer!UndirectedEdges(w) = Composer!UndirectedEdges(v)
    BY <1>11, Zenon DEF Composer!UndirectedEdges
  <1>13. Composer!Connected(w) <=> Composer!Connected(v)
    BY <1>11, <1>12, Zenon DEF Composer!Connected
  <1>14. Composer!Spread(Composer!RootNodes(w), Composer!Edges(w))
           = Composer!Spread(Composer!RootNodes(v), Composer!Edges(v))
    BY <1>11, Zenon
  <1>15. Composer!OutputsDeclared(w) <=> Composer!OutputsDeclared(v)
    BY <1>1, OutputsDeclaredIs, Zenon
  <1>16. Composer!validate_output_refs(w) <=> Composer!validate_output_refs(v)
    BY <1>1, OutputRefsAre, Zenon
  <1>17. Composer!validate_output_contracts(w) <=> Composer!validate_output_contracts(v)
    BY <1>1, OutputContractsAre, Zenon
  <1> QED
    BY <1>3, <1>5, <1>7, <1>8, <1>9, <1>10, <1>11, <1>13, <1>14, <1>15, <1>16, <1>17, Zenon DEF Agree

LEMMA VerdictsAgree ==
    ASSUME NEW w, NEW v, Graph(w), Graph(v), Composer!stable_digest(w) = Composer!stable_digest(v)
    PROVE  Composer!topological_order(w) = Composer!topological_order(v)
  <1>1. ASSUME NEW x, Graph(x)
        PROVE  Composer!stable_digest(x) = GraphOf(x.goal, Range(x.steps), x.output_refs, x.input_contracts)
    <2>1. PICK g, st, o, c : x = GraphOf(g, st, o, c)
      BY <1>1, GraphTaken
    <2>2. PICK A : A = Range(x.steps)
      OBVIOUS
    <2>3. Composer!stable_digest(x) = [x EXCEPT !.steps = A]
      BY <2>2, SameRange DEF Composer!stable_digest
    <2> QED BY <2>1, <2>2, <2>3 DEF GraphOf
  <1>2. PICK A, B : A = Range(w.steps) /\ B = Range(v.steps)
    OBVIOUS
  <1>3. GraphOf(w.goal, A, w.output_refs, w.input_contracts) = GraphOf(v.goal, B, v.output_refs, v.input_contracts)
    BY <1>1, <1>2
  <1>4. A = B /\ w.output_refs = v.output_refs /\ w.input_contracts = v.input_contracts
    BY <1>3 DEF GraphOf
  <1>5. CASE A # {}
    <2>1. AllSteps(w, A) /\ AllSteps(v, A)
      BY <1>2, <1>4, <1>5 DEF AllSteps
    <2>2. Agree(w, v)
      BY <1>4, <2>1, ChecksAgree
    <2> QED BY <2>2, Zenon DEF Agree, Composer!topological_order
  <1>6. CASE A = {}
    <2>1. ASSUME NEW x, Graph(x), Range(x.steps) = {} PROVE x.steps = << >>
      <3>1. x.steps \in Seq(Range(x.steps))
        BY <2>1, GraphIs DEF Steps
      <3> QED BY <2>1, <3>1
    <2>2. w.steps = << >> /\ v.steps = << >>
      BY <1>2, <1>4, <1>6, <2>1, Zenon
    <2> QED BY <2>2 DEF Composer!topological_order
  <1> QED BY <1>5, <1>6

LEMMA DraftResolves ==
    ASSUME Graph(workflow) PROVE Composer!DraftReferencesResolve
  <1>1. PICK st : st = workflow.steps /\ Steps(st) /\ \A r \in workflow.output_refs : r.node \in IdsOf(st)
    BY GraphIs
  <1>2. DOMAIN st = 1 .. Len(st)
    BY <1>1 DEF Steps
  <1>3. \A i \in DOMAIN st : Composer!node_id(st[i]) = st[i].stable_id
    BY <1>1, <1>2 DEF Steps, Named, Composer!node_id, NoNode
  <1>4. Composer!NodeIds(workflow) = IdsOf(st)
    BY <1>1, <1>3 DEF Composer!NodeIds, IdsOf
  <1>5. \A i \in DOMAIN st : Resolving(st[i], IdsOf(st))
    BY <1>1, <1>2 DEF Steps
  <1>6. NoNode = Composer!NoNode
    BY DEF NoNode, Composer!NoNode
  <1> QED BY <1>1, <1>4, <1>5, <1>6 DEF Composer!DraftReferencesResolve, Resolving

DraftsInv == part = "composer" => DraftInv

LEMMA DraftsStart ==
    ASSUME SessionsInit PROVE DraftsInv
  BY DraftStarts DEF SessionsInit, DraftsInv

LEMMA DraftsNext ==
    ASSUME DraftsInv, [SessionsNext]_allVars PROVE DraftsInv'
  <1>1. [Composer!Next]_Composer!vars /\ part' = part
    BY SessionSteps
  <1> QED BY <1>1, DraftSteps DEF DraftsInv

\* A draft that was edited in any order still refers to nodes that are there,
\* undo ends at the reviewed graph, and a successful answer reports a run of
\* that graph in the order of the draft it was started from, however the steps
\* were added (apply, run_composer_session, stable_digest_unchecked).
THEOREM DraftsStayReviewedTheorem == SessionsSpec => []DraftsStayReviewed
  <1>1. ASSUME SessionInv, DraftsInv PROVE DraftsStayReviewed
    <2>1. UndoEndsAtReviewed
      BY <1>1 DEF SessionInv, ComposerInv, UndoEndsAtReviewed
    <2>2. CASE part # "composer"
      BY <2>1, <2>2 DEF DraftsStayReviewed, DraftReferencesResolve, AnswersReportReviewed
    <2>3. CASE part = "composer"
      <3>1. DraftInv /\ ReviewedRuns
        BY <1>1, <2>3 DEF SessionInv, ComposerInv, DraftsInv
      <3>2. Graph(workflow)
        BY <3>1 DEF DraftInv, Versions
      <3>3. Composer!DraftReferencesResolve
        BY <3>2, DraftResolves
      <3>4. ASSUME answer # Null, running # Null
            PROVE  Composer!topological_order(running) = Composer!topological_order(answer.executed)
        <4>1. Graph(running) /\ Graph(answer.executed)
          BY <3>1, <3>4 DEF DraftInv
        <4>2. Composer!stable_digest(running) = Composer!stable_digest(answer.executed)
          BY <3>1, <3>4 DEF ReviewedRuns
        <4> QED BY <4>1, <4>2, VerdictsAgree
      <3>5. Composer!AnswersReportReviewed
        BY <3>1, <3>4 DEF ReviewedRuns, Composer!AnswersReportReviewed
      <3> QED BY <2>1, <3>3, <3>5 DEF DraftsStayReviewed, DraftReferencesResolve, AnswersReportReviewed
    <2> QED BY <2>2, <2>3
  <1>2. SessionsSpec => []DraftsInv
    BY DraftsStart, DraftsNext, PTL DEF SessionsSpec
  <1> QED BY <1>1, <1>2, SessionInvariant, PTL
=============================================================================
