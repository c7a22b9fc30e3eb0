----------------------------- MODULE AgentRuns -----------------------------
(***************************************************************************)
(* Agent orchestration: propose a plan, let a person approve it, execute,  *)
(* verify with retries, and leave an audit trail.  The workbench, the      *)
(* desktop shell and the command line share one working directory:         *)
(*                                                                         *)
(*   .genegis/agent-plan.json     the pending plan, one slot;              *)
(*   .genegis/agent-run.json      the latest run;                          *)
(*   .genegis/agent-runs/ID.json  every run the server or the desktop has  *)
(*                                saved;                                   *)
(*   the review session's file    provenance entries and failure comments. *)
(*                                                                         *)
(* No lock spans them.  A file is written by truncating it and then        *)
(* writing it (std::fs::write), so a crash leaves it torn; the session's   *)
(* file is read whole, changed and written back.  The run store of the     *)
(* server saves the run's file, then the latest file, and takes its lock   *)
(* only for the copy it keeps in memory.                                   *)
(*                                                                         *)
(* A run is its identifier, in the order of started_at.  The rule planner  *)
(* is a function of the prompt, so a plan is its prompt.                   *)
(***************************************************************************)
EXTENDS Integers, Sequences, FiniteSets, FiniteSetsExt

CONSTANTS
    Jobs,       \* agent commands that may be in progress at once
    Prompts,    \* what people ask for
    Hosts,      \* which front ends issue each of them: "workbench", "desktop", "cli"
    CliFlags,   \* option sets of `genegis agent`: [link, push, retries]
    Runs,       \* bound: runs started in a behaviour
    Crashes     \* bound: crashes, of the server or of a front end

ASSUME RunsAssumption == Runs \in Nat
ASSUME HostsAssumption == \A j \in Jobs : Hosts[j] \subseteq {"workbench", "desktop", "cli"}
ASSUME FlagsAssumption == \A flags \in CliFlags : flags.retries \in Nat

None == 0
Torn == -1
NoPrompt == "none"

VARIABLES
    plan,       \* the pending plan: a prompt, NoPrompt when absent or torn
    latest,     \* the latest-run file: a run, None, or Torn
    dir,        \* agent-runs/: what each run's file holds
    session,    \* entries of the review session's file
    shown,      \* the session the workbench holds in memory
    runs,       \* every run started, in order
    job,        \* what each command is doing
    memory,     \* the server's copy of the latest run
    up,         \* is the server running?
    crashed,    \* crashes so far
    raced,      \* has a write-back replaced entries it had not read?
    settled     \* runs the server has acknowledged, not saved again since

agentVars == <<plan, latest, dir, session, shown, runs, job, memory, up, crashed, raced, settled>>

----------------------------------------------------------------------------
(* What each front end does with a finished run (finalize_agent_run and    *)
(* the tail of `genegis agent run`): comment on a failed verification,     *)
(* record provenance, keep a copy in the directory, push to the server.    *)

Profile(host, flags) ==
    CASE host = "workbench" -> [link |-> TRUE, record |-> TRUE, keep |-> FALSE, push |-> TRUE]
      [] host = "desktop" -> [link |-> FALSE, record |-> TRUE, keep |-> TRUE, push |-> FALSE]
      [] host = "cli" -> [link |-> flags.link, record |-> FALSE, keep |-> FALSE, push |-> flags.push]

Idle == [phase |-> "idle"]

(* AgentRunConfig: at most two execute-verify attempts unless --verify-    *)
(* retries says otherwise; zero means one.                                 *)
with_verify_retries(retries) == IF retries < 1 THEN 1 ELSE retries

NoFlags == [link |-> FALSE, push |-> FALSE, retries |-> 2]
FlagsOf(host) == IF host = "cli" THEN CliFlags ELSE {NoFlags}

Planned(host, prompt, plan_only) ==
    [by |-> host, prompt |-> prompt, plan_only |-> plan_only, verification_passed |-> FALSE,
     verify_attempts |-> 0, comments |-> {},
     steps |-> IF plan_only THEN <<[role |-> "planner", ok |-> TRUE]>>
               ELSE <<[role |-> "planner", ok |-> TRUE], [role |-> "catalog", ok |-> TRUE]>>]

Launched(host, profile, retry, budget, phase) ==
    [phase |-> phase, host |-> host, profile |-> profile, retry |-> retry,
     budget |-> budget, run |-> Len(runs) + 1, copy |-> {}]

(* AgentOrchestrator::run with plan_only: the plan's file is replaced      *)
(* before the run is reported.                                             *)
plan_agent(j, host, prompt) ==
    /\ job[j].phase = "idle" /\ Len(runs) < Runs
    /\ runs' = Append(runs, Planned(host, prompt, TRUE))
    /\ job' = [job EXCEPT ![j] = Launched(host, Profile(host, NoFlags), FALSE, 1, "plan")]
    /\ plan' = NoPrompt
    /\ UNCHANGED <<latest, dir, session, shown, memory, up, crashed, raced, settled>>

Execution(j, host, prompt, retry) ==
    /\ job[j].phase = "idle" /\ Len(runs) < Runs
    /\ runs' = Append(runs, Planned(host, prompt, FALSE))
    /\ \E flags \in FlagsOf(host) :
          job' = [job EXCEPT ![j] = Launched(host, Profile(host, flags), retry,
                                             with_verify_retries(flags.retries), "attempt")]
    /\ UNCHANGED <<plan, latest, dir, session, shown, memory, up, crashed, raced, settled>>

run_agent(j, host, prompt) == Execution(j, host, prompt, FALSE)

(* The human gate: whatever plan the file holds now is executed.           *)
execute_agent(j, host) == plan # NoPrompt /\ Execution(j, host, plan, FALSE)

(* retry_agent_run: the pending plan if there is one, else the prompt of   *)
(* the latest run, planned again.                                          *)
retry_agent(j, host) ==
    /\ host \in {"workbench", "desktop"}
    /\ IF plan # NoPrompt THEN Execution(j, host, plan, TRUE)
       ELSE /\ latest \notin {None, Torn}
            /\ Execution(j, host, runs[latest].prompt, FALSE)

(* The command at another phase, with the session it has read.             *)
At(command, phase, copy) ==
    [phase |-> phase, host |-> command.host, profile |-> command.profile,
     retry |-> command.retry, budget |-> command.budget, run |-> command.run, copy |-> copy]

Goes(j, phase) == job' = [job EXCEPT ![j] = At(job[j], phase, {})]

PlanSaved(j) ==
    /\ job[j].phase = "plan"
    /\ plan' = runs[job[j].run].prompt
    /\ Goes(j, IF job[j].profile.record THEN "record" ELSE "open")
    /\ UNCHANGED <<latest, dir, session, shown, runs, memory, up, crashed, raced, settled>>

----------------------------------------------------------------------------
(* execute_after_plan: attempts until one verifies or the budget is spent. *)

Attempted(run, passed) ==
    LET n == run.verify_attempts + 1
        retry == IF n > 1 THEN <<[role |-> "retry", ok |-> TRUE]>> ELSE <<>>
    IN [by |-> run.by, prompt |-> run.prompt, plan_only |-> run.plan_only,
        verification_passed |-> passed, verify_attempts |-> n, comments |-> run.comments,
        steps |-> run.steps \o retry \o <<[role |-> "executor", ok |-> TRUE],
                                         [role |-> "verifier", ok |-> passed]>>]

(* Where a run that has been verified, or has run out of attempts, goes.   *)
Finalizes(profile, passed) ==
    IF ~passed /\ profile.link THEN "comment" ELSE IF profile.record THEN "record" ELSE "open"

(* Faulty variant: a further attempt after the last one allowed.           *)
execute_after_plan_onceMore(j, passed) ==
    LET r == job[j].run run == Attempted(runs[r], passed)
    IN /\ job[j].phase = "attempt"
       /\ runs' = [runs EXCEPT ![r] = run]
       /\ Goes(j, IF passed \/ run.verify_attempts > job[j].budget
                  THEN Finalizes(job[j].profile, passed) ELSE "attempt")
       /\ UNCHANGED <<plan, latest, dir, session, shown, memory, up, crashed, raced, settled>>

(* Faulty variant: after the last attempt allowed it starts over.          *)
execute_after_plan_startsOver(j, passed) ==
    LET r == job[j].run
        run == Attempted(runs[r], passed)
        spent == ~passed /\ run.verify_attempts = job[j].budget
    IN /\ job[j].phase = "attempt"
       /\ runs' = [runs EXCEPT ![r] = IF spent THEN Planned(@.by, @.prompt, FALSE) ELSE run]
       /\ Goes(j, IF passed THEN Finalizes(job[j].profile, passed) ELSE "attempt")
       /\ UNCHANGED <<plan, latest, dir, session, shown, memory, up, crashed, raced, settled>>

execute_after_plan(j, passed) ==
    LET r == job[j].run run == Attempted(runs[r], passed)
    IN /\ job[j].phase = "attempt"
       /\ runs' = [runs EXCEPT ![r] = run]
       /\ Goes(j, IF passed \/ run.verify_attempts = job[j].budget
                  THEN Finalizes(job[j].profile, passed) ELSE "attempt")
       /\ UNCHANGED <<plan, latest, dir, session, shown, memory, up, crashed, raced, settled>>

(* Execution fails (an unreadable dataset, say): the command reports the   *)
(* error and saves nothing.  The desktop's retry then plans the latest     *)
(* prompt again.                                                           *)
ExecutionFails(j) ==
    /\ job[j].phase = "attempt"
    /\ IF job[j].host = "desktop" /\ job[j].retry /\ latest \notin {None, Torn}
       THEN /\ Len(runs) < Runs
            /\ runs' = Append(runs, Planned("desktop", runs[latest].prompt, FALSE))
            /\ job' = [job EXCEPT ![j] = Launched("desktop", job[j].profile, FALSE, 2, "attempt")]
       ELSE job' = [job EXCEPT ![j] = Idle] /\ UNCHANGED runs
    /\ UNCHANGED <<plan, latest, dir, session, shown, memory, up, crashed, raced, settled>>

----------------------------------------------------------------------------
(* The review session's file: read, change, write back.                    *)

Comment(r) == [kind |-> "comment", run |-> r]
Provenance(r) == [kind |-> "run", run |-> r]

load_collab_from_disk(j) ==
    /\ job[j].phase \in {"comment", "record"}
    /\ job' = [job EXCEPT ![j] =
          At(job[j], IF job[j].phase = "comment" THEN "commenting" ELSE "recording", session)]
    /\ UNCHANGED <<plan, latest, dir, session, shown, runs, memory, up, crashed, raced, settled>>

SessionBecomes(entries, read) ==
    /\ session' = entries
    /\ raced' = (raced \/ session # read)

Commented(run, comment) ==
    [by |-> run.by, prompt |-> run.prompt, plan_only |-> run.plan_only,
     verification_passed |-> run.verification_passed, verify_attempts |-> run.verify_attempts,
     comments |-> run.comments \cup {comment}, steps |-> run.steps]

link_agent_failure_comment(j) ==
    LET r == job[j].run IN
    /\ job[j].phase = "commenting"
    /\ SessionBecomes(job[j].copy \cup {Comment(r)}, job[j].copy)
    /\ runs' = [runs EXCEPT ![r] = Commented(runs[r], Comment(r))]
    /\ Goes(j, IF job[j].profile.record THEN "record" ELSE "open")
    /\ UNCHANGED <<plan, latest, dir, shown, memory, up, crashed, settled>>

(* Faulty variant: the session is changed in memory and never written.     *)
record_agent_run_provenance_unsaved(j) ==
    /\ job[j].phase = "recording"
    /\ Goes(j, "open")
    /\ UNCHANGED <<plan, latest, dir, session, shown, runs, memory, up, crashed, raced, settled>>

record_agent_run_provenance(j) ==
    /\ job[j].phase = "recording"
    /\ SessionBecomes(job[j].copy \cup {Provenance(job[j].run)}, job[j].copy)
    /\ Goes(j, "open")
    /\ UNCHANGED <<plan, latest, dir, shown, runs, memory, up, crashed, settled>>

(* A person comments in the workbench: it adds to the session it holds in  *)
(* memory and writes that one, whatever the file holds.                    *)
CommentPosted ==
    /\ (\E j \in Jobs : "workbench" \in Hosts[j])
    /\ shown' = shown \cup {Comment(None)}
    /\ SessionBecomes(shown', shown)
    /\ UNCHANGED <<plan, latest, dir, runs, job, memory, up, crashed, settled>>

----------------------------------------------------------------------------
(* Saving the run: the latest file, the desktop's copy, the push.          *)

LatestOpened(j) ==
    /\ job[j].phase = "open"
    /\ latest' = Torn
    /\ Goes(j, "write")
    /\ UNCHANGED <<plan, dir, session, shown, runs, memory, up, crashed, raced, settled>>

LatestWritten(j) ==
    /\ job[j].phase = "write"
    /\ latest' = job[j].run
    /\ job' = [job EXCEPT ![j] =
          IF job[j].profile.keep THEN At(job[j], "keepOpen", {})
          ELSE IF job[j].profile.push /\ up THEN At(job[j], "saveOpen", {})
          ELSE Idle]
    /\ UNCHANGED <<plan, dir, session, shown, runs, memory, up, crashed, raced, settled>>

(* The desktop and AgentRunStore::save write agent-runs/ID.json.           *)
RunOpened(j) ==
    /\ job[j].phase \in {"keepOpen", "saveOpen"}
    /\ dir' = [dir EXCEPT ![job[j].run] = "torn"]
    /\ settled' = settled \ {job[j].run}
    /\ Goes(j, IF job[j].phase = "keepOpen" THEN "keepWrite" ELSE "saveWrite")
    /\ UNCHANGED <<plan, latest, session, shown, runs, memory, up, crashed, raced>>

RunWritten(j) ==
    /\ job[j].phase \in {"keepWrite", "saveWrite"}
    /\ dir' = [dir EXCEPT ![job[j].run] = "whole"]
    /\ job' = [job EXCEPT ![j] = IF job[j].phase = "keepWrite" THEN Idle
                                 ELSE At(job[j], "saveLatest", {})]
    /\ UNCHANGED <<plan, latest, session, shown, runs, memory, up, crashed, raced, settled>>

(* AgentRunStore::save goes on: the latest file, then the copy in memory.  *)
SaveOpensLatest(j) ==
    /\ job[j].phase = "saveLatest"
    /\ latest' = Torn
    /\ Goes(j, "saveLatestWrite")
    /\ UNCHANGED <<plan, dir, session, shown, runs, memory, up, crashed, raced, settled>>

SaveWritesLatest(j) ==
    /\ job[j].phase = "saveLatestWrite"
    /\ latest' = job[j].run
    /\ Goes(j, "saveMemory")
    /\ UNCHANGED <<plan, dir, session, shown, runs, memory, up, crashed, raced, settled>>

SaveAnswered(j) ==
    /\ job[j].phase = "saveMemory"
    /\ memory' = job[j].run
    /\ settled' = IF dir[job[j].run] = "whole" THEN settled \cup {job[j].run} ELSE settled
    /\ job' = [job EXCEPT ![j] = Idle]
    /\ UNCHANGED <<plan, latest, dir, session, shown, runs, up, crashed, raced>>

(* `genegis agent pull` and `push`: the server's latest into the file, the *)
(* file's run to the server.                                               *)
Transfer(j, run, phase, push) ==
    job' = [job EXCEPT ![j] =
        [phase |-> phase, host |-> "cli", retry |-> FALSE, budget |-> 1, run |-> run, copy |-> {},
         profile |-> [link |-> FALSE, record |-> FALSE, keep |-> FALSE, push |-> push]]]

pull_latest_agent_run(j) ==
    /\ "cli" \in Hosts[j] /\ job[j].phase = "idle" /\ up /\ memory # None /\ memory # latest
    /\ Transfer(j, memory, "open", FALSE)
    /\ UNCHANGED <<plan, latest, dir, session, shown, runs, memory, up, crashed, raced, settled>>

push_agent_run(j) ==
    /\ "cli" \in Hosts[j] /\ job[j].phase = "idle" /\ up /\ latest \notin {None, Torn}
    /\ Transfer(j, latest, "saveOpen", TRUE)
    /\ UNCHANGED <<plan, latest, dir, session, shown, runs, memory, up, crashed, raced, settled>>

----------------------------------------------------------------------------
(* Crashes.  The saves a server had under way stop where they are; a       *)
(* pusher ignores the error.  A front end's own steps stop likewise.       *)

Saving == {"saveOpen", "saveWrite", "saveLatest", "saveLatestWrite", "saveMemory"}

ServerCrashes ==
    /\ up /\ crashed < Crashes
    /\ up' = FALSE /\ memory' = None /\ crashed' = crashed + 1
    /\ job' = [j \in Jobs |-> IF job[j].phase \in Saving THEN Idle ELSE job[j]]
    /\ UNCHANGED <<plan, latest, dir, session, shown, runs, raced, settled>>

HostCrashes(j) ==
    /\ job[j].phase \notin Saving \cup {"idle"} /\ crashed < Crashes
    /\ crashed' = crashed + 1
    /\ job' = [job EXCEPT ![j] = Idle]
    /\ UNCHANGED <<plan, latest, dir, session, shown, runs, memory, up, raced, settled>>

(* list_from_dir: the runs whose files parse.                              *)
list_from_dir == {r \in DOMAIN dir : dir[r] = "whole"}

(* Faulty variant: no fallback to the directory.                           *)
load_latest_fileOnly == IF latest \in {None, Torn} THEN None ELSE latest

(* The list is sorted newest first, and its head is taken.                 *)
load_latest ==
    IF latest \notin {None, Torn} THEN latest
    ELSE IF list_from_dir = {} THEN None ELSE Max(list_from_dir)

ServerStarts ==
    /\ ~up
    /\ up' = TRUE /\ memory' = load_latest
    /\ UNCHANGED <<plan, latest, dir, session, shown, runs, job, crashed, raced, settled>>

----------------------------------------------------------------------------
Init ==
    /\ plan = NoPrompt /\ latest = None /\ memory = None /\ up = TRUE
    /\ dir = [r \in 1..Runs |-> "absent"]
    /\ session = {} /\ shown = {} /\ runs = <<>> /\ settled = {}
    /\ job = [j \in Jobs |-> Idle]
    /\ crashed = 0 /\ raced = FALSE

Steps(j) ==
    \/ PlanSaved(j)
    \/ \E passed \in BOOLEAN : execute_after_plan(j, passed)
    \/ ExecutionFails(j)
    \/ load_collab_from_disk(j)
    \/ link_agent_failure_comment(j)
    \/ record_agent_run_provenance(j)
    \/ LatestOpened(j) \/ LatestWritten(j)
    \/ RunOpened(j) \/ RunWritten(j)
    \/ SaveOpensLatest(j) \/ SaveWritesLatest(j) \/ SaveAnswered(j)

Next ==
    \/ \E j \in Jobs : Steps(j) \/ HostCrashes(j)
    \/ \E j \in Jobs : \E host \in Hosts[j], prompt \in Prompts :
          plan_agent(j, host, prompt) \/ run_agent(j, host, prompt)
    \/ \E j \in Jobs : \E host \in Hosts[j] : execute_agent(j, host) \/ retry_agent(j, host)
    \/ \E j \in Jobs : pull_latest_agent_run(j) \/ push_agent_run(j)
    \/ CommentPosted \/ ServerCrashes \/ ServerStarts

(* A blocking task, once started, runs on.                                 *)
Fairness == \A j \in Jobs : WF_agentVars(Steps(j))

Spec == Init /\ [][Next]_agentVars /\ Fairness

----------------------------------------------------------------------------
(* Where the verdict of attempt k is among the steps of a run: planner and *)
(* catalog, then executor and verifier, and a retry before each further    *)
(* pair.                                                                   *)
VerdictAt(k) == 3 * k + 1

StepCount(run) ==
    IF run.plan_only THEN 1 ELSE IF run.verify_attempts = 0 THEN 2 ELSE VerdictAt(run.verify_attempts)

(* The last verifier step of a run says what the run says: a passed run    *)
(* stopped at its first success, a failed one that goes on to the session  *)
(* has used its whole budget, and every attempt has its verdict and no     *)
(* other step is one (execute_after_plan).                                 *)
VerdictsHaveTheirSteps ==
    /\ \A r \in 1..Len(runs) :
          LET run == runs[r]
          IN /\ Len(run.steps) = StepCount(run)
             /\ \A i \in 1..Len(run.steps) :
                   run.steps[i].role = "verifier" <=>
                       \E k \in 1..run.verify_attempts : i = VerdictAt(k)
             /\ \A k \in 1..run.verify_attempts :
                   run.steps[VerdictAt(k)].ok <=>
                       (k = run.verify_attempts /\ run.verification_passed)
    /\ \A j \in Jobs : job[j].phase # "idle" =>
          LET run == runs[job[j].run]
          IN /\ job[j].phase = "attempt" =>
                   run.verify_attempts < job[j].budget /\ ~run.verification_passed
             /\ job[j].phase \in {"comment", "commenting", "record", "recording"} =>
                   \/ run.plan_only \/ run.verification_passed
                   \/ run.verify_attempts = job[j].budget

(* As long as nobody has written back a stale session, the file holds the  *)
(* provenance of every run that a recording front end has made the latest, *)
(* and every comment a saved run says it has (finalize_agent_run).  The    *)
(* condition is needed: the code takes no lock around the file.            *)
TrailCompleteUnlessRaced ==
    (~raced /\ latest \notin {None, Torn}) =>
        /\ runs[latest].comments \subseteq session
        /\ runs[latest].by # "cli" => Provenance(latest) \in session

(* A server that has acknowledged a run reports some latest run after any  *)
(* crash and restart, even if the latest file was torn by someone else's   *)
(* crash (load_latest and its fallback).                                   *)
RestartKeepsALatest == (up /\ settled # {}) => memory # None

(* Every agent command ends: the retry loop is bounded and nothing in the  *)
(* saving sequence waits (execute_after_plan, finalize_agent_run).         *)
CommandsEnd == \A j \in Jobs : job[j].phase # "idle" ~> job[j].phase = "idle"

(* Each run has the steps its verdict speaks of, and the session file keeps*)
(* the provenance and the comments of the latest run unless a stale session*)
(* was written back (execute_after_plan, finalize_agent_run).              *)
TrailsExplainRuns ==
    /\ VerdictsHaveTheirSteps
    /\ TrailCompleteUnlessRaced
=============================================================================
