---------------------------- MODULE AgentRunsProofs ----------------------------
(***************************************************************************)
(* Theorems about AgentRuns, for any number of commands in progress, any   *)
(* front ends, options and prompts, and any bounds on runs and crashes:    *)
(* every run has the verdicts it speaks of, the session file keeps the     *)
(* trail of the latest run unless a stale session was written back, and a  *)
(* server that acknowledged a run has a latest run after every restart.    *)
(***************************************************************************)
EXTENDS AgentRuns, WellFoundedInduction, TLAPS

\* A non-empty set of naturals has a least element.
LEMMA LeastOfNaturals ==
    ASSUME NEW T, T \subseteq Nat, T # {}
    PROVE  \E n \in T : \A m \in T : n <= m
  <1>1. \E x \in T : \A y \in T : ~ (<<y, x>> \in OpToRel(<, Nat))
    BY NatLessThanWellFounded, WFMin
  <1>2. OpToRel(<, Nat) = {ss \in Nat \X Nat : ss[1] < ss[2]}
    BY Zenon DEF OpToRel
  <1>3. PICK x \in T : \A y \in T : ~ (<<y, x>> \in {ss \in Nat \X Nat : ss[1] < ss[2]})
    BY <1>1, <1>2, Zenon
  <1>4. ASSUME NEW y \in T PROVE x <= y
    <2>1. <<y, x>> \in Nat \X Nat /\ <<y, x>>[1] = y /\ <<y, x>>[2] = x
      OBVIOUS
    <2>2. ~ (y < x)
      BY <1>3, <2>1
    <2> QED
      BY <2>2
  <1> QED
    BY <1>4

\* The newest run of a non-empty list is in the list.
LEMMA NewestListed ==
    ASSUME NEW n \in Nat, NEW S, S \subseteq 1 .. n, S # {}
    PROVE  Max(S) \in S
  <1> DEFINE Bounds == {m \in Nat : \A y \in S : y <= m}
  <1>1. n \in Bounds
    OBVIOUS
  <1>2. PICK m \in Bounds : \A k \in Bounds : m <= k
    BY <1>1, LeastOfNaturals
  <1>3. m \in S
    <2> SUFFICES ASSUME m \notin S PROVE FALSE
      OBVIOUS
    <2>1. PICK y \in S : TRUE
      OBVIOUS
    <2>2. m \in Nat /\ m >= 1 /\ m - 1 \in Nat
      BY <1>2, <2>1
    <2>3. \A x \in S : x <= m - 1
      BY <1>2, <2>2
    <2>4. m - 1 \in Bounds
      BY <2>2, <2>3
    <2> QED
      BY <1>2, <2>2, <2>4
  <1>4. \E x \in S : \A y \in S : x >= y
    BY <1>2, <1>3
  <1> QED
    BY <1>4, Zenon DEF Max

-----------------------------------------------------------------------------
(* Runs and their steps.                                                    *)

HostNames == {"workbench", "desktop", "cli"}

Entries == [kind : {"comment", "run"}, run : Nat]

StepRecords ==
    [role : {"planner", "catalog", "retry", "executor", "verifier"}, ok : BOOLEAN]

RunRecords ==
    [by : HostNames, prompt : Prompts, plan_only : BOOLEAN, verification_passed : BOOLEAN,
     verify_attempts : Nat, comments : SUBSET Entries, steps : Seq(StepRecords)]

\* The steps of a run and its verdict agree.
LaidOut(run) ==
    /\ Len(run.steps) = StepCount(run)
    /\ \A i \in 1 .. Len(run.steps) :
          run.steps[i].role = "verifier" <=> \E k \in 1 .. run.verify_attempts : i = VerdictAt(k)
    /\ \A k \in 1 .. run.verify_attempts :
          run.steps[VerdictAt(k)].ok <=> (k = run.verify_attempts /\ run.verification_passed)

LEMMA PlannedRun ==
    ASSUME NEW host \in HostNames, NEW prompt \in Prompts, NEW plan_only \in BOOLEAN
    PROVE  LET run == Planned(host, prompt, plan_only)
           IN  /\ run \in RunRecords /\ LaidOut(run)
               /\ run.by = host /\ run.plan_only = plan_only
               /\ run.verify_attempts = 0 /\ ~run.verification_passed /\ run.comments = {}
  <1> DEFINE run == Planned(host, prompt, plan_only)
             planner == [role |-> "planner", ok |-> TRUE]
             catalog == [role |-> "catalog", ok |-> TRUE]
             steps == IF plan_only THEN <<planner>> ELSE <<planner, catalog>>
  <1>1. run = [by |-> host, prompt |-> prompt, plan_only |-> plan_only,
               verification_passed |-> FALSE, verify_attempts |-> 0, comments |-> {},
               steps |-> steps]
    BY DEF Planned
  <1>2. planner \in StepRecords /\ catalog \in StepRecords
    BY DEF StepRecords
  <1>3. planner.role # "verifier" /\ catalog.role # "verifier"
    OBVIOUS
  <1> HIDE DEF planner, catalog
  <1>4. /\ steps \in Seq(StepRecords) /\ Len(steps) = IF plan_only THEN 1 ELSE 2
        /\ \A i \in 1 .. Len(steps) : steps[i].role # "verifier"
    <2>1. CASE plan_only
      BY <1>2, <1>3, <2>1
    <2>2. CASE ~plan_only
      BY <1>2, <1>3, <2>2
    <2> QED
      BY <2>1, <2>2
  <1> HIDE DEF steps
  <1>5. /\ run.by = host /\ run.prompt = prompt /\ run.plan_only = plan_only
        /\ run.verify_attempts = 0 /\ run.verification_passed = FALSE
        /\ run.comments = {} /\ run.steps = steps
    BY <1>1
  <1>6. run \in RunRecords
    BY <1>1, <1>4 DEF RunRecords
  <1> HIDE DEF run
  <1>7. LaidOut(run)
    BY <1>4, <1>5 DEF LaidOut, StepCount
  <1> QED
    BY <1>5, <1>6, <1>7 DEF run

LEMMA Concatenated ==
    ASSUME NEW S, NEW s \in Seq(S), NEW t \in Seq(S)
    PROVE  /\ s \o t \in Seq(S) /\ Len(s \o t) = Len(s) + Len(t)
           /\ \A i \in 1 .. Len(s) : (s \o t)[i] = s[i]
           /\ \A i \in 1 .. Len(t) : (s \o t)[Len(s) + i] = t[i]
  <1>1. s \o t \in Seq(S) /\ Len(s \o t) = Len(s) + Len(t)
    OBVIOUS
  <1>2. \A i \in 1 .. Len(s) : (s \o t)[i] = s[i]
    OBVIOUS
  <1>3. \A i \in 1 .. Len(t) : (s \o t)[Len(s) + i] = t[i]
    OBVIOUS
  <1> QED
    BY <1>1, <1>2, <1>3

\* One more attempt adds its steps, its verdict last.
LEMMA AttemptedRun ==
    ASSUME NEW run \in RunRecords, LaidOut(run), ~run.plan_only, ~run.verification_passed,
           NEW passed \in BOOLEAN
    PROVE  LET next == Attempted(run, passed)
           IN  /\ next \in RunRecords /\ LaidOut(next)
               /\ next.by = run.by /\ next.plan_only = run.plan_only
               /\ next.comments = run.comments
               /\ next.verify_attempts = run.verify_attempts + 1
               /\ next.verification_passed = passed
  <1> DEFINE next == Attempted(run, passed)
             n == run.verify_attempts
             again == [role |-> "retry", ok |-> TRUE]
             execute == [role |-> "executor", ok |-> TRUE]
             verify == [role |-> "verifier", ok |-> passed]
             retry == IF n + 1 > 1 THEN <<again>> ELSE << >>
             old == run.steps
             steps == old \o retry \o <<execute, verify>>
             L == Len(old)
  <1>0. /\ n \in Nat /\ old \in Seq(StepRecords) /\ L \in Nat
        /\ L = IF n = 0 THEN 2 ELSE 3 * n + 1
    BY DEF RunRecords, LaidOut, StepCount, VerdictAt
  <1>1. next = [by |-> run.by, prompt |-> run.prompt, plan_only |-> run.plan_only,
                verification_passed |-> passed, verify_attempts |-> n + 1,
                comments |-> run.comments, steps |-> steps]
    BY DEF Attempted
  <1>2. again \in StepRecords /\ execute \in StepRecords /\ verify \in StepRecords
    BY DEF StepRecords
  <1>3. /\ again.role # "verifier" /\ execute.role # "verifier"
        /\ verify.role = "verifier" /\ verify.ok = passed
    OBVIOUS
  <1> HIDE DEF again, execute, verify
  <1>4. /\ steps \in Seq(StepRecords) /\ Len(steps) = 3 * (n + 1) + 1
        /\ \A i \in 1 .. L : steps[i] = old[i]
        /\ steps[3 * (n + 1) + 1] = verify
        /\ \A i \in L + 1 .. 3 * (n + 1) : steps[i].role # "verifier"
        /\ L < 3 * (n + 1) + 1
    <2> DEFINE pair == <<execute, verify>>
    <2>1. pair \in Seq(StepRecords) /\ Len(pair) = 2 /\ pair[1] = execute /\ pair[2] = verify
      BY <1>2
    <2> HIDE DEF pair
    <2>2. CASE n = 0
      <3>1. retry = << >>
        BY <2>2
      <3>e. ASSUME NEW s \in Seq(StepRecords) PROVE s \o << >> = s
        OBVIOUS
      <3>2. steps = old \o pair
        BY <1>0, <3>1, <3>e, Zenon DEF pair, steps
      <3> HIDE DEF steps, retry, old, L, n
      <3>3. /\ old \o pair \in Seq(StepRecords) /\ Len(old \o pair) = Len(old) + 2
            /\ \A i \in 1 .. Len(old) : (old \o pair)[i] = old[i]
            /\ \A i \in 1 .. 2 : (old \o pair)[Len(old) + i] = pair[i]
        <4>1. old \in Seq(StepRecords) /\ pair \in Seq(StepRecords)
          BY <1>0, <2>1
        <4>2. /\ old \o pair \in Seq(StepRecords) /\ Len(old \o pair) = Len(old) + Len(pair)
              /\ \A i \in 1 .. Len(old) : (old \o pair)[i] = old[i]
              /\ \A i \in 1 .. Len(pair) : (old \o pair)[Len(old) + i] = pair[i]
          BY <4>1, Concatenated
        <4> QED
          BY <2>1, <4>2
      <3>4. Len(old) = 2
        BY <1>0, <2>2 DEF L
      <3>5. 2 + 1 = 3 /\ 2 + 2 = 4 /\ 1 \in 1 .. 2 /\ 2 \in 1 .. 2
        OBVIOUS
      <3>6. steps[3] = execute /\ steps[4] = verify
        BY <2>1, <3>2, <3>3, <3>4, <3>5
      <3>7. /\ steps \in Seq(StepRecords) /\ Len(steps) = 4
            /\ \A i \in 1 .. 2 : steps[i] = old[i]
        BY <3>2, <3>3, <3>4
      <3>8. L = 2 /\ 3 * (n + 1) + 1 = 4 /\ 3 * (n + 1) = 3
        BY <1>0, <2>2
      <3> QED
        BY <1>3, <3>6, <3>7, <3>8
    <2>3. CASE n > 0
      <3>1. retry = <<again>>
        BY <1>0, <2>3
      <3> DEFINE first == old \o <<again>>
      <3>2. steps = first \o pair
        BY <3>1 DEF pair
      <3> HIDE DEF steps, retry, old, L, n
      <3>3. <<again>> \in Seq(StepRecords) /\ Len(<<again>>) = 1 /\ <<again>>[1] = again
        BY <1>2
      <3>4. /\ first \in Seq(StepRecords) /\ Len(first) = Len(old) + 1
            /\ \A i \in 1 .. Len(old) : first[i] = old[i]
            /\ \A i \in 1 .. 1 : first[Len(old) + i] = <<again>>[i]
        BY <1>0, <3>3, Concatenated
      <3> HIDE DEF first
      <3>5. /\ first \o pair \in Seq(StepRecords) /\ Len(first \o pair) = Len(first) + 2
            /\ \A i \in 1 .. Len(first) : (first \o pair)[i] = first[i]
            /\ \A i \in 1 .. 2 : (first \o pair)[Len(first) + i] = pair[i]
        <4>1. first \in Seq(StepRecords) /\ pair \in Seq(StepRecords)
          BY <2>1, <3>4
        <4>2. /\ first \o pair \in Seq(StepRecords)
              /\ Len(first \o pair) = Len(first) + Len(pair)
              /\ \A i \in 1 .. Len(first) : (first \o pair)[i] = first[i]
              /\ \A i \in 1 .. Len(pair) : (first \o pair)[Len(first) + i] = pair[i]
          BY <4>1, Concatenated
        <4> QED
          BY <2>1, <4>2
      <3>6. L + 3 = 3 * (n + 1) + 1 /\ Len(old) = L /\ Len(first) = L + 1 /\ L \in Nat
        BY <1>0, <2>3, <3>4 DEF L
      <3>7. first[L + 1] = again
        BY <3>3, <3>4, <3>6
      <3>8. steps[L + 1] = again
        BY <3>2, <3>5, <3>6, <3>7
      <3>9. steps[L + 2] = execute /\ steps[L + 3] = verify
        <4>1. (L + 1) + 1 = L + 2 /\ (L + 1) + 2 = L + 3 /\ 1 \in 1 .. 2 /\ 2 \in 1 .. 2
          BY <3>6
        <4> QED
          BY <2>1, <3>2, <3>5, <3>6, <4>1
      <3>10. ASSUME NEW i \in L + 1 .. 3 * (n + 1) PROVE steps[i].role # "verifier"
        <4>1. i = L + 1 \/ i = L + 2
          BY <1>0, <3>6
        <4> QED
          BY <1>3, <3>8, <3>9, <4>1
      <3>11. ASSUME NEW i \in 1 .. L PROVE steps[i] = old[i]
        <4>1. i \in 1 .. L + 1
          BY <3>6
        <4> QED
          BY <3>2, <3>4, <3>5, <3>6, <4>1
      <3>12. steps \in Seq(StepRecords) /\ Len(steps) = 3 * (n + 1) + 1
        BY <3>2, <3>5, <3>6
      <3>13. steps[3 * (n + 1) + 1] = verify /\ L < 3 * (n + 1) + 1
        BY <3>6, <3>9
      <3> QED
        BY <3>10, <3>11, <3>12, <3>13
    <2>4. n = 0 \/ n > 0
      BY <1>0
    <2> HIDE DEF steps, retry, old, L, n
    <2> QED
      BY <2>2, <2>3, <2>4
  <1> HIDE DEF steps, retry
  <1>5. /\ next.by = run.by /\ next.plan_only = run.plan_only /\ next.comments = run.comments
        /\ next.verify_attempts = n + 1 /\ next.verification_passed = passed
        /\ next.steps = steps
    BY <1>1
  <1>6. next \in RunRecords
    BY <1>0, <1>1, <1>4 DEF RunRecords
  <1> HIDE DEF next
  <1>7. Len(next.steps) = StepCount(next)
    BY <1>0, <1>4, <1>5 DEF StepCount, VerdictAt
  <1>8. ASSUME NEW i \in 1 .. Len(next.steps)
        PROVE  next.steps[i].role = "verifier" <=> \E k \in 1 .. n + 1 : i = VerdictAt(k)
    <2>1. i \in 1 .. L \/ i \in L + 1 .. 3 * (n + 1) \/ i = 3 * (n + 1) + 1
      BY <1>0, <1>4, <1>5
    <2>2. CASE i \in 1 .. L
      <3>1. steps[i].role = "verifier" <=> \E k \in 1 .. n : i = VerdictAt(k)
        BY <1>4, <2>2 DEF LaidOut
      <3>2. (\E k \in 1 .. n + 1 : i = VerdictAt(k)) <=> \E k \in 1 .. n : i = VerdictAt(k)
        BY <1>0, <1>4, <2>2 DEF VerdictAt
      <3> QED
        BY <1>5, <3>1, <3>2
    <2>3. CASE i \in L + 1 .. 3 * (n + 1)
      <3>1. ~ \E k \in 1 .. n + 1 : i = VerdictAt(k)
        BY <1>0, <2>3 DEF VerdictAt
      <3> QED
        BY <1>4, <1>5, <2>3, <3>1
    <2>4. CASE i = 3 * (n + 1) + 1
      <3>1. n + 1 \in 1 .. n + 1 /\ i = VerdictAt(n + 1)
        BY <1>0, <2>4 DEF VerdictAt
      <3> QED
        BY <1>3, <1>4, <1>5, <2>4, <3>1
    <2> QED
      BY <2>1, <2>2, <2>3, <2>4
  <1>9. ASSUME NEW k \in 1 .. n + 1
        PROVE  next.steps[VerdictAt(k)].ok <=> (k = n + 1 /\ passed)
    <2>1. CASE k = n + 1
      BY <1>0, <1>3, <1>4, <1>5, <2>1 DEF VerdictAt
    <2>2. CASE k \in 1 .. n
      <3>1. VerdictAt(k) \in 1 .. L /\ n # 0
        BY <1>0, <2>2 DEF VerdictAt
      <3>2. steps[VerdictAt(k)] = old[VerdictAt(k)]
        BY <1>4, <3>1
      <3>3. ~old[VerdictAt(k)].ok
        BY <2>2 DEF LaidOut
      <3> QED
        BY <1>0, <1>5, <2>2, <3>2, <3>3
    <2> QED
      BY <1>0, <2>1, <2>2
  <1>10. LaidOut(next)
    BY <1>5, <1>7, <1>8, <1>9 DEF LaidOut
  <1> QED
    BY <1>5, <1>6, <1>10 DEF next

LEMMA CommentedRun ==
    ASSUME NEW run \in RunRecords, LaidOut(run), NEW c \in Entries
    PROVE  LET next == Commented(run, c)
           IN  /\ next \in RunRecords /\ LaidOut(next)
               /\ next.by = run.by /\ next.plan_only = run.plan_only
               /\ next.verify_attempts = run.verify_attempts
               /\ next.verification_passed = run.verification_passed
               /\ next.comments = run.comments \cup {c}
  <1> DEFINE next == Commented(run, c)
  <1>1. next = [by |-> run.by, prompt |-> run.prompt, plan_only |-> run.plan_only,
                verification_passed |-> run.verification_passed,
                verify_attempts |-> run.verify_attempts,
                comments |-> run.comments \cup {c}, steps |-> run.steps]
    BY DEF Commented
  <1>2. /\ next.by = run.by /\ next.plan_only = run.plan_only
        /\ next.verify_attempts = run.verify_attempts /\ next.steps = run.steps
        /\ next.verification_passed = run.verification_passed
        /\ next.comments = run.comments \cup {c}
    BY <1>1
  <1>3. next \in RunRecords
    BY <1>1 DEF RunRecords
  <1> HIDE DEF next
  <1>4. LaidOut(next)
    BY <1>2 DEF LaidOut, StepCount
  <1> QED
    BY <1>2, <1>3, <1>4 DEF next

-----------------------------------------------------------------------------
(* The invariant.                                                           *)

\* Before a run is made the latest, and from then on.
Early == {"plan", "attempt", "comment", "commenting", "record", "recording"}
Late == {"open", "write", "keepOpen", "keepWrite"} \cup Saving

\* The session has the provenance of run r, unless a stale one was written back.
Recorded(r) == raced \/ runs[r].by = "cli" \/ Provenance(r) \in session

\* What a command in progress knows about its run.
CommandInv(c) ==
    \/ c.phase = "idle"
    \/ /\ c.phase \in Early
       /\ c.run \in 1 .. Len(runs) /\ c.budget \in Nat
       /\ runs[c.run].by = c.host /\ (c.host = "cli" \/ c.profile.record)
       /\ c.phase = "plan" => runs[c.run].plan_only
       /\ c.phase = "attempt" =>
             /\ ~runs[c.run].plan_only /\ ~runs[c.run].verification_passed
             /\ runs[c.run].verify_attempts < c.budget
       /\ c.phase \in {"comment", "commenting", "record", "recording"} =>
             \/ runs[c.run].plan_only \/ runs[c.run].verification_passed
             \/ runs[c.run].verify_attempts = c.budget
    \/ /\ c.phase \in Late
       /\ c.run \in 1 .. Len(runs) /\ Recorded(c.run)

\* No two commands work on one run before it is saved.
Apart(c, d) == c.phase \in Early /\ d.phase \in Early => c.run # d.run

JobsInv ==
    /\ job = [j \in Jobs |-> job[j]]
    /\ \A j \in Jobs : CommandInv(job[j])
    /\ \A j, k \in Jobs : j # k => Apart(job[j], job[k])

RunsInv ==
    /\ plan \in Prompts \cup {NoPrompt}
    /\ runs \in Seq(RunRecords) /\ Len(runs) <= Runs
    /\ \A r \in 1 .. Len(runs) :
          LaidOut(runs[r]) /\ (raced \/ runs[r].comments \subseteq session)

Stored(r) == r \in 1 .. Len(runs) /\ Recorded(r)

FilesInv ==
    /\ latest \in {None, Torn} \/ Stored(latest)
    /\ memory = None \/ Stored(memory)
    /\ dir \in [1 .. Runs -> {"absent", "torn", "whole"}]
    /\ \A r \in 1 .. Runs : dir[r] # "absent" => Stored(r)

\* What was acknowledged is in the directory, and then there is a latest run.
SettledInv ==
    /\ \A r \in settled : r \in 1 .. Runs /\ dir[r] = "whole"
    /\ RestartKeepsALatest

AgentInv == JobsInv /\ RunsInv /\ FilesInv /\ SettledInv

-----------------------------------------------------------------------------
(* How runs and the session change.                                         *)

\* No run changes hands, and a session that is written back has been read.
Grows ==
    /\ runs' \in Seq(RunRecords) /\ Len(runs) <= Len(runs')
    /\ \A r \in 1 .. Len(runs) : runs'[r].by = runs[r].by
    /\ raced' \/ (~raced /\ session \subseteq session')

SameVerdict(r) ==
    /\ runs'[r].plan_only = runs[r].plan_only
    /\ runs'[r].verification_passed = runs[r].verification_passed
    /\ runs'[r].verify_attempts = runs[r].verify_attempts

Quiet == UNCHANGED <<runs, session, raced>>

LEMMA QuietGrows ==
    ASSUME RunsInv, Quiet
    PROVE  Grows /\ \A r \in 1 .. Len(runs) : SameVerdict(r)
  BY DEF RunsInv, Quiet, Grows, SameVerdict

LEMMA StoredKept ==
    ASSUME RunsInv, Grows, NEW r, Stored(r)
    PROVE  Stored(r)'
  <1>1. Len(runs) \in Nat /\ Len(runs') \in Nat
    BY DEF RunsInv, Grows
  <1>2. r \in 1 .. Len(runs')
    BY <1>1 DEF Stored, Grows
  <1>3. Recorded(r)'
    BY DEF Stored, Recorded, Grows
  <1> QED
    BY <1>2, <1>3 DEF Stored

LEMMA CommandKept ==
    ASSUME RunsInv, Grows, NEW c, CommandInv(c), c.phase \in Early => SameVerdict(c.run)
    PROVE  CommandInv(c)'
  <1>1. CASE c.phase = "idle"
    BY <1>1 DEF CommandInv
  <1>2. CASE c.phase \in Early /\ c.phase # "idle"
    <2>1. c.phase \notin Late
      BY <1>2 DEF Early, Late, Saving
    <2>2. c.run \in 1 .. Len(runs)
      BY <1>2, <2>1 DEF CommandInv
    <2>3. c.run \in 1 .. Len(runs') /\ runs'[c.run].by = runs[c.run].by
      BY <2>2 DEF RunsInv, Grows
    <2> QED
      BY <1>2, <2>1, <2>3 DEF CommandInv, SameVerdict
  <1>3. CASE c.phase \in Late
    <2>1. c.phase \notin Early /\ c.phase # "idle"
      BY <1>3 DEF Early, Late, Saving
    <2>2. Stored(c.run)
      BY <2>1 DEF CommandInv, Stored
    <2>3. Stored(c.run)'
      BY <2>2, StoredKept
    <2> QED
      BY <1>3, <2>3 DEF CommandInv, Stored
  <1> QED
    BY <1>1, <1>2, <1>3 DEF CommandInv

\* One command moves; the others keep what they know.
LEMMA JobsKept ==
    ASSUME RunsInv, JobsInv, Grows, NEW j \in Jobs, NEW c, job' = [job EXCEPT ![j] = c],
           CommandInv(c)',
           \A k \in Jobs \ {j} : job[k].phase \in Early => SameVerdict(job[k].run),
           \A k \in Jobs \ {j} : Apart(c, job[k])
    PROVE  JobsInv'
  <1>1. /\ job' = [k \in Jobs |-> job'[k]] /\ job'[j] = c
        /\ \A k \in Jobs \ {j} : job'[k] = job[k]
    <2>1. job = [k \in Jobs |-> job[k]]
      BY DEF JobsInv
    <2>2. DOMAIN job = Jobs
      BY <2>1
    <2> QED
      BY <2>1, <2>2
  <1>2. ASSUME NEW k \in Jobs PROVE CommandInv(job[k])'
    <2>1. CASE k = j
      <3>1. job'[k] = c
        BY <1>1, <2>1
      <3> QED
        BY <3>1 DEF CommandInv, Recorded
    <2>2. CASE k # j
      <3>1. PICK d : d = job[k]
        OBVIOUS
      <3>2. CommandInv(d) /\ (d.phase \in Early => SameVerdict(d.run))
        BY <2>2, <3>1 DEF JobsInv
      <3>3. CommandInv(d)'
        BY <3>2, CommandKept
      <3>4. job'[k] = d
        BY <1>1, <2>2, <3>1
      <3> QED
        BY <3>3, <3>4 DEF CommandInv, Recorded
    <2> QED
      BY <2>1, <2>2
  <1>3. ASSUME NEW k \in Jobs, NEW l \in Jobs, k # l PROVE Apart(job[k], job[l])'
    <2>1. \A d, e : Apart(d, e) => Apart(e, d)
      BY DEF Apart
    <2>2. CASE k = j
      BY <1>1, <1>3, <2>2
    <2>3. CASE l = j
      BY <1>1, <1>3, <2>1, <2>3
    <2>4. CASE k # j /\ l # j
      BY <1>1, <1>3, <2>4 DEF JobsInv
    <2> QED
      BY <2>2, <2>3, <2>4
  <1> QED
    BY <1>1, <1>2, <1>3 DEF JobsInv

\* A command goes on with its run, and runs and the session stay as they are.
LEMMA JobMoves ==
    ASSUME RunsInv, JobsInv, Quiet, NEW j \in Jobs, NEW c, job' = [job EXCEPT ![j] = c],
           CommandInv(c), c.phase \in Early => job[j].phase \in Early /\ c.run = job[j].run
    PROVE  JobsInv'
  <1>1. Grows /\ \A r \in 1 .. Len(runs) : SameVerdict(r)
    BY QuietGrows
  <1>2. ASSUME NEW d, CommandInv(d), d.phase \in Early PROVE SameVerdict(d.run)
    <2>1. d.run \in 1 .. Len(runs)
      BY <1>2 DEF CommandInv, Early, Late
    <2> QED
      BY <1>1, <2>1
  <1>3. CommandInv(c)'
    BY <1>1, <1>2, CommandKept
  <1>4. \A k \in Jobs \ {j} : job[k].phase \in Early => SameVerdict(job[k].run)
    BY <1>2 DEF JobsInv
  <1>5. \A k \in Jobs \ {j} : Apart(c, job[k])
    BY DEF JobsInv, Apart
  <1> QED
    BY <1>1, <1>3, <1>4, <1>5, JobsKept

LEMMA FilesKept ==
    ASSUME RunsInv, FilesInv, Grows, UNCHANGED <<latest, memory, dir>>
    PROVE  FilesInv'
  <1>1. ASSUME NEW r, Stored(r) PROVE Stored(r)'
    BY <1>1, StoredKept
  <1>2. latest' \in {None, Torn} \/ Stored(latest)'
    <2>1. PICK l : l = latest
      OBVIOUS
    <2>2. l \in {None, Torn} \/ Stored(l)'
      BY <1>1, <2>1 DEF FilesInv
    <2> QED
      BY <2>1, <2>2
  <1>3. memory' = None \/ Stored(memory)'
    <2>1. PICK m : m = memory
      OBVIOUS
    <2>2. m = None \/ Stored(m)'
      BY <1>1, <2>1 DEF FilesInv
    <2> QED
      BY <2>1, <2>2
  <1>4. \A r \in 1 .. Runs : dir'[r] # "absent" => Stored(r)'
    BY <1>1 DEF FilesInv
  <1> QED
    BY <1>2, <1>3, <1>4 DEF FilesInv

LEMMA SettledKept ==
    ASSUME SettledInv, UNCHANGED <<settled, dir, up, memory>>
    PROVE  SettledInv'
  BY DEF SettledInv, RestartKeepsALatest

LEMMA RunsKept ==
    ASSUME RunsInv, Quiet, plan' \in Prompts \cup {NoPrompt}
    PROVE  RunsInv'
  BY DEF RunsInv, Quiet

\* The files change, and hold runs that are accounted for.
LEMMA FilesMove ==
    ASSUME RunsInv, Quiet, NEW l, NEW m, NEW d, latest' = l, memory' = m, dir' = d,
           l \in {None, Torn} \/ Stored(l), m = None \/ Stored(m),
           d \in [1 .. Runs -> {"absent", "torn", "whole"}],
           \A r \in 1 .. Runs : d[r] # "absent" => Stored(r)
    PROVE  FilesInv'
  <1>1. ASSUME NEW r, Stored(r) PROVE Stored(r)'
    BY <1>1, QuietGrows, StoredKept
  <1>2. l \in {None, Torn} \/ Stored(l)'
    BY <1>1
  <1>3. m = None \/ Stored(m)'
    BY <1>1
  <1>4. \A r \in 1 .. Runs : d[r] # "absent" => Stored(r)'
    BY <1>1
  <1>5. latest' \in {None, Torn} \/ Stored(latest)'
    BY <1>2 DEF Stored, Recorded
  <1>6. memory' = None \/ Stored(memory)'
    BY <1>3 DEF Stored, Recorded
  <1> QED
    BY <1>4, <1>5, <1>6 DEF FilesInv

-----------------------------------------------------------------------------
(* Commands at their phases.                                                *)

LEMMA IdleCommand == CommandInv(Idle) /\ Idle.phase \notin Early
  BY DEF CommandInv, Idle, Early

LEMMA AtFields ==
    ASSUME NEW c, NEW phase, NEW copy
    PROVE  /\ At(c, phase, copy).phase = phase /\ At(c, phase, copy).run = c.run
           /\ At(c, phase, copy).host = c.host /\ At(c, phase, copy).profile = c.profile
           /\ At(c, phase, copy).budget = c.budget /\ At(c, phase, copy).copy = copy
  BY DEF At

LEMMA LateCommand ==
    ASSUME NEW c
    PROVE  /\ CommandInv(c) /\ c.phase \in Late => Stored(c.run)
           /\ c.phase \in Late /\ Stored(c.run) => CommandInv(c) /\ c.phase \notin Early
  <1>1. c.phase \in Late => c.phase \notin Early /\ c.phase # "idle"
    BY DEF Early, Late, Saving
  <1> QED
    BY <1>1 DEF CommandInv, Stored

LEMMA EarlyCommand ==
    ASSUME NEW c, CommandInv(c), c.phase \in Early
    PROVE  /\ c.run \in 1 .. Len(runs) /\ c.budget \in Nat
           /\ runs[c.run].by = c.host /\ (c.host = "cli" \/ c.profile.record)
           /\ c.phase = "plan" => runs[c.run].plan_only
           /\ c.phase = "attempt" =>
                 /\ ~runs[c.run].plan_only /\ ~runs[c.run].verification_passed
                 /\ runs[c.run].verify_attempts < c.budget
           /\ c.phase \in {"comment", "commenting", "record", "recording"} =>
                 \/ runs[c.run].plan_only \/ runs[c.run].verification_passed
                 \/ runs[c.run].verify_attempts = c.budget
  <1>1. c.phase # "idle" /\ c.phase \notin Late
    BY DEF Early, Late, Saving
  <1> QED
    BY <1>1 DEF CommandInv

-----------------------------------------------------------------------------
(* The steps of a command that leave runs and the session as they are.      *)

LEMMA PlanSavedInv ==
    ASSUME AgentInv, NEW j \in Jobs, PlanSaved(j)
    PROVE  AgentInv'
  <1> DEFINE phase == IF job[j].profile.record THEN "record" ELSE "open"
  <1>1. PICK c : c = At(job[j], phase, {})
    OBVIOUS
  <1>2. job' = [job EXCEPT ![j] = c] /\ job[j].phase = "plan" /\ Quiet
    BY <1>1 DEF PlanSaved, Goes, Quiet
  <1>3. job[j].phase \in Early /\ CommandInv(job[j])
    BY <1>2 DEF Early, AgentInv, JobsInv
  <1>4. /\ c.phase = phase /\ c.run = job[j].run /\ c.host = job[j].host
        /\ c.profile = job[j].profile /\ c.budget = job[j].budget
    BY <1>1, AtFields
  <1>5. /\ job[j].run \in 1 .. Len(runs) /\ job[j].budget \in Nat
        /\ runs[job[j].run].by = job[j].host
        /\ (job[j].host = "cli" \/ job[j].profile.record)
        /\ runs[job[j].run].plan_only
    BY <1>2, <1>3, EarlyCommand
  <1>6. CommandInv(c)
    <2>1. CASE job[j].profile.record
      <3>1. c.phase = "record" /\ c.phase \in Early
        BY <1>4, <2>1 DEF Early
      <3> QED
        BY <1>4, <1>5, <3>1 DEF CommandInv
    <2>2. CASE ~job[j].profile.record
      <3>1. c.phase = "open" /\ c.phase \in Late
        BY <1>4, <2>2 DEF Late
      <3>2. Stored(c.run)
        BY <1>4, <1>5, <2>2 DEF Stored, Recorded
      <3> QED
        BY <3>1, <3>2, LateCommand
    <2> QED
      BY <2>1, <2>2
  <1>7. JobsInv'
    BY <1>2, <1>3, <1>4, <1>6, JobMoves DEF AgentInv
  <1>8. plan' \in Prompts
    <2>1. runs[job[j].run] \in RunRecords
      BY <1>5 DEF AgentInv, RunsInv
    <2>2. \A run \in RunRecords : run.prompt \in Prompts
      BY DEF RunRecords
    <2>3. plan' = runs[job[j].run].prompt
      BY DEF PlanSaved
    <2> QED
      BY <2>1, <2>2, <2>3
  <1>9. RunsInv'
    BY <1>2, <1>8, RunsKept DEF AgentInv
  <1>10. FilesInv'
    BY <1>2, QuietGrows, FilesKept DEF AgentInv, PlanSaved
  <1>11. SettledInv'
    BY SettledKept DEF AgentInv, PlanSaved
  <1> QED
    BY <1>7, <1>9, <1>10, <1>11 DEF AgentInv

LEMMA LoadInv ==
    ASSUME AgentInv, NEW j \in Jobs, load_collab_from_disk(j)
    PROVE  AgentInv'
  <1> DEFINE phase == IF job[j].phase = "comment" THEN "commenting" ELSE "recording"
  <1>1. PICK c : c = At(job[j], phase, session)
    OBVIOUS
  <1>2. job' = [job EXCEPT ![j] = c] /\ job[j].phase \in {"comment", "record"} /\ Quiet
    BY <1>1 DEF load_collab_from_disk, Quiet
  <1>3. job[j].phase \in Early /\ CommandInv(job[j])
    BY <1>2 DEF Early, AgentInv, JobsInv
  <1>4. /\ c.phase = phase /\ c.run = job[j].run /\ c.host = job[j].host
        /\ c.profile = job[j].profile /\ c.budget = job[j].budget
    BY <1>1, AtFields
  <1>5. c.phase \in Early /\ c.phase \in {"commenting", "recording"}
    BY <1>4 DEF Early
  <1>6. /\ job[j].run \in 1 .. Len(runs) /\ job[j].budget \in Nat
        /\ runs[job[j].run].by = job[j].host
        /\ (job[j].host = "cli" \/ job[j].profile.record)
        /\ \/ runs[job[j].run].plan_only \/ runs[job[j].run].verification_passed
           \/ runs[job[j].run].verify_attempts = job[j].budget
    BY <1>2, <1>3, EarlyCommand
  <1>7. CommandInv(c)
    BY <1>4, <1>5, <1>6 DEF CommandInv
  <1>8. JobsInv'
    BY <1>2, <1>3, <1>4, <1>7, JobMoves DEF AgentInv
  <1>9. RunsInv'
    BY <1>2, RunsKept DEF AgentInv, RunsInv, load_collab_from_disk
  <1>10. FilesInv'
    BY <1>2, QuietGrows, FilesKept DEF AgentInv, load_collab_from_disk
  <1>11. SettledInv'
    BY SettledKept DEF AgentInv, load_collab_from_disk
  <1> QED
    BY <1>8, <1>9, <1>10, <1>11 DEF AgentInv

\* A command whose run is accounted for goes on to another late phase, or ends.
LEMMA LateMoves ==
    ASSUME AgentInv, Quiet, plan' = plan, NEW j \in Jobs, job[j].phase \in Late, NEW c,
           job' = [job EXCEPT ![j] = c],
           c = Idle \/ \E phase \in Late : c = At(job[j], phase, {})
    PROVE  JobsInv' /\ RunsInv' /\ Stored(job[j].run)
  <1>1. Stored(job[j].run)
    BY LateCommand DEF AgentInv, JobsInv
  <1>2. CommandInv(c) /\ c.phase \notin Early
    <2>1. CASE c = Idle
      BY <2>1, IdleCommand
    <2>2. ASSUME NEW phase \in Late, c = At(job[j], phase, {})
          PROVE  CommandInv(c) /\ c.phase \notin Early
      <3>1. c.phase = phase /\ c.run = job[j].run
        BY <2>2, AtFields
      <3> QED
        BY <1>1, <3>1, LateCommand
    <2> QED
      BY <2>1, <2>2
  <1>3. JobsInv'
    BY <1>2, JobMoves DEF AgentInv
  <1>4. RunsInv'
    BY RunsKept DEF AgentInv, RunsInv
  <1> QED
    BY <1>1, <1>3, <1>4

LEMMA LatestOpenedInv ==
    ASSUME AgentInv, NEW j \in Jobs, LatestOpened(j) \/ SaveOpensLatest(j)
    PROVE  AgentInv'
  <1>1. PICK phase \in {"write", "saveLatestWrite"} :
           /\ Goes(j, phase) /\ latest' = Torn /\ job[j].phase \in {"open", "saveLatest"}
           /\ UNCHANGED <<plan, dir, session, shown, runs, memory, up, crashed, raced, settled>>
    BY DEF LatestOpened, SaveOpensLatest
  <1>2. PICK c : c = At(job[j], phase, {})
    OBVIOUS
  <1>3. Quiet /\ plan' = plan /\ job' = [job EXCEPT ![j] = c] /\ job[j].phase \in Late
    BY <1>1, <1>2 DEF Quiet, Goes, Late, Saving
  <1>4. phase \in Late
    BY DEF Late, Saving
  <1>5. JobsInv' /\ RunsInv'
    BY <1>2, <1>3, <1>4, LateMoves
  <1>6. FilesInv'
    <2>1. PICK m, d : m = memory /\ d = dir
      OBVIOUS
    <2>2. /\ m = None \/ Stored(m)
          /\ d \in [1 .. Runs -> {"absent", "torn", "whole"}]
          /\ \A r \in 1 .. Runs : d[r] # "absent" => Stored(r)
      BY <2>1 DEF AgentInv, FilesInv
    <2>3. Torn \in {None, Torn} /\ latest' = Torn /\ memory' = m /\ dir' = d
      BY <1>1, <2>1
    <2> QED
      BY <1>3, <2>2, <2>3, FilesMove DEF AgentInv
  <1>7. SettledInv'
    BY <1>1, SettledKept DEF AgentInv
  <1> QED
    BY <1>5, <1>6, <1>7 DEF AgentInv

LEMMA LatestWrittenInv ==
    ASSUME AgentInv, NEW j \in Jobs, LatestWritten(j) \/ SaveWritesLatest(j)
    PROVE  AgentInv'
  <1>1. /\ job[j].phase \in {"write", "saveLatestWrite"} /\ latest' = job[j].run
        /\ UNCHANGED <<plan, dir, session, shown, runs, memory, up, crashed, raced, settled>>
    BY DEF LatestWritten, SaveWritesLatest
  <1>2. \E c : /\ job' = [job EXCEPT ![j] = c]
               /\ c = Idle \/ \E phase \in Late : c = At(job[j], phase, {})
    <2>1. {"keepOpen", "saveOpen", "saveMemory"} \subseteq Late
      BY DEF Late, Saving
    <2>2. CASE LatestWritten(j)
      <3> DEFINE c == IF job[j].profile.keep THEN At(job[j], "keepOpen", {})
                      ELSE IF job[j].profile.push /\ up THEN At(job[j], "saveOpen", {})
                      ELSE Idle
      <3>1. job' = [job EXCEPT ![j] = c]
        BY <2>2 DEF LatestWritten
      <3>2. c = Idle \/ \E phase \in Late : c = At(job[j], phase, {})
        BY <2>1
      <3> QED
        BY <3>1, <3>2
    <2>3. CASE SaveWritesLatest(j)
      BY <2>1, <2>3 DEF SaveWritesLatest, Goes
    <2> QED
      BY <2>2, <2>3
  <1>3. PICK c : /\ job' = [job EXCEPT ![j] = c]
                 /\ c = Idle \/ \E phase \in Late : c = At(job[j], phase, {})
    BY <1>2
  <1>4. Quiet /\ plan' = plan /\ job[j].phase \in Late
    BY <1>1 DEF Quiet, Late, Saving
  <1>5. JobsInv' /\ RunsInv' /\ Stored(job[j].run)
    BY <1>3, <1>4, LateMoves
  <1>6. FilesInv'
    <2>1. PICK l, m, d : l = job[j].run /\ m = memory /\ d = dir
      OBVIOUS
    <2>2. /\ m = None \/ Stored(m)
          /\ d \in [1 .. Runs -> {"absent", "torn", "whole"}]
          /\ \A r \in 1 .. Runs : d[r] # "absent" => Stored(r)
      BY <2>1 DEF AgentInv, FilesInv
    <2>3. Stored(l) /\ latest' = l /\ memory' = m /\ dir' = d
      BY <1>1, <1>5, <2>1
    <2> QED
      BY <1>4, <2>2, <2>3, FilesMove DEF AgentInv
  <1>7. SettledInv'
    BY <1>1, SettledKept DEF AgentInv
  <1> QED
    BY <1>5, <1>6, <1>7 DEF AgentInv

LEMMA RunFileInv ==
    ASSUME AgentInv, NEW j \in Jobs, RunOpened(j) \/ RunWritten(j)
    PROVE  AgentInv'
  <1>1. PICK r : r = job[j].run
    OBVIOUS
  <1>2. PICK text \in {"torn", "whole"} :
           /\ job[j].phase \in {"keepOpen", "saveOpen", "keepWrite", "saveWrite"}
           /\ dir' = [dir EXCEPT ![r] = text]
           /\ settled' = (IF text = "torn" THEN settled \ {r} ELSE settled)
           /\ UNCHANGED <<plan, latest, session, shown, runs, memory, up, crashed, raced>>
    <2>1. CASE RunOpened(j)
      BY <1>1, <2>1 DEF RunOpened
    <2>2. CASE RunWritten(j)
      BY <1>1, <2>2 DEF RunWritten
    <2> QED
      BY <2>1, <2>2
  <1>3. \E c : /\ job' = [job EXCEPT ![j] = c]
               /\ c = Idle \/ \E phase \in Late : c = At(job[j], phase, {})
    <2>1. {"keepWrite", "saveWrite", "saveLatest"} \subseteq Late
      BY DEF Late, Saving
    <2>2. CASE RunOpened(j)
      <3> DEFINE phase == IF job[j].phase = "keepOpen" THEN "keepWrite" ELSE "saveWrite"
      <3>1. job' = [job EXCEPT ![j] = At(job[j], phase, {})]
        BY <2>2 DEF RunOpened, Goes
      <3>2. phase \in Late
        BY <2>1
      <3> QED
        BY <3>1, <3>2
    <2>3. CASE RunWritten(j)
      <3> DEFINE c == IF job[j].phase = "keepWrite" THEN Idle ELSE At(job[j], "saveLatest", {})
      <3>1. job' = [job EXCEPT ![j] = c]
        BY <2>3 DEF RunWritten
      <3>2. c = Idle \/ \E phase \in Late : c = At(job[j], phase, {})
        BY <2>1
      <3> QED
        BY <3>1, <3>2
    <2> QED
      BY <2>2, <2>3
  <1>4. PICK c : /\ job' = [job EXCEPT ![j] = c]
                 /\ c = Idle \/ \E phase \in Late : c = At(job[j], phase, {})
    BY <1>3
  <1>5. Quiet /\ plan' = plan /\ job[j].phase \in Late
    BY <1>2 DEF Quiet, Late, Saving
  <1>6. JobsInv' /\ RunsInv' /\ Stored(job[j].run)
    BY <1>4, <1>5, LateMoves
  <1>7. r \in 1 .. Runs /\ Stored(r)
    BY <1>1, <1>6, RunsAssumption DEF Stored, AgentInv, RunsInv
  <1>8. FilesInv'
    <2>1. PICK l, m, d : l = latest /\ m = memory /\ d = [dir EXCEPT ![r] = text]
      OBVIOUS
    <2>2. /\ l \in {None, Torn} \/ Stored(l)
          /\ m = None \/ Stored(m)
      BY <2>1 DEF AgentInv, FilesInv
    <2>3. d \in [1 .. Runs -> {"absent", "torn", "whole"}]
      BY <1>7, <2>1 DEF AgentInv, FilesInv
    <2>4. ASSUME NEW q \in 1 .. Runs, d[q] # "absent" PROVE Stored(q)
      BY <1>7, <2>1, <2>4 DEF AgentInv, FilesInv
    <2>5. latest' = l /\ memory' = m /\ dir' = d
      BY <1>2, <2>1
    <2> QED
      BY <1>5, <2>2, <2>3, <2>4, <2>5, FilesMove DEF AgentInv
  <1>9. SettledInv'
    <2>1. ASSUME NEW q \in settled' PROVE q \in 1 .. Runs /\ dir'[q] = "whole"
      <3>1. q \in settled /\ (q = r => text = "whole")
        BY <1>2
      <3>2. q \in 1 .. Runs /\ dir[q] = "whole"
        BY <3>1 DEF AgentInv, SettledInv
      <3> QED
        BY <1>2, <3>1, <3>2 DEF AgentInv, FilesInv
    <2>2. RestartKeepsALatest'
      BY <1>2 DEF AgentInv, SettledInv, RestartKeepsALatest
    <2> QED
      BY <2>1, <2>2 DEF SettledInv
  <1> QED
    BY <1>6, <1>8, <1>9 DEF AgentInv

LEMMA SaveAnsweredInv ==
    ASSUME AgentInv, NEW j \in Jobs, SaveAnswered(j)
    PROVE  AgentInv'
  <1>1. PICK q : q = job[j].run
    OBVIOUS
  <1>2. /\ job[j].phase \in Late /\ Quiet /\ plan' = plan
        /\ job' = [job EXCEPT ![j] = Idle]
        /\ memory' = q /\ latest' = latest /\ dir' = dir
        /\ settled' = (IF dir[q] = "whole" THEN settled \cup {q} ELSE settled)
    BY <1>1 DEF SaveAnswered, Quiet, Late, Saving
  <1>3. JobsInv' /\ RunsInv' /\ Stored(job[j].run)
    BY <1>2, LateMoves
  <1>4. Stored(q) /\ q \in 1 .. Runs /\ q # None
    BY <1>1, <1>3, RunsAssumption DEF Stored, AgentInv, RunsInv, None
  <1>5. FilesInv'
    <2>1. PICK l, d : l = latest /\ d = dir
      OBVIOUS
    <2>2. /\ l \in {None, Torn} \/ Stored(l)
          /\ d \in [1 .. Runs -> {"absent", "torn", "whole"}]
          /\ \A r \in 1 .. Runs : d[r] # "absent" => Stored(r)
      BY <2>1 DEF AgentInv, FilesInv
    <2>3. latest' = l /\ memory' = q /\ dir' = d
      BY <1>2, <2>1
    <2>4. Quiet /\ RunsInv /\ JobsInv /\ FilesInv
      BY <1>2 DEF AgentInv
    <2>5. q = None \/ Stored(q)
      BY <1>4
    <2> QED
      BY <2>2, <2>3, <2>4, <2>5, FilesMove
  <1>6. SettledInv'
    BY <1>2, <1>4 DEF AgentInv, SettledInv, RestartKeepsALatest
  <1> QED
    BY <1>3, <1>5, <1>6 DEF AgentInv

\* A command of `genegis agent` takes up a run that is accounted for.
LEMMA TransferInv ==
    ASSUME AgentInv, NEW j \in Jobs, pull_latest_agent_run(j) \/ push_agent_run(j)
    PROVE  AgentInv'
  <1>1. PICK r, phase, push :
           /\ Stored(r) /\ phase \in Late /\ Transfer(j, r, phase, push)
           /\ UNCHANGED <<plan, latest, dir, session, shown, runs, memory, up, crashed, raced, settled>>
    <2>1. CASE pull_latest_agent_run(j)
      <3>1. Stored(memory) /\ "open" \in Late
        BY <2>1 DEF pull_latest_agent_run, AgentInv, FilesInv, Late
      <3> QED
        BY <2>1, <3>1 DEF pull_latest_agent_run
    <2>2. CASE push_agent_run(j)
      <3>1. Stored(latest) /\ "saveOpen" \in Late
        BY <2>2 DEF push_agent_run, AgentInv, FilesInv, Late, Saving
      <3> QED
        BY <2>2, <3>1 DEF push_agent_run
    <2> QED
      BY <2>1, <2>2
  <1>2. PICK c : /\ c.phase = phase /\ c.run = r
                 /\ job' = [job EXCEPT ![j] = c]
    BY <1>1 DEF Transfer
  <1>3. Quiet /\ RunsInv /\ JobsInv
    BY <1>1 DEF Quiet, AgentInv
  <1>4. CommandInv(c) /\ c.phase \notin Early
    BY <1>1, <1>2, LateCommand
  <1>5. JobsInv'
    BY <1>2, <1>3, <1>4, JobMoves
  <1>6. RunsInv'
    BY <1>1, <1>3, RunsKept DEF RunsInv
  <1>7. FilesInv'
    BY <1>1, <1>3, QuietGrows, FilesKept DEF AgentInv
  <1>8. SettledInv'
    BY <1>1, SettledKept DEF AgentInv
  <1> QED
    BY <1>5, <1>6, <1>7, <1>8 DEF AgentInv

-----------------------------------------------------------------------------
(* Crashes and restarts.                                                    *)

LEMMA HostCrashesInv ==
    ASSUME AgentInv, NEW j \in Jobs, HostCrashes(j)
    PROVE  AgentInv'
  <1>1. /\ job' = [job EXCEPT ![j] = Idle]
        /\ UNCHANGED <<plan, latest, dir, session, shown, runs, memory, up, raced, settled>>
    BY DEF HostCrashes
  <1>2. Quiet /\ RunsInv /\ JobsInv
    BY <1>1 DEF Quiet, AgentInv
  <1>3. JobsInv'
    BY <1>1, <1>2, IdleCommand, JobMoves
  <1>4. RunsInv'
    BY <1>1, <1>2, RunsKept DEF RunsInv
  <1>5. FilesInv'
    BY <1>1, <1>2, QuietGrows, FilesKept DEF AgentInv
  <1>6. SettledInv'
    BY <1>1, SettledKept DEF AgentInv
  <1> QED
    BY <1>3, <1>4, <1>5, <1>6 DEF AgentInv

LEMMA ServerCrashesInv ==
    ASSUME AgentInv, ServerCrashes
    PROVE  AgentInv'
  <1>1. /\ job' = [j \in Jobs |-> IF job[j].phase \in Saving THEN Idle ELSE job[j]]
        /\ up' = FALSE /\ memory' = None
        /\ UNCHANGED <<plan, latest, dir, session, shown, runs, raced, settled>>
    BY DEF ServerCrashes
  <1>2. Quiet /\ RunsInv /\ JobsInv /\ FilesInv
    BY <1>1 DEF Quiet, AgentInv
  <1>3. Grows /\ \A r \in 1 .. Len(runs) : SameVerdict(r)
    BY <1>2, QuietGrows
  <1>4. JobsInv'
    <2>1. job' = [j \in Jobs |-> job'[j]]
      BY <1>1
    <2>2. ASSUME NEW j \in Jobs PROVE job'[j] = Idle \/ job'[j] = job[j]
      BY <1>1
    <2>3. ASSUME NEW j \in Jobs PROVE CommandInv(job[j])'
      <3>1. PICK c : c = job'[j]
        OBVIOUS
      <3>2. CommandInv(c)
        BY <1>2, <2>2, <3>1, IdleCommand DEF JobsInv
      <3>3. c.phase \in Early => SameVerdict(c.run)
        BY <1>3, <3>2, EarlyCommand
      <3>4. CommandInv(c)'
        BY <1>2, <1>3, <3>2, <3>3, CommandKept
      <3> QED
        BY <3>1, <3>4 DEF CommandInv, Recorded
    <2>4. ASSUME NEW j \in Jobs, NEW k \in Jobs, j # k PROVE Apart(job[j], job[k])'
      <3>1. Apart(job[j], job[k])
        BY <1>2, <2>4 DEF JobsInv
      <3> QED
        BY <2>2, <3>1, IdleCommand DEF Apart
    <2> QED
      BY <2>1, <2>3, <2>4 DEF JobsInv
  <1>5. RunsInv'
    BY <1>1, <1>2, RunsKept DEF RunsInv
  <1>6. FilesInv'
    <2>1. PICK l, d : l = latest /\ d = dir
      OBVIOUS
    <2>2. /\ l \in {None, Torn} \/ Stored(l)
          /\ d \in [1 .. Runs -> {"absent", "torn", "whole"}]
          /\ \A r \in 1 .. Runs : d[r] # "absent" => Stored(r)
      BY <1>2, <2>1 DEF FilesInv
    <2>3. latest' = l /\ memory' = None /\ dir' = d
      BY <1>1, <2>1
    <2> QED
      BY <1>2, <2>2, <2>3, FilesMove
  <1>7. SettledInv'
    BY <1>1 DEF AgentInv, SettledInv, RestartKeepsALatest
  <1> QED
    BY <1>4, <1>5, <1>6, <1>7 DEF AgentInv

\* A restart finds a run whenever one was acknowledged: if the latest file is
\* torn, the acknowledged run's own file is whole.
LEMMA ServerStartsInv ==
    ASSUME AgentInv, ServerStarts
    PROVE  AgentInv'
  <1>1. /\ memory' = load_latest
        /\ UNCHANGED <<plan, latest, dir, session, shown, runs, job, crashed, raced, settled>>
    BY DEF ServerStarts
  <1>2. Quiet /\ RunsInv /\ JobsInv /\ FilesInv
    BY <1>1 DEF Quiet, AgentInv
  <1>3. PICK m : m = load_latest
    OBVIOUS
  <1>4. list_from_dir = {r \in 1 .. Runs : dir[r] = "whole"}
    BY <1>2 DEF list_from_dir, FilesInv
  <1>5. list_from_dir # {} => Max(list_from_dir) \in list_from_dir
    BY <1>4, RunsAssumption, NewestListed
  <1>6. \A r \in list_from_dir : Stored(r)
    BY <1>2, <1>4 DEF FilesInv
  <1>7. m = None \/ Stored(m)
    BY <1>2, <1>3, <1>5, <1>6 DEF load_latest, FilesInv
  <1>8. \A r : Stored(r) => r # None
    BY <1>2 DEF Stored, RunsInv, None
  <1>9. settled # {} => m # None
    <2> SUFFICES ASSUME settled # {} PROVE m # None
      OBVIOUS
    <2>1. list_from_dir # {}
      BY <1>4 DEF AgentInv, SettledInv
    <2>2. Max(list_from_dir) # None
      BY <1>5, <1>6, <1>8, <2>1
    <2> QED
      BY <1>3, <2>1, <2>2 DEF load_latest
  <1>10. JobsInv'
    <2>1. Grows /\ \A r \in 1 .. Len(runs) : SameVerdict(r)
      BY <1>2, QuietGrows
    <2>2. ASSUME NEW j \in Jobs PROVE CommandInv(job[j])'
      <3>1. PICK c : c = job[j]
        OBVIOUS
      <3>2. CommandInv(c)
        BY <1>2, <3>1 DEF JobsInv
      <3>3. c.phase \in Early => SameVerdict(c.run)
        BY <2>1, <3>2, EarlyCommand
      <3>4. CommandInv(c)'
        BY <1>2, <2>1, <3>2, <3>3, CommandKept
      <3>5. job'[j] = c
        BY <1>1, <3>1
      <3> QED
        BY <3>4, <3>5 DEF CommandInv, Recorded
    <2> QED
      BY <1>1, <1>2, <2>2 DEF JobsInv, Apart
  <1>11. RunsInv'
    BY <1>1, <1>2, RunsKept DEF RunsInv
  <1>12. FilesInv'
    <2>1. PICK l, d : l = latest /\ d = dir
      OBVIOUS
    <2>2. /\ l \in {None, Torn} \/ Stored(l)
          /\ d \in [1 .. Runs -> {"absent", "torn", "whole"}]
          /\ \A r \in 1 .. Runs : d[r] # "absent" => Stored(r)
      BY <1>2, <2>1 DEF FilesInv
    <2>3. latest' = l /\ memory' = m /\ dir' = d
      BY <1>1, <1>3, <2>1
    <2> QED
      BY <1>2, <1>7, <2>2, <2>3, FilesMove
  <1>13. SettledInv'
    BY <1>1, <1>3, <1>9 DEF AgentInv, SettledInv, RestartKeepsALatest
  <1> QED
    BY <1>10, <1>11, <1>12, <1>13 DEF AgentInv

-----------------------------------------------------------------------------
(* Runs are started.                                                        *)

\* A new run has an identifier no command in progress has.
LEMMA LaunchInv ==
    ASSUME AgentInv, NEW j \in Jobs, NEW run \in RunRecords, LaidOut(run), run.comments = {},
           Len(runs) < Runs, runs' = Append(runs, run),
           UNCHANGED <<latest, dir, session, memory, up, raced, settled>>,
           plan' \in Prompts \cup {NoPrompt},
           NEW c, job' = [job EXCEPT ![j] = c], c.run = Len(runs) + 1, c.budget \in Nat,
           run.by = c.host, c.host = "cli" \/ c.profile.record,
           \/ c.phase = "plan" /\ run.plan_only
           \/ /\ c.phase = "attempt" /\ ~run.plan_only /\ ~run.verification_passed
              /\ run.verify_attempts < c.budget
    PROVE  AgentInv'
  <1>1. /\ RunsInv /\ JobsInv /\ FilesInv /\ runs \in Seq(RunRecords) /\ Len(runs) \in Nat
    BY DEF AgentInv, RunsInv
  <1>2. /\ runs' \in Seq(RunRecords) /\ Len(runs') = Len(runs) + 1
        /\ runs'[Len(runs) + 1] = run
        /\ \A r \in 1 .. Len(runs) : runs'[r] = runs[r]
    BY <1>1
  <1>3. Grows /\ \A r \in 1 .. Len(runs) : SameVerdict(r)
    <2>1. raced' \/ (~raced /\ session \subseteq session')
      OBVIOUS
    <2> QED
      BY <1>1, <1>2, <2>1 DEF Grows, SameVerdict
  <1>4. CommandInv(c)'
    <2>1. c.phase \in Early /\ c.phase \in {"plan", "attempt"}
      BY DEF Early
    <2>2. c.run \in 1 .. Len(runs') /\ runs'[c.run] = run
      BY <1>1, <1>2
    <2> QED
      BY <2>1, <2>2 DEF CommandInv
  <1>5. ASSUME NEW k \in Jobs, job[k].phase \in Early PROVE job[k].run \in 1 .. Len(runs)
    BY <1>1, <1>5, EarlyCommand DEF JobsInv
  <1>6. \A k \in Jobs \ {j} : job[k].phase \in Early => SameVerdict(job[k].run)
    BY <1>3, <1>5
  <1>7. \A k \in Jobs \ {j} : Apart(c, job[k])
    BY <1>1, <1>5 DEF Apart
  <1>8. JobsInv'
    BY <1>1, <1>3, <1>4, <1>6, <1>7, JobsKept
  <1>9. RunsInv'
    <2>1. Len(runs') <= Runs
      BY <1>1, <1>2, RunsAssumption
    <2>2. ASSUME NEW r \in 1 .. Len(runs')
          PROVE  LaidOut(runs'[r]) /\ (raced' \/ runs'[r].comments \subseteq session')
      <3>1. CASE r = Len(runs) + 1
        BY <1>2, <3>1
      <3>2. CASE r \in 1 .. Len(runs)
        BY <1>1, <1>2, <3>2 DEF RunsInv
      <3> QED
        BY <1>1, <1>2, <3>1, <3>2
    <2> QED
      BY <1>2, <2>1, <2>2 DEF RunsInv, LaidOut, StepCount
  <1>10. FilesInv'
    BY <1>1, <1>3, FilesKept
  <1>11. SettledInv'
    BY SettledKept DEF AgentInv
  <1> QED
    BY <1>8, <1>9, <1>10, <1>11 DEF AgentInv

LEMMA ProfileRecords ==
    ASSUME NEW host \in HostNames, NEW flags
    PROVE  host = "cli" \/ Profile(host, flags).record
  BY DEF HostNames, Profile

LEMMA PlanAgentInv ==
    ASSUME AgentInv, NEW j \in Jobs, NEW host \in HostNames, NEW prompt \in Prompts,
           plan_agent(j, host, prompt)
    PROVE  AgentInv'
  <1>1. PICK run, c : /\ run = Planned(host, prompt, TRUE)
                      /\ c = Launched(host, Profile(host, NoFlags), FALSE, 1, "plan")
    OBVIOUS
  <1>2. /\ c.run = Len(runs) + 1 /\ c.budget = 1 /\ c.host = host /\ c.phase = "plan"
        /\ c.profile = Profile(host, NoFlags)
    BY <1>1 DEF Launched
  <1>3. /\ run \in RunRecords /\ LaidOut(run) /\ run.by = host /\ run.plan_only = TRUE
        /\ run.comments = {}
    BY <1>1, PlannedRun
  <1>4. c.host = "cli" \/ c.profile.record
    BY <1>2, ProfileRecords
  <1>5. /\ Len(runs) < Runs /\ runs' = Append(runs, run) /\ plan' = NoPrompt
        /\ job' = [job EXCEPT ![j] = c]
        /\ UNCHANGED <<latest, dir, session, memory, up, raced, settled>>
    BY <1>1 DEF plan_agent
  <1>6. c.budget \in Nat /\ run.by = c.host /\ plan' \in Prompts \cup {NoPrompt}
    BY <1>2, <1>3, <1>5
  <1> QED
    BY <1>2, <1>3, <1>4, <1>5, <1>6, LaunchInv

LEMMA ExecutionInv ==
    ASSUME AgentInv, NEW j \in Jobs, NEW host \in HostNames, NEW prompt \in Prompts,
           NEW retry, Execution(j, host, prompt, retry)
    PROVE  AgentInv'
  <1>1. PICK flags \in FlagsOf(host) :
           job' = [job EXCEPT ![j] = Launched(host, Profile(host, flags), retry,
                                              with_verify_retries(flags.retries), "attempt")]
    BY DEF Execution
  <1>2. flags.retries \in Nat
    BY FlagsAssumption DEF FlagsOf, NoFlags
  <1>3. PICK budget : budget = with_verify_retries(flags.retries)
    OBVIOUS
  <1>4. budget \in Nat /\ 0 < budget
    BY <1>2, <1>3 DEF with_verify_retries
  <1>5. PICK run, c : /\ run = Planned(host, prompt, FALSE)
                      /\ c = Launched(host, Profile(host, flags), retry, budget, "attempt")
    OBVIOUS
  <1>6. /\ c.run = Len(runs) + 1 /\ c.budget = budget /\ c.host = host /\ c.phase = "attempt"
        /\ c.profile = Profile(host, flags)
    BY <1>5 DEF Launched
  <1>7. /\ run \in RunRecords /\ LaidOut(run) /\ run.by = host /\ run.plan_only = FALSE
        /\ run.comments = {} /\ run.verify_attempts = 0 /\ ~run.verification_passed
    BY <1>5, PlannedRun
  <1>8. c.host = "cli" \/ c.profile.record
    BY <1>6, ProfileRecords
  <1>9. /\ Len(runs) < Runs /\ runs' = Append(runs, run)
        /\ job' = [job EXCEPT ![j] = c]
        /\ UNCHANGED <<latest, dir, session, memory, up, raced, settled>>
        /\ plan' = plan /\ plan \in Prompts \cup {NoPrompt}
    BY <1>1, <1>3, <1>5 DEF Execution, AgentInv, RunsInv
  <1>10. /\ c.budget \in Nat /\ run.by = c.host /\ plan' \in Prompts \cup {NoPrompt}
         /\ c.phase = "attempt" /\ ~run.plan_only /\ ~run.verification_passed
         /\ run.verify_attempts < c.budget
    BY <1>4, <1>6, <1>7, <1>9
  <1> QED
    BY <1>6, <1>7, <1>8, <1>9, <1>10, LaunchInv

\* The commands that start a run: from a prompt, from the pending plan, or again.
LEMMA StartInv ==
    ASSUME AgentInv, NEW j \in Jobs, NEW host \in Hosts[j],
           \/ \E prompt \in Prompts : plan_agent(j, host, prompt) \/ run_agent(j, host, prompt)
           \/ execute_agent(j, host) \/ retry_agent(j, host)
    PROVE  AgentInv'
  <1>1. host \in HostNames
    BY HostsAssumption DEF HostNames
  <1>2. plan # NoPrompt => plan \in Prompts
    BY DEF AgentInv, RunsInv
  <1>3. latest \notin {None, Torn} => runs[latest].prompt \in Prompts
    <2> SUFFICES ASSUME latest \notin {None, Torn} PROVE runs[latest].prompt \in Prompts
      OBVIOUS
    <2>1. runs[latest] \in RunRecords
      BY DEF AgentInv, FilesInv, RunsInv, Stored
    <2> QED
      BY <2>1 DEF RunRecords
  <1>4. \/ \E prompt \in Prompts : plan_agent(j, host, prompt)
        \/ \E prompt \in Prompts, retry \in BOOLEAN : Execution(j, host, prompt, retry)
    BY <1>2, <1>3 DEF run_agent, execute_agent, retry_agent
  <1> QED
    BY <1>1, <1>4, PlanAgentInv, ExecutionInv

LEMMA ExecutionFailsInv ==
    ASSUME AgentInv, NEW j \in Jobs, ExecutionFails(j)
    PROVE  AgentInv'
  <1>1. CASE job' = [job EXCEPT ![j] = Idle] /\ UNCHANGED runs
    <2>1. /\ UNCHANGED <<plan, latest, dir, session, shown, runs, memory, up, crashed, raced, settled>>
      BY <1>1 DEF ExecutionFails
    <2>2. Quiet /\ RunsInv /\ JobsInv
      BY <2>1 DEF Quiet, AgentInv
    <2>3. JobsInv'
      BY <1>1, <2>2, IdleCommand, JobMoves
    <2>4. RunsInv'
      BY <2>1, <2>2, RunsKept DEF RunsInv
    <2>5. FilesInv'
      BY <2>1, <2>2, QuietGrows, FilesKept DEF AgentInv
    <2>6. SettledInv'
      BY <2>1, SettledKept DEF AgentInv
    <2> QED
      BY <2>3, <2>4, <2>5, <2>6 DEF AgentInv
  <1>2. CASE ~(job' = [job EXCEPT ![j] = Idle] /\ UNCHANGED runs)
    <2>1. /\ job[j].phase = "attempt" /\ job[j].host = "desktop" /\ latest \notin {None, Torn}
          /\ Len(runs) < Runs
          /\ runs' = Append(runs, Planned("desktop", runs[latest].prompt, FALSE))
          /\ job' = [job EXCEPT ![j] = Launched("desktop", job[j].profile, FALSE, 2, "attempt")]
          /\ UNCHANGED <<plan, latest, dir, session, memory, up, raced, settled>>
      BY <1>2 DEF ExecutionFails
    <2>2. PICK prompt : prompt = runs[latest].prompt
      OBVIOUS
    <2>3. prompt \in Prompts
      <3>1. runs[latest] \in RunRecords
        BY <2>1 DEF AgentInv, FilesInv, RunsInv, Stored
      <3> QED
        BY <2>2, <3>1 DEF RunRecords
    <2>4. PICK run, c : /\ run = Planned("desktop", prompt, FALSE)
                        /\ c = Launched("desktop", job[j].profile, FALSE, 2, "attempt")
      OBVIOUS
    <2>5. /\ c.run = Len(runs) + 1 /\ c.budget = 2 /\ c.host = "desktop"
          /\ c.phase = "attempt" /\ c.profile = job[j].profile
      BY <2>4 DEF Launched
    <2>6. /\ run \in RunRecords /\ LaidOut(run) /\ run.by = "desktop" /\ run.plan_only = FALSE
          /\ run.comments = {} /\ run.verify_attempts = 0 /\ ~run.verification_passed
      <3>1. "desktop" \in HostNames
        BY DEF HostNames
      <3> QED
        BY <2>3, <2>4, <3>1, PlannedRun
    <2>7. c.profile.record
      <3>1. CommandInv(job[j]) /\ job[j].phase \in Early
        BY <2>1 DEF AgentInv, JobsInv, Early
      <3> QED
        BY <2>1, <2>5, <3>1, EarlyCommand
    <2>8. /\ runs' = Append(runs, run) /\ job' = [job EXCEPT ![j] = c]
          /\ plan' \in Prompts \cup {NoPrompt}
      BY <2>1, <2>2, <2>4 DEF AgentInv, RunsInv
    <2>9. /\ c.budget \in Nat /\ run.by = c.host
          /\ c.phase = "attempt" /\ ~run.plan_only /\ ~run.verification_passed
          /\ run.verify_attempts < c.budget
      BY <2>5, <2>6
    <2> QED
      BY <2>1, <2>5, <2>6, <2>7, <2>8, <2>9, LaunchInv
  <1> QED
    BY <1>1, <1>2

-----------------------------------------------------------------------------
(* A run is verified or commented, and the session is written back.         *)

\* A command changes its own run, which no other command is working on.
LEMMA RewriteInv ==
    ASSUME AgentInv, NEW j \in Jobs, job[j].phase \in Early,
           NEW q, q = job[j].run, NEW run \in RunRecords, LaidOut(run),
           run.by = runs[q].by, runs' = [runs EXCEPT ![q] = run],
           UNCHANGED <<plan, latest, dir, memory, up, settled>>,
           raced' \/ (~raced /\ session \subseteq session' /\ run.comments \subseteq session'),
           NEW c, job' = [job EXCEPT ![j] = c], c.run = q, CommandInv(c)'
    PROVE  AgentInv'
  <1>1. /\ RunsInv /\ JobsInv /\ FilesInv /\ runs \in Seq(RunRecords) /\ Len(runs) \in Nat
        /\ CommandInv(job[j])
    BY DEF AgentInv, RunsInv, JobsInv
  <1>2. q \in 1 .. Len(runs)
    BY <1>1, EarlyCommand
  <1>3. /\ runs' \in Seq(RunRecords) /\ Len(runs') = Len(runs) /\ runs'[q] = run
        /\ \A r \in 1 .. Len(runs) : r # q => runs'[r] = runs[r]
    BY <1>1, <1>2
  <1>4. Grows
    BY <1>1, <1>3 DEF Grows
  <1>5. ASSUME NEW k \in Jobs \ {j}, job[k].phase \in Early
        PROVE  job[k].run \in 1 .. Len(runs) /\ job[k].run # q
    <2>1. Apart(job[j], job[k]) /\ CommandInv(job[k])
      BY <1>1 DEF JobsInv
    <2> QED
      BY <1>5, <2>1, EarlyCommand DEF Apart
  <1>6. \A k \in Jobs \ {j} : job[k].phase \in Early => SameVerdict(job[k].run)
    BY <1>3, <1>5 DEF SameVerdict
  <1>7. \A k \in Jobs \ {j} : Apart(c, job[k])
    BY <1>5 DEF Apart
  <1>8. JobsInv'
    BY <1>1, <1>4, <1>6, <1>7, JobsKept
  <1>9. RunsInv'
    <2>1. ASSUME NEW r \in 1 .. Len(runs)
          PROVE  LaidOut(runs'[r]) /\ (raced' \/ runs'[r].comments \subseteq session')
      <3>1. CASE r = q
        BY <1>3, <3>1
      <3>2. CASE r # q
        BY <1>1, <1>3, <3>2 DEF RunsInv
      <3> QED
        BY <3>1, <3>2
    <2> QED
      BY <1>1, <1>3, <2>1 DEF RunsInv, LaidOut, StepCount
  <1>10. FilesInv'
    BY <1>1, <1>4, FilesKept
  <1>11. SettledInv'
    BY SettledKept DEF AgentInv
  <1> QED
    BY <1>8, <1>9, <1>10, <1>11 DEF AgentInv

LEMMA AttemptInv ==
    ASSUME AgentInv, NEW j \in Jobs, NEW passed \in BOOLEAN, execute_after_plan(j, passed)
    PROVE  AgentInv'
  <1>1. PICK q : q = job[j].run
    OBVIOUS
  <1>2. PICK run : run = Attempted(runs[q], passed)
    OBVIOUS
  <1>3. PICK phase : phase = IF passed \/ run.verify_attempts = job[j].budget
                             THEN Finalizes(job[j].profile, passed) ELSE "attempt"
    OBVIOUS
  <1>4. PICK c : c = At(job[j], phase, {})
    OBVIOUS
  <1>5. /\ job[j].phase = "attempt" /\ runs' = [runs EXCEPT ![q] = run]
        /\ job' = [job EXCEPT ![j] = c]
        /\ UNCHANGED <<plan, latest, dir, session, memory, up, raced, settled>>
    BY <1>1, <1>2, <1>3, <1>4 DEF execute_after_plan, Goes
  <1>6. job[j].phase \in Early /\ CommandInv(job[j])
    BY <1>5 DEF Early, AgentInv, JobsInv
  <1>7. /\ q \in 1 .. Len(runs) /\ job[j].budget \in Nat
        /\ runs[q].by = job[j].host /\ (job[j].host = "cli" \/ job[j].profile.record)
        /\ ~runs[q].plan_only /\ ~runs[q].verification_passed
        /\ runs[q].verify_attempts < job[j].budget
    BY <1>1, <1>5, <1>6, EarlyCommand
  <1>8. PICK old : old = runs[q]
    OBVIOUS
  <1>9. old \in RunRecords /\ LaidOut(old) /\ (raced \/ old.comments \subseteq session)
    BY <1>7, <1>8 DEF AgentInv, RunsInv
  <1>10. /\ run \in RunRecords /\ LaidOut(run) /\ run.by = old.by
         /\ run.plan_only = old.plan_only /\ run.comments = old.comments
         /\ run.verify_attempts = old.verify_attempts + 1
         /\ run.verification_passed = passed
    BY <1>2, <1>7, <1>8, <1>9, AttemptedRun
  <1>11. /\ c.phase = phase /\ c.run = q /\ c.host = job[j].host
         /\ c.profile = job[j].profile /\ c.budget = job[j].budget
    BY <1>1, <1>4, AtFields
  <1>12. old.verify_attempts \in Nat
    BY <1>9 DEF RunRecords
  <1>13. CommandInv(c)'
    <2>1. c.run \in 1 .. Len(runs') /\ runs'[c.run] = run
      BY <1>5, <1>7, <1>11 DEF AgentInv, RunsInv
    <2>2. CASE phase = "attempt"
      <3>1. ~passed /\ run.verify_attempts # job[j].budget
        BY <1>3, <2>2 DEF Finalizes
      <3>2. run.verify_attempts < c.budget
        BY <1>7, <1>8, <1>10, <1>11, <1>12, <3>1
      <3>3. c.phase \in Early /\ c.phase = "attempt"
        BY <1>11, <2>2 DEF Early
      <3> QED
        BY <1>7, <1>8, <1>10, <1>11, <2>1, <3>1, <3>2, <3>3 DEF CommandInv
    <2>3. CASE phase # "attempt"
      <3>1. /\ passed \/ run.verify_attempts = c.budget
            /\ phase = Finalizes(job[j].profile, passed)
        BY <1>3, <1>11, <2>3
      <3>2. phase \in {"comment", "record"} \/ (phase = "open" /\ ~c.profile.record)
        BY <1>11, <3>1 DEF Finalizes
      <3>3. CASE phase \in {"comment", "record"}
        <4>1. c.phase \in Early /\ c.phase \in {"comment", "record"}
          BY <1>11, <3>3 DEF Early
        <4> QED
          BY <1>7, <1>8, <1>10, <1>11, <2>1, <3>1, <4>1 DEF CommandInv
      <3>4. CASE phase = "open" /\ ~c.profile.record
        <4>1. c.phase \in Late
          BY <1>11, <3>4 DEF Late
        <4>2. run.by = "cli"
          BY <1>7, <1>8, <1>10, <1>11, <3>4
        <4> QED
          BY <2>1, <4>1, <4>2 DEF CommandInv, Recorded
      <3> QED
        BY <3>2, <3>3, <3>4
    <2> QED
      BY <2>2, <2>3
  <1>14. raced' \/ (~raced /\ session \subseteq session' /\ run.comments \subseteq session')
    BY <1>5, <1>9, <1>10
  <1>15. run.by = runs[q].by
    BY <1>8, <1>10
  <1> QED
    BY <1>1, <1>5, <1>6, <1>10, <1>11, <1>13, <1>14, <1>15, RewriteInv

LEMMA CommentInv ==
    ASSUME AgentInv, NEW j \in Jobs, link_agent_failure_comment(j)
    PROVE  AgentInv'
  <1>1. PICK q : q = job[j].run
    OBVIOUS
  <1>2. PICK run : run = Commented(runs[q], Comment(q))
    OBVIOUS
  <1>3. PICK phase : phase = IF job[j].profile.record THEN "record" ELSE "open"
    OBVIOUS
  <1>4. PICK c : c = At(job[j], phase, {})
    OBVIOUS
  <1>5. /\ job[j].phase = "commenting" /\ runs' = [runs EXCEPT ![q] = run]
        /\ job' = [job EXCEPT ![j] = c]
        /\ session' = job[j].copy \cup {Comment(q)}
        /\ raced' = (raced \/ session # job[j].copy)
        /\ UNCHANGED <<plan, latest, dir, memory, up, settled>>
    BY <1>1, <1>2, <1>3, <1>4 DEF link_agent_failure_comment, SessionBecomes, Goes
  <1>6. job[j].phase \in Early /\ CommandInv(job[j])
    BY <1>5 DEF Early, AgentInv, JobsInv
  <1>7. /\ q \in 1 .. Len(runs) /\ job[j].budget \in Nat
        /\ runs[q].by = job[j].host /\ (job[j].host = "cli" \/ job[j].profile.record)
        /\ \/ runs[q].plan_only \/ runs[q].verification_passed
           \/ runs[q].verify_attempts = job[j].budget
    BY <1>1, <1>5, <1>6, EarlyCommand
  <1>8. PICK old : old = runs[q]
    OBVIOUS
  <1>9. /\ old \in RunRecords /\ LaidOut(old) /\ (raced \/ old.comments \subseteq session)
        /\ q \in Nat
    BY <1>7, <1>8 DEF AgentInv, RunsInv
  <1>10. /\ run \in RunRecords /\ LaidOut(run) /\ run.by = old.by
         /\ run.plan_only = old.plan_only /\ run.comments = old.comments \cup {Comment(q)}
         /\ run.verify_attempts = old.verify_attempts
         /\ run.verification_passed = old.verification_passed
    <2>1. Comment(q) \in Entries
      BY <1>9 DEF Comment, Entries
    <2> QED
      BY <1>2, <1>8, <1>9, <2>1, CommentedRun
  <1>11. /\ c.phase = phase /\ c.run = q /\ c.host = job[j].host
         /\ c.profile = job[j].profile /\ c.budget = job[j].budget
    BY <1>1, <1>4, AtFields
  <1>12. CommandInv(c)'
    <2>1. c.run \in 1 .. Len(runs') /\ runs'[c.run] = run
      BY <1>5, <1>7, <1>11 DEF AgentInv, RunsInv
    <2>2. CASE c.profile.record
      <3>1. c.phase \in Early /\ c.phase = "record"
        BY <1>3, <1>11, <2>2 DEF Early
      <3> QED
        BY <1>7, <1>8, <1>10, <1>11, <2>1, <2>2, <3>1 DEF CommandInv
    <2>3. CASE ~c.profile.record
      <3>1. c.phase \in Late
        BY <1>3, <1>11, <2>3 DEF Late
      <3>2. run.by = "cli"
        BY <1>7, <1>8, <1>10, <1>11, <2>3
      <3> QED
        BY <2>1, <3>1, <3>2 DEF CommandInv, Recorded
    <2> QED
      BY <2>2, <2>3
  <1>13. raced' \/ (~raced /\ session \subseteq session' /\ run.comments \subseteq session')
    BY <1>5, <1>9, <1>10
  <1>14. run.by = runs[q].by
    BY <1>8, <1>10
  <1> QED
    BY <1>1, <1>5, <1>6, <1>10, <1>11, <1>12, <1>13, <1>14, RewriteInv

\* The session is written back and no run changes.
LEMMA SessionWrittenInv ==
    ASSUME AgentInv, NEW entries, NEW read, SessionBecomes(entries, read), read \subseteq entries,
           UNCHANGED <<plan, latest, dir, runs, memory, up, settled>>
    PROVE  /\ RunsInv' /\ FilesInv' /\ SettledInv'
           /\ Grows /\ \A r \in 1 .. Len(runs) : SameVerdict(r)
  <1>1. RunsInv /\ FilesInv /\ runs \in Seq(RunRecords) /\ Len(runs) \in Nat
    BY DEF AgentInv, RunsInv
  <1>2. raced' \/ (~raced /\ session \subseteq session')
    BY DEF SessionBecomes
  <1>3. Grows /\ \A r \in 1 .. Len(runs) : SameVerdict(r)
    BY <1>1, <1>2 DEF Grows, SameVerdict
  <1>4. RunsInv'
    BY <1>1, <1>2 DEF RunsInv
  <1>5. FilesInv'
    BY <1>1, <1>3, FilesKept
  <1>6. SettledInv'
    BY SettledKept DEF AgentInv
  <1> QED
    BY <1>3, <1>4, <1>5, <1>6

LEMMA ProvenanceInv ==
    ASSUME AgentInv, NEW j \in Jobs, record_agent_run_provenance(j)
    PROVE  AgentInv'
  <1>1. PICK q, read : q = job[j].run /\ read = job[j].copy
    OBVIOUS
  <1>2. PICK c : c = At(job[j], "open", {})
    OBVIOUS
  <1>3. /\ job[j].phase = "recording" /\ job' = [job EXCEPT ![j] = c]
        /\ SessionBecomes(read \cup {Provenance(q)}, read)
        /\ UNCHANGED <<plan, latest, dir, runs, memory, up, settled>>
    BY <1>1, <1>2 DEF record_agent_run_provenance, Goes
  <1>4. /\ RunsInv' /\ FilesInv' /\ SettledInv'
        /\ Grows /\ \A r \in 1 .. Len(runs) : SameVerdict(r)
    <2>1. PICK entries : entries = read \cup {Provenance(q)}
      OBVIOUS
    <2>2. SessionBecomes(entries, read) /\ read \subseteq entries
      BY <1>3, <2>1
    <2> QED
      BY <1>3, <2>2, SessionWrittenInv
  <1>5. q \in 1 .. Len(runs)
    <2>1. job[j].phase \in Early /\ CommandInv(job[j])
      BY <1>3 DEF Early, AgentInv, JobsInv
    <2> QED
      BY <1>1, <2>1, EarlyCommand
  <1>6. c.phase = "open" /\ c.run = q
    BY <1>1, <1>2, AtFields
  <1>7. CommandInv(c)'
    <2>1. c.phase \in Late
      BY <1>6 DEF Late
    <2>2. Provenance(q) \in session'
      BY <1>3 DEF SessionBecomes
    <2> QED
      BY <1>3, <1>5, <1>6, <2>1, <2>2 DEF CommandInv, Recorded
  <1>8. \A k \in Jobs : job[k].phase \in Early => SameVerdict(job[k].run)
    BY <1>4, EarlyCommand DEF AgentInv, JobsInv
  <1>9. \A k \in Jobs \ {j} : Apart(c, job[k])
    BY <1>6 DEF Apart, Early
  <1>10. JobsInv'
    BY <1>3, <1>4, <1>7, <1>8, <1>9, JobsKept DEF AgentInv
  <1> QED
    BY <1>4, <1>10 DEF AgentInv

LEMMA CommentPostedInv ==
    ASSUME AgentInv, CommentPosted
    PROVE  AgentInv'
  <1>1. PICK entries, read : entries = shown \cup {Comment(None)} /\ read = shown
    OBVIOUS
  <1>2. /\ SessionBecomes(entries, read) /\ read \subseteq entries /\ job' = job
        /\ UNCHANGED <<plan, latest, dir, runs, memory, up, settled>>
    BY <1>1 DEF CommentPosted
  <1>3. /\ RunsInv' /\ FilesInv' /\ SettledInv'
        /\ Grows /\ \A r \in 1 .. Len(runs) : SameVerdict(r)
    BY <1>2, SessionWrittenInv
  <1>4. RunsInv /\ JobsInv
    BY DEF AgentInv
  <1>5. ASSUME NEW j \in Jobs PROVE CommandInv(job[j])'
    <2>1. PICK c : c = job[j]
      OBVIOUS
    <2>2. CommandInv(c)
      BY <1>4, <2>1 DEF JobsInv
    <2>3. c.phase \in Early => SameVerdict(c.run)
      BY <1>3, <2>2, EarlyCommand
    <2>4. CommandInv(c)'
      BY <1>3, <1>4, <2>2, <2>3, CommandKept
    <2>5. job'[j] = c
      BY <1>2, <2>1
    <2> QED
      BY <2>4, <2>5 DEF CommandInv, Recorded
  <1>6. JobsInv'
    BY <1>2, <1>4, <1>5 DEF JobsInv, Apart
  <1> QED
    BY <1>3, <1>6 DEF AgentInv

-----------------------------------------------------------------------------
(* The invariant holds, and what follows from it.                           *)

LEMMA InitInv ==
    ASSUME Init
    PROVE  AgentInv
  <1>1. JobsInv
    <2>1. \A j \in Jobs : job[j] = Idle
      BY DEF Init
    <2>2. job = [j \in Jobs |-> job[j]]
      BY DEF Init
    <2> QED
      BY <2>1, <2>2, IdleCommand DEF JobsInv, Apart
  <1>2. RunsInv
    <2>1. << >> \in Seq(RunRecords) /\ Len(<< >>) = 0 /\ 1 .. 0 = {}
      OBVIOUS
    <2> QED
      BY <2>1, RunsAssumption DEF Init, RunsInv
  <1>3. FilesInv
    BY DEF Init, FilesInv
  <1>4. SettledInv
    BY DEF Init, SettledInv, RestartKeepsALatest
  <1> QED
    BY <1>1, <1>2, <1>3, <1>4 DEF AgentInv

LEMMA StepsInv ==
    ASSUME AgentInv, NEW j \in Jobs, Steps(j)
    PROVE  AgentInv'
  BY PlanSavedInv, AttemptInv, ExecutionFailsInv, LoadInv, CommentInv, ProvenanceInv,
     LatestOpenedInv, LatestWrittenInv, RunFileInv, SaveAnsweredInv DEF Steps

LEMMA UnchangedInv ==
    ASSUME AgentInv, UNCHANGED agentVars
    PROVE  AgentInv'
  <1>1. UNCHANGED <<plan, latest, dir, session, runs, job, memory, up, raced, settled>>
    BY DEF agentVars
  <1>2. JobsInv'
    BY <1>1 DEF AgentInv, JobsInv, Apart, CommandInv, Recorded
  <1>3. RunsInv'
    BY <1>1 DEF AgentInv, RunsInv
  <1>4. FilesInv'
    BY <1>1 DEF AgentInv, FilesInv, Stored, Recorded
  <1>5. SettledInv'
    BY <1>1, SettledKept DEF AgentInv
  <1> QED
    BY <1>2, <1>3, <1>4, <1>5 DEF AgentInv

LEMMA NextInv ==
    ASSUME AgentInv, [Next]_agentVars
    PROVE  AgentInv'
  <1>1. ASSUME NEW j \in Jobs, Steps(j) \/ HostCrashes(j) PROVE AgentInv'
    BY <1>1, StepsInv, HostCrashesInv
  <1>2. ASSUME NEW j \in Jobs, NEW host \in Hosts[j], NEW prompt \in Prompts,
               plan_agent(j, host, prompt) \/ run_agent(j, host, prompt)
        PROVE  AgentInv'
    BY <1>2, StartInv
  <1>3. ASSUME NEW j \in Jobs, NEW host \in Hosts[j],
               execute_agent(j, host) \/ retry_agent(j, host)
        PROVE  AgentInv'
    BY <1>3, StartInv
  <1>4. ASSUME NEW j \in Jobs, pull_latest_agent_run(j) \/ push_agent_run(j) PROVE AgentInv'
    BY <1>4, TransferInv
  <1>5. ASSUME CommentPosted \/ ServerCrashes \/ ServerStarts PROVE AgentInv'
    BY <1>5, CommentPostedInv, ServerCrashesInv, ServerStartsInv
  <1>6. ASSUME UNCHANGED agentVars PROVE AgentInv'
    BY <1>6, UnchangedInv
  <1> QED
    BY <1>1, <1>2, <1>3, <1>4, <1>5, <1>6 DEF Next

\* The invariant of agent orchestration: what commands, runs and files know of
\* each other.
THEOREM AgentInvariant == Spec => []AgentInv
  <1>1. Init => AgentInv
    BY InitInv
  <1>2. AgentInv /\ [Next]_agentVars => AgentInv'
    BY NextInv
  <1> QED
    BY <1>1, <1>2, PTL DEF Spec

\* Every run has the steps its verdict speaks of, no command goes past its
\* budget or stops short of it, and the session file has the trail of the
\* latest run unless a stale session was written back: for any number of
\* commands, runs and crashes.
THEOREM TrailsExplainRunsTheorem == Spec => []TrailsExplainRuns
  <1>1. AgentInv => TrailsExplainRuns
    <2> SUFFICES ASSUME AgentInv PROVE TrailsExplainRuns
      OBVIOUS
    <2>1. \A r \in 1 .. Len(runs) : LaidOut(runs[r])
      BY DEF AgentInv, RunsInv
    <2>2. ASSUME NEW j \in Jobs, job[j].phase # "idle"
          PROVE  /\ job[j].phase = "attempt" =>
                       /\ runs[job[j].run].verify_attempts < job[j].budget
                       /\ ~runs[job[j].run].verification_passed
                 /\ job[j].phase \in {"comment", "commenting", "record", "recording"} =>
                       \/ runs[job[j].run].plan_only \/ runs[job[j].run].verification_passed
                       \/ runs[job[j].run].verify_attempts = job[j].budget
      <3>1. CommandInv(job[j])
        BY DEF AgentInv, JobsInv
      <3>2. job[j].phase \in {"attempt", "comment", "commenting", "record", "recording"} =>
               job[j].phase \in Early
        BY DEF Early
      <3> QED
        BY <3>1, <3>2, EarlyCommand
    <2>3. VerdictsHaveTheirSteps
      BY <2>1, <2>2 DEF VerdictsHaveTheirSteps, LaidOut
    <2>4. TrailCompleteUnlessRaced
      BY DEF AgentInv, RunsInv, FilesInv, Stored, Recorded, TrailCompleteUnlessRaced
    <2> QED
      BY <2>3, <2>4 DEF TrailsExplainRuns
  <1> QED
    BY <1>1, AgentInvariant, PTL

\* A server that has acknowledged a run reports a latest run whenever it is up,
\* whatever crashes tore the latest file in between.
THEOREM RestartKeepsALatestTheorem == Spec => []RestartKeepsALatest
  <1>1. AgentInv => RestartKeepsALatest
    BY DEF AgentInv, SettledInv
  <1> QED
    BY <1>1, AgentInvariant, PTL
==============================================================================
