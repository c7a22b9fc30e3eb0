--------------------------- MODULE GovernanceProofs ---------------------------
(***************************************************************************)
(* Properties of Governance for any policy, any number of subjects and a   *)
(* log of any length: separation of duties, that the audit log verifies    *)
(* and vouches for every approval as it stands, and that approvals only    *)
(* accumulate.                                                             *)
(***************************************************************************)
EXTENDS Governance, FiniteSetTheorems, TLAPS

-----------------------------------------------------------------------------
(* The audit log                                                           *)

IsSequence(log) == \E S : log \in Seq(S)

\* What append_event does to a log, position by position.
LEMMA AppendedLog ==
    ASSUME NEW log, IsSequence(log), NEW actor, NEW type, NEW subject, NEW at
    PROVE  LET new == Appended(log, actor, type, subject, at)
               previous == IF log = << >> THEN None ELSE log[Len(log)].event_digest
           IN  /\ IsSequence(new)
               /\ Len(new) = Len(log) + 1
               /\ Len(log) \in Nat
               /\ \A i \in 1..Len(log) : new[i] = log[i]
               /\ new[Len(log) + 1] =
                      AuditEvent(Len(log) + 1, actor, type, subject, at, previous)
<1> DEFINE previous == IF log = << >> THEN None ELSE log[Len(log)].event_digest
           e == AuditEvent(Len(log) + 1, actor, type, subject, at, previous)
<1>1. PICK S : log \in Seq(S)
  BY DEF IsSequence
<1>2. Appended(log, actor, type, subject, at) = Append(log, e)
  BY DEF Appended
<1> HIDE DEF e
<1>3. /\ log \in Seq(S \cup {e}) /\ e \in S \cup {e}
  BY <1>1
<1>4. /\ Append(log, e) \in Seq(S \cup {e})
      /\ Len(Append(log, e)) = Len(log) + 1
      /\ Len(log) \in Nat
      /\ \A i \in 1..Len(log) : Append(log, e)[i] = log[i]
      /\ Append(log, e)[Len(log) + 1] = e
  BY <1>3
<1>5. IsSequence(Append(log, e))
  BY <1>4 DEF IsSequence
<1> QED
  BY <1>2, <1>4, <1>5 DEF e

\* Appending an event to a log that verifies gives a log that verifies.
LEMMA AppendedVerifies ==
    ASSUME NEW log, IsSequence(log), verify_audit_chain(log),
           NEW actor, NEW type, NEW subject, NEW at
    PROVE  LET new == Appended(log, actor, type, subject, at)
           IN  IsSequence(new) /\ verify_audit_chain(new)
<1> DEFINE new == Appended(log, actor, type, subject, at)
           previous == IF log = << >> THEN None ELSE log[Len(log)].event_digest
<1>1. /\ IsSequence(new)
      /\ Len(new) = Len(log) + 1
      /\ Len(log) \in Nat
      /\ \A i \in 1..Len(log) : new[i] = log[i]
      /\ new[Len(log) + 1] = AuditEvent(Len(log) + 1, actor, type, subject, at, previous)
  BY AppendedLog
<1>2. previous = (IF Len(log) = 0 THEN None ELSE log[Len(log)].event_digest)
  <2>1. PICK S : log \in Seq(S)
    BY DEF IsSequence
  <2>2. log = << >> <=> Len(log) = 0
    BY <2>1
  <2> QED BY <2>2
<1> HIDE DEF new, previous
<1>3. ASSUME NEW i \in 1..Len(new)
      PROVE  /\ new[i].event.sequence = i
             /\ new[i].event.previous_event_digest =
                    (IF i = 1 THEN None ELSE new[i - 1].event_digest)
             /\ new[i].event_digest = semantic_digest(new[i].event)
  <2>1. CASE i \in 1..Len(log)
    <3>1. new[i] = log[i] /\ (i # 1 => i - 1 \in 1..Len(log))
      BY <1>1, <2>1
    <3>2. i # 1 => new[i - 1] = log[i - 1]
      BY <1>1, <3>1
    <3>3. /\ log[i].event.sequence = i
          /\ log[i].event.previous_event_digest =
                 (IF i = 1 THEN None ELSE log[i - 1].event_digest)
          /\ log[i].event_digest = semantic_digest(log[i].event)
      BY <2>1 DEF verify_audit_chain
    <3> QED BY <3>1, <3>2, <3>3
  <2>2. CASE i = Len(log) + 1
    <3>1. /\ new[i].event.sequence = i
          /\ new[i].event.previous_event_digest = previous
          /\ new[i].event_digest = semantic_digest(new[i].event)
      BY <1>1, <2>2 DEF AuditEvent
    <3>2. i # 1 => new[i - 1] = log[Len(log)] /\ Len(log) # 0
      BY <1>1, <2>2
    <3>3. i = 1 => Len(log) = 0
      BY <1>1, <2>2
    <3> QED BY <3>1, <3>2, <3>3, <1>2
  <2> QED BY <2>1, <2>2, <1>1
<1>4. verify_audit_chain(new)
  BY <1>3 DEF verify_audit_chain
<1> QED
  BY <1>1, <1>4 DEF new

-----------------------------------------------------------------------------
(* The invariant                                                           *)

\* What a request holds; needed to know that its threshold is a number and
\* that its approvers can be counted.
Requests == \A r \in DOMAIN approvals :
    r.action \in Actions /\ IsFiniteSet(approvals[r].approvers)

LogInv == IsSequence(audit_events) /\ verify_audit_chain(audit_events)

Inv == Requests /\ SeparationOfDuties /\ LogInv

\* A fresh request is open and has no approver.
LEMMA FreshRequest ==
    ASSUME Requests, SeparationOfDuties,
           NEW actor, NEW project, NEW action \in Actions, NEW resource, NEW at \in Times,
           authorize(actor, project, action, resource, at)
    PROVE  Requests' /\ SeparationOfDuties'
<1> DEFINE request == RequestOf(project, action, resource, actor, at)
           approval == Approval(request, {}, None)
<1>1. CASE UNCHANGED approvals
  BY <1>1 DEF Requests, SeparationOfDuties
<1>2. CASE /\ Threshold(action) > 0
           /\ approvals' = [r \in DOMAIN approvals \cup {request} |->
                               IF r = request THEN approval ELSE approvals[r]]
  <2>1. request.action = action /\ request.requested_by = actor
    BY DEF RequestOf
  <2>2. approval.approvers = {} /\ approval.completed_at = None
    BY DEF Approval
  <2> HIDE DEF request, approval
  <2>3. IsFiniteSet({}) /\ Cardinality({}) = 0
    BY FS_EmptySet
  <2>4. Threshold(action) \in Nat
    BY ThresholdAssumption
  <2>5. ASSUME NEW r \in DOMAIN approvals'
        PROVE  /\ r.action \in Actions /\ IsFiniteSet(approvals'[r].approvers)
               /\ r.requested_by \notin approvals'[r].approvers
               /\ Threshold(r.action) > 0
               /\ approvals'[r].completed_at # None
                     <=> Cardinality(approvals'[r].approvers) >= Threshold(r.action)
    <3>1. CASE r = request
      <4>1. approvals'[r] = approval
        BY <1>2, <3>1
      <4>2. ~ (0 >= Threshold(action))
        BY <1>2, <2>4
      <4> QED BY <1>2, <2>1, <2>2, <2>3, <4>1, <4>2, <3>1
    <3>2. CASE r # request
      <4>1. r \in DOMAIN approvals /\ approvals'[r] = approvals[r]
        BY <1>2, <3>2
      <4> QED BY <4>1 DEF Requests, SeparationOfDuties
    <3> QED BY <3>1, <3>2
  <2> QED BY <2>5 DEF Requests, SeparationOfDuties
<1> QED
  BY <1>1, <1>2 DEF authorize

\* One more approver keeps a request independent, and closes it in time.
LEMMA OneMoreApprover ==
    ASSUME Requests, SeparationOfDuties,
           NEW request \in DOMAIN approvals, NEW approver, NEW at \in Times,
           approve(request, approver, at)
    PROVE  Requests' /\ SeparationOfDuties'
<1> DEFINE approvers == approvals[request].approvers \cup {approver}
           closes    == Cardinality(approvers) >= Threshold(request.action)
           approval  == Approval(request, approvers, IF closes THEN at ELSE None)
<1>1. /\ request.requested_by # approver
      /\ approvals' = [approvals EXCEPT ![request] = approval]
  BY DEF approve
<1>2. IsFiniteSet(approvers)
  BY FS_AddElement DEF Requests
<1>3. request.requested_by \notin approvers
  BY <1>1 DEF SeparationOfDuties
<1>4. at # None
  BY NoneAssumption
<1> HIDE DEF approvers
<1>5. /\ approval.approvers = approvers
      /\ approval.completed_at # None <=> closes
  BY <1>4 DEF Approval
<1> HIDE DEF approval
<1>6. ASSUME NEW r \in DOMAIN approvals'
      PROVE  /\ r.action \in Actions /\ IsFiniteSet(approvals'[r].approvers)
             /\ r.requested_by \notin approvals'[r].approvers
             /\ Threshold(r.action) > 0
             /\ approvals'[r].completed_at # None
                   <=> Cardinality(approvals'[r].approvers) >= Threshold(r.action)
  <2>1. r \in DOMAIN approvals
    BY <1>1
  <2>2. CASE r = request
    <3>1. approvals'[r] = approval
      BY <1>1, <2>1, <2>2
    <3> QED BY <3>1, <1>2, <1>3, <1>5, <2>1, <2>2 DEF Requests, SeparationOfDuties
  <2>3. CASE r # request
    <3>1. approvals'[r] = approvals[r]
      BY <1>1, <2>1, <2>3
    <3> QED BY <3>1, <2>1 DEF Requests, SeparationOfDuties
  <2> QED BY <2>2, <2>3
<1> QED
  BY <1>6 DEF Requests, SeparationOfDuties

LEMMA InitInv == Init => Inv
<1> SUFFICES ASSUME Init PROVE Inv
  OBVIOUS
<1>1. DOMAIN approvals = {}
  BY DEF Init
<1>2. audit_events \in Seq({}) /\ Len(audit_events) = 0
  BY DEF Init
<1>3. Requests /\ SeparationOfDuties
  BY <1>1 DEF Requests, SeparationOfDuties
<1>4. LogInv
  BY <1>2 DEF LogInv, IsSequence, verify_audit_chain
<1> QED BY <1>3, <1>4 DEF Inv

LEMMA NextInv == Inv /\ [Next]_vars => Inv'
<1> SUFFICES ASSUME Inv, [Next]_vars PROVE Inv'
  OBVIOUS
<1> USE DEF Inv
<1>0. LogInv => \A actor, type, subject, at :
          audit_events' = Appended(audit_events, actor, type, subject, at) => LogInv'
  BY AppendedVerifies DEF LogInv
<1>1. ASSUME UNCHANGED <<approvals, audit_events>> PROVE Inv'
  BY <1>1 DEF Requests, SeparationOfDuties, LogInv, verify_audit_chain
<1>2. CASE \E s \in Subjects, r \in Roles, active \in BOOLEAN : add_member(s, r, active)
  BY <1>1, <1>2 DEF add_member
<1>3. CASE \E p \in Projects : add_project(p)
  BY <1>1, <1>3 DEF add_project
<1>4. CASE \E s \in Subjects, p \in Projects, a \in Actions, d \in Resources, t \in Times :
               authorize(s, p, a, d, t)
  <2>1. PICK s \in Subjects, p \in Projects, a \in Actions, d \in Resources, t \in Times :
            authorize(s, p, a, d, t)
    BY <1>4
  <2>2. Requests' /\ SeparationOfDuties'
    BY <2>1, FreshRequest
  <2>3. LogInv'
    BY <2>1, <1>0 DEF authorize
  <2> QED BY <2>2, <2>3
<1>5. CASE \E request \in DOMAIN approvals, s \in Subjects, t \in Times : approve(request, s, t)
  <2>1. PICK request \in DOMAIN approvals, s \in Subjects, t \in Times : approve(request, s, t)
    BY <1>5
  <2>2. Requests' /\ SeparationOfDuties'
    BY <2>1, OneMoreApprover
  <2>3. LogInv'
    BY <2>1, <1>0 DEF approve
  <2> QED BY <2>2, <2>3
<1>6. CASE \E s \in Subjects, t \in Times : export_audit(s, t)
  <2>1. PICK s \in Subjects, t \in Times : export_audit(s, t)
    BY <1>6
  <2>2. Requests' /\ SeparationOfDuties'
    BY <2>1 DEF export_audit, Requests, SeparationOfDuties
  <2>3. LogInv'
    BY <2>1, <1>0 DEF export_audit
  <2> QED BY <2>2, <2>3
<1>7. CASE UNCHANGED vars
  BY <1>1, <1>7 DEF vars
<1> QED BY <1>2, <1>3, <1>4, <1>5, <1>6, <1>7 DEF Next

\* The invariant holds in every reachable state, for any policy.
THEOREM GovernanceInvariant == Spec => []Inv
<1> QED BY InitInv, NextInv, PTL DEF Spec

\* No request is ever approved by its requester, and it closes exactly at its
\* threshold of distinct approvers (authorize, approve, add_member).
THEOREM SeparationOfDutiesTheorem == Spec => []SeparationOfDuties
<1>1. Inv => SeparationOfDuties
  BY DEF Inv
<1> QED BY <1>1, GovernanceInvariant, PTL

\* The audit log always verifies, so export_audit never fails on its chain.
THEOREM AuditChainTheorem == Spec => []AuditChainVerifies
<1>1. Inv => AuditChainVerifies
  BY DEF Inv, LogInv, AuditChainVerifies
<1> QED BY <1>1, GovernanceInvariant, PTL

-----------------------------------------------------------------------------
(* The log vouches for the approvals                                       *)

ApprovalTypes == {"approval_requested", "approval_recorded", "approval_completed"}

\* What one more event does to the positions of the log: the old ones keep
\* their events, the new one is last.
LEMMA AppendedPositions ==
    ASSUME LogInv, NEW actor, NEW type, NEW subject, NEW at,
           audit_events' = Appended(audit_events, actor, type, subject, at)
    PROVE  /\ Len(audit_events) \in Nat
           /\ Len(audit_events') = Len(audit_events) + 1
           /\ DOMAIN audit_events = 1..Len(audit_events)
           /\ DOMAIN audit_events' = 1..(Len(audit_events) + 1)
           /\ \A i \in DOMAIN audit_events : audit_events'[i] = audit_events[i]
           /\ audit_events'[Len(audit_events) + 1].event.event_type = type
           /\ audit_events'[Len(audit_events) + 1].event.actor_id = actor
           /\ audit_events'[Len(audit_events) + 1].event.subject_digest = subject
<1> DEFINE previous == IF audit_events = << >> THEN None
                       ELSE audit_events[Len(audit_events)].event_digest
<1>1. /\ IsSequence(audit_events')
      /\ Len(audit_events') = Len(audit_events) + 1
      /\ Len(audit_events) \in Nat
      /\ \A i \in 1..Len(audit_events) : audit_events'[i] = audit_events[i]
      /\ audit_events'[Len(audit_events) + 1] =
             AuditEvent(Len(audit_events) + 1, actor, type, subject, at, previous)
  BY AppendedLog DEF LogInv
<1> HIDE DEF previous
<1>2. DOMAIN audit_events = 1..Len(audit_events)
  BY DEF LogInv, IsSequence
<1>3. DOMAIN audit_events' = 1..Len(audit_events')
  BY <1>1 DEF IsSequence
<1>4. LET e == AuditEvent(Len(audit_events) + 1, actor, type, subject, at, previous)
      IN  e.event.event_type = type /\ e.event.actor_id = actor /\ e.event.subject_digest = subject
  BY DEF AuditEvent
<1> QED BY <1>1, <1>2, <1>3, <1>4

\* An event that records a state of one request is the last one about it, and
\* is about no other request.
LEMMA AttestedRequest ==
    ASSUME LogInv, AuditAttestsApprovals, NEW request, NEW approval, NEW actor, NEW at,
           NEW type \in ApprovalTypes,
           approval.approval_digest.sha256.request = request,
           type = "approval_completed" <=> approval.completed_at # None,
           request \in DOMAIN approvals', approvals'[request] = approval,
           \A r \in DOMAIN approvals' :
               r # request => r \in DOMAIN approvals /\ approvals'[r] = approvals[r],
           audit_events' = Appended(audit_events, actor, type, approval.approval_digest, at)
    PROVE  AuditAttestsApprovals'
<1> DEFINE last == Len(audit_events) + 1
<1>1. /\ Len(audit_events) \in Nat
      /\ DOMAIN audit_events = 1..Len(audit_events)
      /\ DOMAIN audit_events' = 1..last
      /\ \A i \in DOMAIN audit_events : audit_events'[i] = audit_events[i]
      /\ audit_events'[last].event.event_type = type
      /\ audit_events'[last].event.subject_digest = approval.approval_digest
  BY AppendedPositions
<1> HIDE DEF last
<1>2. last \in DOMAIN audit_events' /\ \A i \in DOMAIN audit_events' : i <= last
  BY <1>1 DEF last
<1>3. \A i \in DOMAIN audit_events' : i = last \/ i \in DOMAIN audit_events
  BY <1>1 DEF last
<1>4. \A i \in DOMAIN audit_events : i \in DOMAIN audit_events'
  BY <1>1 DEF last
<1>5. SUFFICES ASSUME NEW r \in DOMAIN approvals'
               PROVE  \E i \in EventsAbout(r)' :
                         /\ \A j \in EventsAbout(r)' : j <= i
                         /\ audit_events'[i].event.subject_digest = approvals'[r].approval_digest
                         /\ (audit_events'[i].event.event_type = "approval_completed")
                                <=> (approvals'[r].completed_at # None)
  BY DEF AuditAttestsApprovals
<1>6. CASE r = request
  <2>1. last \in EventsAbout(r)'
    BY <1>1, <1>2, <1>6 DEF EventsAbout, ApprovalTypes
  <2>2. \A j \in EventsAbout(r)' : j <= last
    BY <1>2 DEF EventsAbout
  <2> QED BY <2>1, <2>2, <1>1, <1>6
<1>7. CASE r # request
  <2>1. r \in DOMAIN approvals /\ approvals'[r] = approvals[r]
    BY <1>7
  <2>2. PICK i \in EventsAbout(r) :
            /\ \A j \in EventsAbout(r) : j <= i
            /\ audit_events[i].event.subject_digest = approvals[r].approval_digest
            /\ (audit_events[i].event.event_type = "approval_completed")
                   <=> (approvals[r].completed_at # None)
    BY <2>1 DEF AuditAttestsApprovals
  <2>3. i \in DOMAIN audit_events /\ audit_events'[i] = audit_events[i]
    BY <1>1, <2>2 DEF EventsAbout
  <2>4. EventsAbout(r)' = EventsAbout(r)
    <3>1. last \notin EventsAbout(r)'
      BY <1>1, <1>7 DEF EventsAbout
    <3>2. ASSUME NEW k \in DOMAIN audit_events
          PROVE  k \in EventsAbout(r)' <=> k \in EventsAbout(r)
      BY <1>1, <1>4 DEF EventsAbout
    <3>3. \A k \in EventsAbout(r)' : k \in DOMAIN audit_events
      BY <1>3, <3>1 DEF EventsAbout
    <3>4. \A k \in EventsAbout(r) : k \in DOMAIN audit_events
      BY DEF EventsAbout
    <3> QED BY <3>2, <3>3, <3>4
  <2> QED BY <2>1, <2>2, <2>3, <2>4
<1> QED BY <1>6, <1>7

\* An event of another type is about no request.
LEMMA AttestedOtherwise ==
    ASSUME LogInv, AuditAttestsApprovals, NEW actor, NEW at, NEW subject, NEW type,
           type \notin ApprovalTypes, UNCHANGED approvals,
           audit_events' = Appended(audit_events, actor, type, subject, at)
    PROVE  AuditAttestsApprovals'
<1> DEFINE last == Len(audit_events) + 1
<1>1. /\ Len(audit_events) \in Nat
      /\ DOMAIN audit_events = 1..Len(audit_events)
      /\ DOMAIN audit_events' = 1..last
      /\ \A i \in DOMAIN audit_events : audit_events'[i] = audit_events[i]
      /\ audit_events'[last].event.event_type = type
  BY AppendedPositions
<1>2. ASSUME NEW r \in DOMAIN approvals PROVE EventsAbout(r)' = EventsAbout(r)
  <2>1. last \notin EventsAbout(r)'
    BY <1>1 DEF EventsAbout, ApprovalTypes
  <2>2. \A k \in DOMAIN audit_events' : k = last \/ k \in DOMAIN audit_events
    BY <1>1
  <2>3. \A k \in DOMAIN audit_events : k \in DOMAIN audit_events'
    BY <1>1
  <2> HIDE DEF last
  <2>4. ASSUME NEW k \in DOMAIN audit_events
        PROVE  k \in EventsAbout(r)' <=> k \in EventsAbout(r)
    BY <1>1, <2>3 DEF EventsAbout
  <2>5. \A k \in EventsAbout(r)' : k \in DOMAIN audit_events
    BY <2>1, <2>2 DEF EventsAbout
  <2>6. \A k \in EventsAbout(r) : k \in DOMAIN audit_events
    BY DEF EventsAbout
  <2> QED BY <2>4, <2>5, <2>6
<1>3. \A r \in DOMAIN approvals : \A i \in EventsAbout(r) : audit_events'[i] = audit_events[i]
  BY <1>1 DEF EventsAbout
<1> QED BY <1>2, <1>3 DEF AuditAttestsApprovals

\* The digest of an approval names its request.
LEMMA DigestNamesRequest ==
    ASSUME NEW request, NEW approvers, NEW completed_at
    PROVE  LET approval == Approval(request, approvers, completed_at)
           IN  /\ approval.approval_digest.sha256.request = request
               /\ approval.completed_at = completed_at
               /\ approval.approvers = approvers
  BY DEF Approval, semantic_digest

LEMMA InitAttested == Init => AuditAttestsApprovals
  BY DEF Init, AuditAttestsApprovals

LEMMA NextAttested ==
    Inv /\ AuditAttestsApprovals /\ [Next]_vars => AuditAttestsApprovals'
<1> SUFFICES ASSUME Inv, AuditAttestsApprovals, [Next]_vars PROVE AuditAttestsApprovals'
  OBVIOUS
<1>0. LogInv
  BY DEF Inv
<1>1. ASSUME UNCHANGED <<approvals, audit_events>> PROVE AuditAttestsApprovals'
  BY <1>1 DEF AuditAttestsApprovals, EventsAbout
<1>2. CASE \E s \in Subjects, r \in Roles, active \in BOOLEAN : add_member(s, r, active)
  BY <1>1, <1>2 DEF add_member
<1>3. CASE \E p \in Projects : add_project(p)
  BY <1>1, <1>3 DEF add_project
<1>4. ASSUME NEW s \in Subjects, NEW p \in Projects, NEW a \in Actions, NEW d \in Resources,
             NEW t \in Times, authorize(s, p, a, d, t)
      PROVE  AuditAttestsApprovals'
  <2> DEFINE request == RequestOf(p, a, d, s, t)
             approval == Approval(request, {}, None)
  <2>1. CASE /\ audit_events' = Appended(audit_events, s, "authorized", d, t)
             /\ UNCHANGED approvals
    BY <1>0, <2>1, AttestedOtherwise DEF ApprovalTypes
  <2>2. CASE /\ approvals' = [r \in DOMAIN approvals \cup {request} |->
                                 IF r = request THEN approval ELSE approvals[r]]
             /\ audit_events' = Appended(audit_events, s, "approval_requested",
                                         approval.approval_digest, t)
    <3>1. approval.approval_digest.sha256.request = request /\ approval.completed_at = None
      BY DigestNamesRequest
    <3> HIDE DEF approval, request
    <3>2. request \in DOMAIN approvals' /\ approvals'[request] = approval
      BY <2>2
    <3>3. \A r \in DOMAIN approvals' :
              r # request => r \in DOMAIN approvals /\ approvals'[r] = approvals[r]
      BY <2>2
    <3>4. "approval_requested" \in ApprovalTypes /\ "approval_requested" # "approval_completed"
      BY DEF ApprovalTypes
    <3> QED BY <1>0, <2>2, <3>1, <3>2, <3>3, <3>4, AttestedRequest
  <2> QED BY <1>4, <2>1, <2>2 DEF authorize
<1>5. ASSUME NEW request \in DOMAIN approvals, NEW s \in Subjects, NEW t \in Times,
             approve(request, s, t)
      PROVE  AuditAttestsApprovals'
  <2> DEFINE approvers == approvals[request].approvers \cup {s}
             closes == Cardinality(approvers) >= Threshold(request.action)
             approval == Approval(request, approvers, IF closes THEN t ELSE None)
             type == IF closes THEN "approval_completed" ELSE "approval_recorded"
  <2>1. /\ approvals' = [approvals EXCEPT ![request] = approval]
        /\ audit_events' = Appended(audit_events, s, type, approval.approval_digest, t)
    BY <1>5 DEF approve
  <2>2. /\ approval.approval_digest.sha256.request = request
        /\ approval.completed_at = IF closes THEN t ELSE None
    BY DigestNamesRequest
  <2>3. t # None
    BY NoneAssumption
  <2>4. type \in ApprovalTypes
    BY DEF ApprovalTypes
  <2>5. type = "approval_completed" <=> approval.completed_at # None
    BY <2>2, <2>3
  <2> HIDE DEF approval, type
  <2>6. request \in DOMAIN approvals' /\ approvals'[request] = approval
    BY <2>1
  <2>7. \A r \in DOMAIN approvals' :
            r # request => r \in DOMAIN approvals /\ approvals'[r] = approvals[r]
    BY <2>1
  <2> QED BY <1>0, <2>1, <2>2, <2>4, <2>5, <2>6, <2>7, AttestedRequest
<1>6. ASSUME NEW s \in Subjects, NEW t \in Times, export_audit(s, t)
      PROVE  AuditAttestsApprovals'
  BY <1>0, <1>6, AttestedOtherwise DEF export_audit, ApprovalTypes
<1>7. CASE UNCHANGED vars
  BY <1>1, <1>7 DEF vars
<1> QED BY <1>2, <1>3, <1>4, <1>5, <1>6, <1>7 DEF Next

\* The last event about a request carries the digest of the request as it
\* stands, whatever order requests, approvals, membership changes and exports
\* came in (authorize, approve, append_event).
THEOREM AuditAttestsTheorem == Spec => []AuditAttestsApprovals
<1> QED BY InitAttested, NextAttested, GovernanceInvariant, PTL DEF Spec

-----------------------------------------------------------------------------
(* Approvals accumulate                                                    *)

\* Only authorize, called again with the arguments of a request, takes an
\* approver away from it, and the log says so (authorize, approve).
THEOREM OnlyTheSameRequestReopensTheorem == Spec => OnlyTheSameRequestReopens
<1> DEFINE Reopens(r) ==
        ~ (approvals[r].approvers \subseteq approvals'[r].approvers) =>
            /\ approvals'[r] = Approval(r, {}, None)
            /\ audit_events'[Len(audit_events')].event.event_type = "approval_requested"
            /\ audit_events'[Len(audit_events')].event.actor_id = r.requested_by
<1>1. Inv /\ [Next]_vars => [\A r \in DOMAIN approvals : Reopens(r)]_vars
  <2> SUFFICES ASSUME Inv, Next, NEW r \in DOMAIN approvals PROVE Reopens(r)
    OBVIOUS
  <2>0. LogInv
    BY DEF Inv
  <2>1. ASSUME UNCHANGED approvals PROVE Reopens(r)
    BY <2>1
  <2>2. ASSUME NEW s \in Subjects, NEW p \in Projects, NEW a \in Actions, NEW d \in Resources,
               NEW t \in Times, authorize(s, p, a, d, t)
        PROVE  Reopens(r)
    <3> DEFINE request == RequestOf(p, a, d, s, t)
               approval == Approval(request, {}, None)
    <3>1. CASE UNCHANGED approvals
      BY <2>1, <3>1
    <3>2. CASE /\ approvals' = [q \in DOMAIN approvals \cup {request} |->
                                   IF q = request THEN approval ELSE approvals[q]]
               /\ audit_events' = Appended(audit_events, s, "approval_requested",
                                           approval.approval_digest, t)
      <4>1. request.requested_by = s
        BY DEF RequestOf
      <4>2. /\ audit_events'[Len(audit_events')].event.event_type = "approval_requested"
            /\ audit_events'[Len(audit_events')].event.actor_id = s
        BY <2>0, <3>2, AppendedPositions
      <4>3. approvals'[r] = IF r = request THEN Approval(r, {}, None) ELSE approvals[r]
        BY <3>2
      <4> HIDE DEF request, approval
      <4> QED BY <4>1, <4>2, <4>3
    <3> QED BY <2>2, <3>1, <3>2 DEF authorize
  <2>3. ASSUME NEW request \in DOMAIN approvals, NEW s \in Subjects, NEW t \in Times,
               approve(request, s, t)
        PROVE  Reopens(r)
    <3> DEFINE approvers == approvals[request].approvers \cup {s}
               closes == Cardinality(approvers) >= Threshold(request.action)
               approval == Approval(request, approvers, IF closes THEN t ELSE None)
    <3>1. approvals' = [approvals EXCEPT ![request] = approval]
      BY <2>3 DEF approve
    <3>2. approval.approvers = approvers
      BY DigestNamesRequest
    <3>3. approvals[request].approvers \subseteq approval.approvers
      BY <3>2
    <3> HIDE DEF approval
    <3>4. approvals'[r] = IF r = request THEN approval ELSE approvals[r]
      BY <3>1
    <3> QED BY <3>3, <3>4
  <2>4. ASSUME NEW s \in Subjects, NEW t \in Times, export_audit(s, t) PROVE Reopens(r)
    BY <2>1, <2>4 DEF export_audit
  <2>5. CASE \E s \in Subjects, q \in Roles, active \in BOOLEAN : add_member(s, q, active)
    BY <2>1, <2>5 DEF add_member
  <2>6. CASE \E p \in Projects : add_project(p)
    BY <2>1, <2>6 DEF add_project
  <2> QED BY <2>2, <2>3, <2>4, <2>5, <2>6 DEF Next
<1> QED BY <1>1, GovernanceInvariant, PTL DEF Spec, OnlyTheSameRequestReopens
=============================================================================
