------------------------------ MODULE Governance ------------------------------
(***************************************************************************)
(* Organization governance: members with roles, digest-bound approval      *)
(* requests and the hash-chained audit log                                 *)
(* (crates/genegis-collab/src/governance.rs).  Every operation runs as one *)
(* transition of a GovernanceState                                         *)
(* (crates/genegis-analysis/src/governance.rs).                            *)
(***************************************************************************)
EXTENDS Integers, Sequences, FiniteSets

CONSTANTS
    Subjects,        \* people
    Roles,           \* role identifiers of the policy
    Capabilities(_), \* Capabilities(r): what role r grants
    Projects,        \* projects of the organization or not
    Actions,         \* governed actions
    Capability(_),   \* Capability(a): the capability action a needs
    Threshold(_),    \* Threshold(a): distinct approvals action a needs, 0 for none
    Resources,       \* resource digests
    Times,           \* timestamps a caller may give, in no particular order
    MaxEvents,       \* bound on the audit log
    None             \* absent

ASSUME ThresholdAssumption == \A a \in Actions : Threshold(a) \in Nat
ASSUME MaxEventsAssumption == MaxEvents \in Nat
ASSUME NoneAssumption == None \notin Times

VARIABLES
    members,       \* members[s]: [role, active], or None
    projects,      \* the projects registered with this organization
    approvals,     \* approvals[id]: the request, for every id requested so far
    audit_events   \* the audit log

vars == <<members, projects, approvals, audit_events>>

\* SHA-256 over canonical JSON: two different values have different digests.
semantic_digest(value) == [sha256 |-> value]

-----------------------------------------------------------------------------
(* Approvals and audit events                                              *)

RequestOf(project, action, resource, actor, at) ==
    [project |-> project, action |-> action, resource |-> resource,
     requested_by |-> actor, requested_at |-> at]

\* The approval of a request; its id is the digest of the request.
Approval(request, approvers, completed_at) ==
    [request |-> request, approvers |-> approvers, completed_at |-> completed_at,
     approval_digest |-> semantic_digest([request |-> request, approvers |-> approvers,
                                          completed_at |-> completed_at])]

AuditEvent(sequence, actor, event_type, subject_digest, at, previous) ==
    LET event == [sequence |-> sequence, actor_id |-> actor, event_type |-> event_type,
                  subject_digest |-> subject_digest, occurred_at |-> at,
                  previous_event_digest |-> previous]
    IN  [event |-> event, event_digest |-> semantic_digest(event)]

\* Faulty variant: the event is chained to the first event of the log.
Appended_first(log, actor, event_type, subject_digest, at) ==
    Append(log, AuditEvent(Len(log) + 1, actor, event_type, subject_digest, at,
                           IF log = << >> THEN None ELSE log[1].event_digest))

\* append_event
Appended(log, actor, event_type, subject_digest, at) ==
    Append(log, AuditEvent(Len(log) + 1, actor, event_type, subject_digest, at,
                           IF log = << >> THEN None ELSE log[Len(log)].event_digest))

verify_audit_chain(log) ==
    \A i \in 1..Len(log) :
        /\ log[i].event.sequence = i
        /\ log[i].event.previous_event_digest =
               (IF i = 1 THEN None ELSE log[i - 1].event_digest)
        /\ log[i].event_digest = semantic_digest(log[i].event)

-----------------------------------------------------------------------------
(* Operations                                                              *)

Init ==
    /\ members = [s \in Subjects |-> None]
    /\ projects = {}
    /\ approvals = << >>
    /\ audit_events = << >>

\* add_member adds a member or replaces it, to change a role or deactivate.
add_member(s, role, active) ==
    /\ members' = [members EXCEPT ![s] = [role |-> role, active |-> active]]
    /\ UNCHANGED <<projects, approvals, audit_events>>

add_project(p) ==
    /\ projects' = projects \cup {p}
    /\ UNCHANGED <<members, approvals, audit_events>>

has_capability(s, capability) ==
    /\ members[s] # None
    /\ members[s].active
    /\ capability \in Capabilities(members[s].role)

Logging == Len(audit_events) < MaxEvents

\* authorize: ungated actions are recorded, gated ones open a request.  The id
\* is a digest of the arguments, so the same call again replaces the request.
authorize(actor, project, action, resource, at) ==
    /\ Logging
    /\ project \in projects
    /\ has_capability(actor, Capability(action))
    /\ UNCHANGED <<members, projects>>
    /\ LET request  == RequestOf(project, action, resource, actor, at)
           approval == Approval(request, {}, None)
       IN  \/ /\ Threshold(action) = 0
              /\ audit_events' = Appended(audit_events, actor, "authorized", resource, at)
              /\ UNCHANGED approvals
           \/ /\ Threshold(action) > 0
              /\ approvals' = [r \in DOMAIN approvals \cup {request} |->
                                  IF r = request THEN approval ELSE approvals[r]]
              /\ audit_events' = Appended(audit_events, actor, "approval_requested",
                                          approval.approval_digest, at)

\* Faulty variants: the requester may approve; the digest is taken before
\* the request is closed.
approve_own(request, approver, at) ==
    /\ Logging
    /\ has_capability(approver, "Approve")
    /\ request \in DOMAIN approvals
    /\ approvals[request].completed_at = None
    /\ approver \notin approvals[request].approvers
    /\ LET approvers == approvals[request].approvers \cup {approver}
           closes    == Cardinality(approvers) >= Threshold(request.action)
           approval  == Approval(request, approvers, IF closes THEN at ELSE None)
       IN  /\ approvals' = [approvals EXCEPT ![request] = approval]
           /\ audit_events' = Appended(audit_events, approver,
                                  IF closes THEN "approval_completed" ELSE "approval_recorded",
                                  approval.approval_digest, at)
    /\ UNCHANGED <<members, projects>>

approve_early_digest(request, approver, at) ==
    /\ Logging
    /\ has_capability(approver, "Approve")
    /\ request \in DOMAIN approvals
    /\ approvals[request].completed_at = None
    /\ request.requested_by # approver
    /\ approver \notin approvals[request].approvers
    /\ LET approvers == approvals[request].approvers \cup {approver}
           closes    == Cardinality(approvers) >= Threshold(request.action)
           approval  == Approval(request, approvers, IF closes THEN at ELSE None)
       IN  /\ approvals' = [approvals EXCEPT ![request] = approval]
           /\ audit_events' = Appended(audit_events, approver,
                                  IF closes THEN "approval_completed" ELSE "approval_recorded",
                                  Approval(request, approvers, None).approval_digest, at)
    /\ UNCHANGED <<members, projects>>

\* Faulty variant: the new approver takes the place of the earlier ones.
approve_replaces(request, approver, at) ==
    /\ Logging
    /\ has_capability(approver, "Approve")
    /\ request \in DOMAIN approvals
    /\ approvals[request].completed_at = None
    /\ request.requested_by # approver
    /\ approver \notin approvals[request].approvers
    /\ LET approval == Approval(request, {approver},
                               IF Threshold(request.action) <= 1 THEN at ELSE None)
       IN  /\ approvals' = [approvals EXCEPT ![request] = approval]
           /\ audit_events' = Appended(audit_events, approver,
                                  IF Threshold(request.action) <= 1
                                  THEN "approval_completed" ELSE "approval_recorded",
                                  approval.approval_digest, at)
    /\ UNCHANGED <<members, projects>>

\* approve: one more distinct, independent approver; the threshold closes it.
approve(request, approver, at) ==
    /\ Logging
    /\ has_capability(approver, "Approve")
    /\ request \in DOMAIN approvals
    /\ approvals[request].completed_at = None
    /\ request.requested_by # approver
    /\ approver \notin approvals[request].approvers
    /\ LET approvers == approvals[request].approvers \cup {approver}
           closes    == Cardinality(approvers) >= Threshold(request.action)
           approval  == Approval(request, approvers, IF closes THEN at ELSE None)
       IN  /\ approvals' = [approvals EXCEPT ![request] = approval]
           /\ audit_events' = Appended(audit_events, approver,
                                  IF closes THEN "approval_completed" ELSE "approval_recorded",
                                  approval.approval_digest, at)
    /\ UNCHANGED <<members, projects>>

\* export_audit records itself before it verifies and hands out the log.
export_audit(actor, at) ==
    /\ Logging
    /\ has_capability(actor, "ExportAudit")
    /\ audit_events' = Appended(audit_events, actor, "audit_exported", semantic_digest("policy"), at)
    /\ UNCHANGED <<members, projects, approvals>>

Next ==
    \/ \E s \in Subjects, r \in Roles, active \in BOOLEAN : add_member(s, r, active)
    \/ \E p \in Projects : add_project(p)
    \/ \E s \in Subjects, p \in Projects, a \in Actions, d \in Resources, t \in Times :
          authorize(s, p, a, d, t)
    \/ \E request \in DOMAIN approvals, s \in Subjects, t \in Times : approve(request, s, t)
    \/ \E s \in Subjects, t \in Times : export_audit(s, t)

Spec == Init /\ [][Next]_vars

-----------------------------------------------------------------------------
(* Properties                                                              *)

(***************************************************************************)
(* Whatever the order of requests, approvals and membership changes, no    *)
(* request counts its requester among its approvers, and a request is      *)
(* closed exactly when as many distinct approvers as its action needs have *)
(* been recorded.                                                          *)
(***************************************************************************)
SeparationOfDuties ==
    \A r \in DOMAIN approvals :
        /\ r.requested_by \notin approvals[r].approvers
        /\ Threshold(r.action) > 0
        /\ approvals[r].completed_at # None
              <=> Cardinality(approvals[r].approvers) >= Threshold(r.action)

(***************************************************************************)
(* The log an export verifies always verifies: export_audit never fails    *)
(* with a digest error after it has already written its own event.         *)
(***************************************************************************)
AuditChainVerifies == verify_audit_chain(audit_events)

\* The positions of the log that are about one of the states of request r.
EventsAbout(r) ==
    {i \in DOMAIN audit_events :
        /\ audit_events[i].event.event_type \in
               {"approval_requested", "approval_recorded", "approval_completed"}
        /\ audit_events[i].event.subject_digest.sha256.request = r}

(***************************************************************************)
(* The audit log vouches for what the state says: the last event about a   *)
(* request carries the digest of the request as it stands, so the export   *)
(* of the log is evidence of every open and every completed approval.      *)
(***************************************************************************)
AuditAttestsApprovals ==
    \A r \in DOMAIN approvals :
        \E i \in EventsAbout(r) :
            /\ \A j \in EventsAbout(r) : j <= i
            /\ audit_events[i].event.subject_digest = approvals[r].approval_digest
            /\ (audit_events[i].event.event_type = "approval_completed")
                   <=> (approvals[r].completed_at # None)

(***************************************************************************)
(* Approvals only accumulate: a step that takes an approver away from a    *)
(* request, or reopens it, is the same authorize call made again, which    *)
(* starts the request over with no approver at all.                        *)
(***************************************************************************)
OnlyTheSameRequestReopens ==
    [][\A r \in DOMAIN approvals :
           ~ (approvals[r].approvers \subseteq approvals'[r].approvers) =>
               /\ approvals'[r] = Approval(r, {}, None)
               /\ audit_events'[Len(audit_events')].event.event_type = "approval_requested"
               /\ audit_events'[Len(audit_events')].event.actor_id = r.requested_by]_vars

=============================================================================
