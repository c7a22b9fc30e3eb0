---------------------------- MODULE LiveOperations ----------------------------
(***************************************************************************)
(* A live feed in operation: pages are ingested, alerts evaluated over     *)
(* them and acknowledged, and dashboard views composed, each by a request  *)
(* to the workbench (apps/workbench/src/main.rs), which keeps none of it.  *)
(* Callers keep the sealed documents and send them back, so they may send  *)
(* an old one, a second time, or one that was edited in between.           *)
(***************************************************************************)
EXTENDS Integers, Sequences, FiniteSets, SequencesExt

CONSTANTS
    Policies,        \* freshness policies of the callers
    Rules,           \* alert policies
    Values,          \* values of the metric
    Limit,           \* page limit the caller asks for
    AckIds,          \* acknowledgement identities
    MaxTime,         \* bound on the clock
    MaxObservations, \* bound on what the provider publishes
    MaxPages,        \* bound on the pages committed
    MaxSealed,       \* bound on the alert records and views sealed
    Null             \* no previous view

ASSUME PoliciesAssumption == \A policy \in Policies : policy.allowed_lateness \in Nat

-----------------------------------------------------------------------------
(***************************************************************************)
(* The live-feed adapter: one page of a provider is checked against the    *)
(* request and the caller's policy and sealed into immutable snapshots     *)
(* (crates/genegis-adapter/src/live_feed.rs).                              *)
(*                                                                         *)
(* Times are numbers.  An observation is [sequence, observed_at, sound]:   *)
(* sound stands for a named observation with a revision, a geometry with   *)
(* coordinates and an object of values.  A page is [media, next_cursor,    *)
(* watermark, observations].                                               *)
(***************************************************************************)

JsonMedia == {"application/json", "application/geo+json"}

\* seal: the request against the policy, before the adapter is admitted.
RequestOK(request, policy) ==
    /\ request.limit # 0
    /\ request.limit <= policy.max_page_size
    /\ request.limit <= policy.max_retained_observations
    /\ request.watermark <= request.evaluated_at

\* seal: the page as a whole.
PageOK(request, page) ==
    /\ page.media \in JsonMedia
    /\ page.next_cursor >= request.after_cursor
    /\ page.watermark >= request.watermark
    /\ page.watermark <= request.evaluated_at
    /\ Len(page.observations) <= request.limit

Lateness(page, observation) == Max({0, page.watermark - observation.observed_at})

\* Faulty variant: sequences may repeat what an earlier page delivered.
SequenceOK_any(request, page, i) == page.observations[i].sequence <= page.next_cursor

\* seal: the sequence of observation i goes on from the one before it.
SequenceOK(request, page, i) ==
    LET previous == IF i = 1 THEN request.after_cursor ELSE page.observations[i - 1].sequence
    IN  /\ page.observations[i].sequence > previous
        /\ page.observations[i].sequence <= page.next_cursor

\* Faulty variant: lateness is counted and not limited.
ObservationOK_late(request, page, policy, i) ==
    LET observation == page.observations[i]
    IN  observation.sound /\ SequenceOK(request, page, i)
            /\ observation.observed_at <= request.evaluated_at

\* seal: one turn of the loop over the observations.
ObservationOK(request, page, policy, i) ==
    LET observation == page.observations[i]
    IN  /\ observation.sound
        /\ SequenceOK(request, page, i)
        /\ observation.observed_at <= request.evaluated_at
        /\ Lateness(page, observation) <= policy.allowed_lateness

\* seal: the age of the newest observation; an empty page is not fresh.
Fresh(request, page, policy) ==
    /\ page.observations # <<>>
    /\ \E i \in DOMAIN page.observations :
           request.evaluated_at - page.observations[i].observed_at <= policy.max_age

\* LiveFeedAdapter::execute with an admitted manifest: every reason to refuse.
Sealable(request, page, policy) ==
    /\ RequestOK(request, policy)
    /\ PageOK(request, page)
    /\ \A i \in DOMAIN page.observations : ObservationOK(request, page, policy, i)
    /\ page.observations # <<>> => Last(page.observations).sequence = page.next_cursor
    /\ policy.reject_stale => Fresh(request, page, policy)

\* The receipt of a sealed page, with the snapshots.
Receipt(request, page, policy) ==
    [requested_cursor |-> request.after_cursor, next_cursor |-> page.next_cursor,
     requested_watermark |-> request.watermark, next_watermark |-> page.watermark,
     evaluated_at |-> request.evaluated_at, policy |-> policy,
     fresh |-> Fresh(request, page, policy),
     late_observations |-> Cardinality({i \in DOMAIN page.observations :
                                            Lateness(page, page.observations[i]) > 0}),
     snapshots |-> page.observations]

-----------------------------------------------------------------------------
(***************************************************************************)
(* Verified alerts: a deterministic rule over a metric of one triggering   *)
(* window, sealed with its policy, and human acknowledgements appended to  *)
(* the sealed record (crates/genegis-analysis/src/verified_alert.rs).      *)
(*                                                                         *)
(* Every operation runs as the workflow of a new command bus whose result  *)
(* digest is compared with the record's: it succeeds when the executor     *)
(* does.                                                                   *)
(***************************************************************************)

\* SHA-256 over canonical JSON: two different values have different digests.
digest(value) == [sha256 |-> value]

\* validate_window, for a window with well-formed digests and times.
validate_window(window) ==
    /\ window.cursor_end >= window.cursor_start
    /\ window.snapshots # <<>>
    /\ window.source_verified
    /\ window.watermark_end >= window.watermark_start

\* validate_input, for a named policy with finite numbers.
validate_input(policy, metric, window) ==
    /\ validate_window(window)
    /\ policy.require_fresh => window.fresh
    /\ policy.rule.kind = "z_score" =>
           policy.rule.standard_deviation > 0 /\ policy.rule.threshold > 0
    /\ policy.rule.field = metric.field

Abs(n) == IF n < 0 THEN -n ELSE n

\* The rule of evaluate; z-scores are compared without dividing.
Triggered(rule, value) ==
    CASE rule.kind = "greater_than"          -> value > rule.threshold
      [] rule.kind = "greater_than_or_equal" -> value >= rule.threshold
      [] rule.kind = "less_than"             -> value < rule.threshold
      [] rule.kind = "less_than_or_equal"    -> value <= rule.threshold
      [] rule.kind = "z_score" ->
             Abs(value - rule.mean) >= rule.threshold * rule.standard_deviation

\* A record: trigger_digest covers the trigger, record_digest the identity and
\* the acknowledgements.
Sealed(trigger, acknowledgements) ==
    [trigger |-> trigger, acknowledgements |-> acknowledgements,
     alert_id |-> digest(trigger),
     record_digest |-> digest([alert_id |-> digest(trigger),
                               acknowledgements |-> acknowledgements])]

\* The loop of verify_alert_record: named once, and never earlier than before.
ChainOK(alert) ==
    LET acks == alert.acknowledgements
    IN  \A i \in DOMAIN acks :
            /\ \A j \in 1 .. i - 1 : acks[j].id # acks[i].id
            /\ acks[i].at >= IF i = 1 THEN alert.trigger.triggered_at ELSE acks[i - 1].at

\* verify_alert_record, for this schema and verifier.
verify_alert_record(alert) ==
    /\ validate_window(alert.trigger.window)
    /\ alert.alert_id = digest(alert.trigger)
    /\ alert.record_digest = digest([alert_id |-> alert.alert_id,
                                     acknowledgements |-> alert.acknowledgements])
    /\ ChainOK(alert)

\* evaluate: the record of a rule that triggers.
Evaluated(policy, metric, window, at) ==
    Sealed([policy |-> policy, window |-> window, metric |-> metric, triggered_at |-> at], <<>>)

\* append_acknowledgement on a verified record; the result is verified again.
Acknowledged(alert, acknowledgement) ==
    LET acks == Append(alert.acknowledgements, acknowledgement)
    IN  [alert EXCEPT !.acknowledgements = acks,
                      !.record_digest = digest([alert_id |-> alert.alert_id,
                                                acknowledgements |-> acks])]

\* Faulty variant: the record that was sent in is taken as it is.
CanAcknowledge_unverified(alert, acknowledgement) == ChainOK(Acknowledged(alert, acknowledgement))

CanAcknowledge(alert, acknowledgement) ==
    /\ verify_alert_record(alert)
    /\ verify_alert_record(Acknowledged(alert, acknowledgement))

-----------------------------------------------------------------------------
(***************************************************************************)
(* Operational dashboards: map layers, widgets, feed status and alert      *)
(* history sealed into one version of a view that names the version before *)
(* it (crates/genegis-analysis/src/operational_dashboard.rs).              *)
(*                                                                         *)
(* A draft is [result, layers, status, history, sound]: layers is the set  *)
(* of results the map layers show, status the feed's [cursor, watermark],  *)
(* history the alert entries, and sound stands for unique names, opacities *)
(* in range, well-formed digests, known states and a verified feed source. *)
(***************************************************************************)

view_digest(view) == [sha256 |-> view]

View(draft, version, previous_view_digest) ==
    LET view == [version |-> version, previous_view_digest |-> previous_view_digest,
                 result |-> draft.result, layers |-> draft.layers, status |-> draft.status,
                 history |-> draft.history, sound |-> draft.sound]
    IN  [view |-> view, view_digest |-> view_digest(view)]

\* validate_components: there are layers, and they all show the result.
validate_components(draft) == draft.layers = {draft.result} /\ draft.sound

verify_operational_dashboard(sealed) ==
    /\ sealed.view.version > 0
    /\ (sealed.view.version = 1) <=> (sealed.view.previous_view_digest = Null)
    /\ validate_components(sealed.view)
    /\ sealed.view_digest = view_digest(sealed.view)

\* Faulty variant: the history of the previous view may be dropped.
ExtendsView_anyHistory(draft, previous) ==
    /\ draft.status.cursor >= previous.status.cursor
    /\ draft.status.watermark >= previous.status.watermark

\* validate_draft, the second half: nothing regresses, and only alerts of this
\* result are added.
ExtendsView(draft, previous) ==
    /\ draft.status.cursor >= previous.status.cursor
    /\ draft.status.watermark >= previous.status.watermark
    /\ IsPrefix(previous.history, draft.history)
    /\ \A i \in Len(previous.history) + 1 .. Len(draft.history) :
           draft.history[i].result = draft.result

validate_draft(draft, previous) ==
    /\ validate_components(draft)
    /\ previous # Null =>
           /\ verify_operational_dashboard(previous)
           /\ ExtendsView(draft, previous.view)

\* seal_operational_dashboard on a draft that validates.
seal_operational_dashboard(draft, previous) ==
    IF previous = Null THEN View(draft, 1, Null)
    ELSE View(draft, previous.view.version + 1, previous.view_digest)

-----------------------------------------------------------------------------
(* The clock, the provider of the feed and the callers, who keep what was   *)
(* sealed.                                                                  *)

VARIABLES
    now,        \* the clock
    published,  \* published[i]: event time of the provider's observation i
    feed,       \* [cursor, watermark]: what the caller last committed
    committed,  \* receipts of the pages committed, in order
    alerts,     \* every alert record returned so far
    views       \* every view returned so far

vars == <<now, published, feed, committed, alerts, views>>

Init ==
    /\ now = 0 /\ published = <<>> /\ feed = [cursor |-> 0, watermark |-> 0]
    /\ committed = <<>> /\ alerts = {} /\ views = {}

Tick ==
    /\ now < MaxTime
    /\ now' = now + 1
    /\ UNCHANGED <<published, feed, committed, alerts, views>>

\* The provider learns of an event, perhaps long after it happened.
Publish(observed_at) ==
    /\ Len(published) < MaxObservations
    /\ published' = Append(published, observed_at)
    /\ UNCHANGED <<now, feed, committed, alerts, views>>

\* What the provider answered to a request after cursor, now or at an earlier
\* call: a proxy or a retry may deliver an old answer.
Page(cursor, count, watermark) ==
    [media |-> "application/json", next_cursor |-> cursor + count, watermark |-> watermark,
     observations |-> [i \in 1 .. count |-> [sequence |-> cursor + i, sound |-> TRUE,
                                             observed_at |-> published[cursor + i]]]]

\* POST /api/live/ingest; the caller commits the cursor the receipt names.
Ingest(page, policy) ==
    LET request == [after_cursor |-> feed.cursor, watermark |-> feed.watermark,
                    limit |-> Limit, evaluated_at |-> now]
    IN  /\ Len(committed) < MaxPages
        /\ Sealable(request, page, policy)
        /\ committed' = Append(committed, Receipt(request, page, policy))
        /\ feed' = [cursor |-> page.next_cursor, watermark |-> page.watermark]
        /\ UNCHANGED <<now, published, alerts, views>>

Room == Cardinality(alerts) + Cardinality(views) < MaxSealed

\* The window of the result computed from committed page k.
Window(k) ==
    [cursor_start |-> committed[k].requested_cursor, cursor_end |-> committed[k].next_cursor,
     watermark_start |-> committed[k].requested_watermark,
     watermark_end |-> committed[k].next_watermark, fresh |-> committed[k].fresh,
     snapshots |-> committed[k].snapshots, source_verified |-> TRUE, result |-> k]

\* POST /api/alerts/evaluate
Evaluate(k, policy, value) ==
    LET metric == [field |-> "value", value |-> value]
    IN  /\ Room
        /\ validate_input(policy, metric, Window(k))
        /\ Triggered(policy.rule, value)
        /\ alerts' = alerts \cup {Evaluated(policy, metric, Window(k), now)}
        /\ UNCHANGED <<now, published, feed, committed, views>>

\* A record as a caller may send it: as received, or edited after it was sealed.
Submitted ==
    alerts
        \cup {[alert EXCEPT !.trigger.metric.value = v] : alert \in alerts, v \in Values}
        \cup {[alert EXCEPT !.acknowledgements = <<>>] : alert \in alerts}

\* POST /api/alerts/acknowledge
Acknowledge(alert, acknowledgement) ==
    /\ Room
    /\ CanAcknowledge(alert, acknowledgement)
    /\ alerts' = alerts \cup {Acknowledged(alert, acknowledgement)}
    /\ UNCHANGED <<now, published, feed, committed, views>>

\* The entry of a record in an alert history.
Entry(alert) ==
    [alert |-> alert.alert_id, result |-> alert.trigger.window.result,
     state |-> IF alert.acknowledgements = <<>> THEN "open" ELSE "acknowledged"]

\* Histories a caller may put in a draft: one it has seen, with or without one more.
Histories ==
    LET seen == {<<>>} \cup {v.view.history : v \in views}
    IN  seen \cup {Append(h, Entry(alert)) : h \in seen, alert \in alerts}

\* POST /api/operational/views, over the result of page k and any earlier view,
\* which need not be the latest.
Compose(k, layers, history, previous) ==
    LET draft == [result |-> k, layers |-> layers, history |-> history, sound |-> TRUE,
                  status |-> [cursor |-> committed[k].next_cursor,
                              watermark |-> committed[k].next_watermark]]
    IN  /\ Room
        /\ validate_draft(draft, previous)
        /\ views' = views \cup {seal_operational_dashboard(draft, previous)}
        /\ UNCHANGED <<now, published, feed, committed, alerts>>

\* A previous view as a caller may send it: as received, or without its history.
PreviousViews == {Null} \cup views \cup {[v EXCEPT !.view.history = <<>>] : v \in views}

Next ==
    \/ Tick
    \/ \E t \in 0 .. now : Publish(t)
    \/ \E cursor \in 0 .. feed.cursor, w \in 0 .. now, policy \in Policies :
           \E count \in 0 .. Len(published) - cursor : Ingest(Page(cursor, count, w), policy)
    \/ \E k \in DOMAIN committed, policy \in Rules, v \in Values : Evaluate(k, policy, v)
    \/ \E alert \in Submitted, id \in AckIds, t \in 0 .. now :
           Acknowledge(alert, [id |-> id, at |-> t])
    \/ \E k \in DOMAIN committed, history \in Histories, previous \in PreviousViews :
           \E layers \in {{k}, {k, 1}} : Compose(k, layers, history, previous)

Spec == Init /\ [][Next]_vars

-----------------------------------------------------------------------------
(* Properties                                                              *)

Sequence(k, i) == committed[k].snapshots[i].sequence

\* Position i of page k comes before position j of page l.
Before(k, i, l, j) == k < l \/ (k = l /\ i < j)

(***************************************************************************)
(* The pages a caller commits one after the other hold every observation   *)
(* of the provider once and in order, up to the cursor, whatever old       *)
(* answers were delivered in between.                                      *)
(***************************************************************************)
SealedOnceInOrder ==
    /\ \A n \in 1 .. feed.cursor : \E k \in DOMAIN committed :
           \E i \in DOMAIN committed[k].snapshots : Sequence(k, i) = n
    /\ \A k \in DOMAIN committed : \A i \in DOMAIN committed[k].snapshots :
           Sequence(k, i) \in 1 .. feed.cursor
    /\ \A k, l \in DOMAIN committed :
           \A i \in DOMAIN committed[k].snapshots, j \in DOMAIN committed[l].snapshots :
               Before(k, i, l, j) => Sequence(k, i) < Sequence(l, j)

(***************************************************************************)
(* No sealed observation is further behind any watermark committed with or *)
(* before it than the policy that sealed it allows: watermarks that only   *)
(* advance and the lateness limit of each page together bound how late     *)
(* data can still arrive.                                                  *)
(***************************************************************************)
LatenessBounded ==
    \A k \in DOMAIN committed : \A j \in 1 .. k : \A i \in DOMAIN committed[k].snapshots :
        committed[k].snapshots[i].observed_at
            >= committed[j].next_watermark - committed[k].policy.allowed_lateness

(***************************************************************************)
(* Every record that was returned grew from an evaluation by appending:    *)
(* the record with one acknowledgement less was returned before it, with   *)
(* the same trigger, and acknowledgements never go back in time.           *)
(***************************************************************************)
AcknowledgementsAppendOnly ==
    \A alert \in alerts :
        LET acks == alert.acknowledgements
        IN  /\ alert.trigger.triggered_at <= now
            /\ Triggered(alert.trigger.policy.rule, alert.trigger.metric.value)
            /\ acks # <<>> => Sealed(alert.trigger, Front(acks)) \in alerts
            /\ \A i, j \in DOMAIN acks : i < j => acks[i].at <= acks[j].at

ParentOf(u, v) == v.view.previous_view_digest = u.view_digest

(***************************************************************************)
(* Versions of a view form a tree that only grows: a later version was     *)
(* sealed over an earlier one, repeats its alert history, and every entry  *)
(* it adds was triggered by the result it shows.                           *)
(***************************************************************************)
ViewsLinked ==
    \A v \in views : v.view.version > 1 =>
        \E u \in views :
            /\ ParentOf(u, v) /\ u.view.version + 1 = v.view.version
            /\ u.view.status.cursor <= v.view.status.cursor
            /\ u.view.status.watermark <= v.view.status.watermark
            /\ IsPrefix(u.view.history, v.view.history)
            /\ \A i \in DOMAIN v.view.history :
                   i > Len(u.view.history) => v.view.history[i].result = v.view.result

(* The committed pages are the provider's observations, each once, in      *)
(* order, and none later than the policy that sealed it allows (seal,      *)
(* next_watermark).                                                        *)
SealedHistory ==
    /\ SealedOnceInOrder
    /\ LatenessBounded
=============================================================================
