------------------------- MODULE LiveOperationsProofs -------------------------
(***************************************************************************)
(* The invariants of LiveOperations, for any policies, rules and values,   *)
(* and for feeds, records and views of any number.                         *)
(***************************************************************************)
EXTENDS LiveOperations, TLAPS

IsSequence(s) == \E S : s \in Seq(S)

LEMMA AppendedSequence ==
    ASSUME NEW s, IsSequence(s), NEW e
    PROVE  /\ IsSequence(Append(s, e))
           /\ Len(s) \in Nat
           /\ DOMAIN s = 1 .. Len(s)
           /\ Len(Append(s, e)) = Len(s) + 1
           /\ DOMAIN Append(s, e) = 1 .. (Len(s) + 1)
           /\ \A i \in 1 .. Len(s) : Append(s, e)[i] = s[i]
           /\ Append(s, e)[Len(s) + 1] = e
<1>1. PICK S : s \in Seq(S)
  BY DEF IsSequence
<1>2. s \in Seq(S \cup {e}) /\ e \in S \cup {e}
  BY <1>1
<1>3. Append(s, e) \in Seq(S \cup {e})
  BY <1>2
<1> QED BY <1>2, <1>3 DEF IsSequence

-----------------------------------------------------------------------------
(* The feed                                                                *)

\* A committed page holds the observations between its two cursors, none of
\* them later than its policy allows.
PageInv(page) ==
    /\ page.requested_cursor \in Nat /\ page.next_cursor \in Nat /\ page.next_watermark \in Nat
    /\ page.policy.allowed_lateness \in Nat
    /\ page.requested_cursor <= page.next_cursor
    /\ DOMAIN page.snapshots = 1 .. (page.next_cursor - page.requested_cursor)
    /\ \A i \in DOMAIN page.snapshots :
           /\ page.snapshots[i].sequence = page.requested_cursor + i
           /\ page.snapshots[i].observed_at \in Nat
           /\ page.snapshots[i].observed_at >= page.next_watermark - page.policy.allowed_lateness

\* The pages lie end to end, and their watermarks only advance.
PagesInv ==
    /\ IsSequence(committed)
    /\ \A k \in DOMAIN committed :
           /\ PageInv(committed[k])
           /\ committed[k].next_cursor <= feed.cursor
           /\ committed[k].next_watermark <= feed.watermark
    /\ \A k, l \in DOMAIN committed : k < l =>
           /\ committed[k].next_cursor <= committed[l].requested_cursor
           /\ committed[k].next_watermark <= committed[l].next_watermark
    /\ \A n \in 1 .. feed.cursor : \E k \in DOMAIN committed :
           committed[k].requested_cursor < n /\ n <= committed[k].next_cursor

FeedInv ==
    /\ now \in Nat
    /\ published \in Seq(Nat)
    /\ feed.cursor \in Nat /\ feed.watermark \in Nat
    /\ PagesInv

LEMMA AtLeast ==
    ASSUME NEW x \in Int
    PROVE  Max({0, x}) >= x /\ Max({0, x}) \in Int
<1>1. \E m \in {0, x} : \A y \in {0, x} : m >= y
  <2>1. CASE x >= 0
    BY <2>1
  <2>2. CASE 0 >= x
    BY <2>2
  <2> QED BY <2>1, <2>2
<1>2. Max({0, x}) \in {0, x} /\ \A y \in {0, x} : Max({0, x}) >= y
  BY <1>1, Zenon DEF Max
<1> QED BY <1>2

\* A page that is sealed goes on where the caller stands: an old answer with
\* observations repeats a sequence, and one without has an old cursor.
LEMMA SealedPage ==
    ASSUME FeedInv, NEW cursor \in 0 .. feed.cursor, NEW w \in 0 .. now,
           NEW policy \in Policies, NEW count \in 0 .. (Len(published) - cursor),
           Ingest(Page(cursor, count, w), policy)
    PROVE  LET receipt == committed'[Len(committed) + 1]
           IN  /\ PageInv(receipt)
               /\ receipt.requested_cursor = feed.cursor
               /\ receipt.next_cursor = feed'.cursor
               /\ receipt.next_watermark = feed'.watermark
               /\ feed.watermark <= feed'.watermark
<1> DEFINE page == Page(cursor, count, w)
           request == [after_cursor |-> feed.cursor, watermark |-> feed.watermark,
                       limit |-> Limit, evaluated_at |-> now]
           receipt == Receipt(request, page, policy)
<1>1. /\ Sealable(request, page, policy)
      /\ committed' = Append(committed, receipt)
      /\ feed' = [cursor |-> page.next_cursor, watermark |-> page.watermark]
  BY DEF Ingest
<1>2. committed'[Len(committed) + 1] = receipt
  BY <1>1, AppendedSequence DEF FeedInv, PagesInv
<1>3. cursor \in Nat /\ count \in Nat /\ w \in Nat /\ feed.cursor \in Nat /\ feed.watermark \in Nat
  BY DEF FeedInv
<1>4. /\ page.next_cursor = cursor + count /\ page.watermark = w
      /\ DOMAIN page.observations = 1 .. count
      /\ \A i \in 1 .. count : /\ page.observations[i].sequence = cursor + i
                               /\ page.observations[i].observed_at = published[cursor + i]
  BY <1>3 DEF Page
<1>5. \A i \in 1 .. count : published[cursor + i] \in Nat
  BY <1>3 DEF FeedInv
<1>6. request.after_cursor = feed.cursor /\ request.watermark = feed.watermark
  OBVIOUS
<1> HIDE DEF page, request
<1>7. cursor = feed.cursor
  <2>1. page.next_cursor >= feed.cursor
    BY <1>1, <1>6 DEF Sealable, PageOK
  <2>2. CASE count = 0
    BY <2>1, <2>2, <1>3, <1>4
  <2>3. CASE count # 0
    <3>1. 1 \in 1 .. count
      BY <2>3, <1>3
    <3>2. page.observations[1].sequence > feed.cursor
      BY <1>1, <1>4, <1>6, <3>1 DEF Sealable, ObservationOK, SequenceOK
    <3> QED BY <3>1, <3>2, <1>3, <1>4
  <2> QED BY <2>2, <2>3
<1>8. w >= feed.watermark
  BY <1>1, <1>4, <1>6 DEF Sealable, PageOK
<1>9. /\ receipt.requested_cursor = feed.cursor /\ receipt.next_cursor = cursor + count
      /\ receipt.next_watermark = w /\ receipt.policy = policy
      /\ receipt.snapshots = page.observations
  BY <1>4, <1>6 DEF Receipt
<1>10. policy.allowed_lateness \in Nat
  BY PoliciesAssumption
<1>11. ASSUME NEW i \in 1 .. count
       PROVE  published[cursor + i] >= w - policy.allowed_lateness
  <2> DEFINE seen == published[cursor + i]
             late == Max({0, w - seen})
  <2>1. late <= policy.allowed_lateness
    BY <1>1, <1>4 DEF Sealable, ObservationOK, Lateness
  <2>2. seen \in Nat
    BY <1>5
  <2> HIDE DEF seen
  <2>3. w - seen \in Int
    BY <1>3, <2>2
  <2>4. late >= w - seen /\ late \in Int
    BY <2>3, AtLeast
  <2> HIDE DEF late
  <2>5. seen >= w - policy.allowed_lateness
    BY <1>3, <1>10, <2>1, <2>2, <2>4
  <2> QED BY <2>5 DEF seen
<1> HIDE DEF receipt
<1>12. PageInv(receipt)
  <2>1. DOMAIN receipt.snapshots = 1 .. (receipt.next_cursor - receipt.requested_cursor)
    BY <1>3, <1>4, <1>7, <1>9
  <2>2. ASSUME NEW i \in DOMAIN receipt.snapshots
        PROVE  /\ receipt.snapshots[i].sequence = receipt.requested_cursor + i
               /\ receipt.snapshots[i].observed_at \in Nat
               /\ receipt.snapshots[i].observed_at
                      >= receipt.next_watermark - receipt.policy.allowed_lateness
    BY <1>4, <1>5, <1>7, <1>9, <1>11
  <2> QED BY <2>1, <2>2, <1>3, <1>7, <1>9, <1>10 DEF PageInv
<1> QED BY <1>1, <1>2, <1>3, <1>4, <1>8, <1>9, <1>12

LEMMA IngestKeepsPages ==
    ASSUME FeedInv, NEW cursor \in 0 .. feed.cursor, NEW w \in 0 .. now,
           NEW policy \in Policies, NEW count \in 0 .. (Len(published) - cursor),
           Ingest(Page(cursor, count, w), policy)
    PROVE  FeedInv'
<1> DEFINE last == Len(committed) + 1
           receipt == committed'[last]
<1>1. /\ PageInv(receipt)
      /\ receipt.requested_cursor = feed.cursor
      /\ receipt.next_cursor = feed'.cursor
      /\ receipt.next_watermark = feed'.watermark
      /\ feed.watermark <= feed'.watermark
  BY SealedPage
<1>2. /\ Len(committed) \in Nat /\ IsSequence(committed')
      /\ DOMAIN committed = 1 .. Len(committed)
      /\ DOMAIN committed' = 1 .. last
      /\ \A k \in DOMAIN committed : committed'[k] = committed[k]
  BY AppendedSequence DEF Ingest, FeedInv, PagesInv
<1>3. UNCHANGED <<now, published>>
  BY DEF Ingest
<1>4. /\ last \in DOMAIN committed'
      /\ \A k \in DOMAIN committed' : k \in DOMAIN committed \/ k = last
      /\ \A k \in DOMAIN committed : k \in DOMAIN committed' /\ k < last /\ ~ (last < k)
  BY <1>2
<1> HIDE DEF last, receipt
<1>5. feed'.cursor \in Nat /\ feed'.watermark \in Nat /\ feed.cursor <= feed'.cursor
  BY <1>1 DEF PageInv
<1>6. ASSUME NEW k \in DOMAIN committed
      PROVE  /\ PageInv(committed'[k]) /\ committed[k] = committed'[k]
             /\ committed'[k].next_cursor \in Nat /\ committed'[k].next_watermark \in Nat
             /\ committed'[k].next_cursor <= feed.cursor
             /\ committed'[k].next_watermark <= feed.watermark
  BY <1>2 DEF FeedInv, PagesInv, PageInv
<1>7. ASSUME NEW k \in DOMAIN committed'
      PROVE  /\ PageInv(committed'[k])
             /\ committed'[k].next_cursor <= feed'.cursor
             /\ committed'[k].next_watermark <= feed'.watermark
  <2>1. CASE k \in DOMAIN committed
    BY <2>1, <1>1, <1>5, <1>6 DEF FeedInv
  <2>2. CASE k = last
    BY <2>2, <1>1, <1>5 DEF receipt
  <2> QED BY <1>4, <2>1, <2>2
<1>8. ASSUME NEW k \in DOMAIN committed', NEW l \in DOMAIN committed', k < l
      PROVE  /\ committed'[k].next_cursor <= committed'[l].requested_cursor
             /\ committed'[k].next_watermark <= committed'[l].next_watermark
  <2>1. CASE k \in DOMAIN committed /\ l \in DOMAIN committed
    BY <2>1, <1>2, <1>8 DEF FeedInv, PagesInv
  <2>2. CASE k \in DOMAIN committed /\ l = last
    BY <2>2, <1>1, <1>5, <1>6 DEF FeedInv, receipt
  <2>3. k # last
    BY <1>2, <1>8 DEF last
  <2> QED BY <1>4, <2>1, <2>2, <2>3
<1>9. ASSUME NEW n \in 1 .. feed'.cursor
      PROVE  \E k \in DOMAIN committed' :
                committed'[k].requested_cursor < n /\ n <= committed'[k].next_cursor
  <2>1. CASE n \in 1 .. feed.cursor
    <3>1. PICK k \in DOMAIN committed :
              committed[k].requested_cursor < n /\ n <= committed[k].next_cursor
      BY <2>1 DEF FeedInv, PagesInv
    <3> QED BY <3>1, <1>4, <1>6
  <2>2. CASE n > feed.cursor
    BY <2>2, <1>1, <1>4 DEF receipt
  <2> QED BY <2>1, <2>2, <1>5 DEF FeedInv
<1> QED BY <1>2, <1>3, <1>5, <1>7, <1>8, <1>9 DEF FeedInv, PagesInv

LEMMA FeedNext == FeedInv /\ [Next]_vars => FeedInv'
<1> SUFFICES ASSUME FeedInv, [Next]_vars PROVE FeedInv'
  OBVIOUS
<1>0. ASSUME UNCHANGED <<published, feed, committed>>, now' \in Nat PROVE FeedInv'
  BY <1>0 DEF FeedInv, PagesInv, IsSequence
<1>1. CASE Tick
  BY <1>0, <1>1 DEF Tick, FeedInv
<1>2. ASSUME NEW t \in 0 .. now, Publish(t) PROVE FeedInv'
  <2>1. published' \in Seq(Nat)
    BY <1>2 DEF Publish, FeedInv
  <2> QED BY <1>2, <2>1 DEF Publish, FeedInv, PagesInv, IsSequence
<1>3. ASSUME NEW cursor \in 0 .. feed.cursor, NEW w \in 0 .. now, NEW policy \in Policies,
             NEW count \in 0 .. (Len(published) - cursor), Ingest(Page(cursor, count, w), policy)
      PROVE  FeedInv'
  BY <1>3, IngestKeepsPages
<1>4. ASSUME NEW k, NEW policy, NEW v, Evaluate(k, policy, v) PROVE FeedInv'
  BY <1>0, <1>4 DEF Evaluate, FeedInv
<1>5. ASSUME NEW alert, NEW acknowledgement, Acknowledge(alert, acknowledgement) PROVE FeedInv'
  BY <1>0, <1>5 DEF Acknowledge, FeedInv
<1>6. ASSUME NEW k, NEW layers, NEW history, NEW previous, Compose(k, layers, history, previous)
      PROVE  FeedInv'
  BY <1>0, <1>6 DEF Compose, FeedInv
<1>7. CASE UNCHANGED vars
  BY <1>0, <1>7 DEF vars, FeedInv
<1> QED BY <1>1, <1>2, <1>3, <1>4, <1>5, <1>6, <1>7 DEF Next

LEMMA FeedInit == Init => FeedInv
<1> SUFFICES ASSUME Init PROVE FeedInv
  OBVIOUS
<1>1. committed \in Seq({}) /\ DOMAIN committed = {}
  BY DEF Init
<1>2. now = 0 /\ published = <<>> /\ feed.cursor = 0 /\ feed.watermark = 0
  BY DEF Init
<1> QED BY <1>1, <1>2 DEF FeedInv, PagesInv, IsSequence

LEMMA FeedInvariant == Spec => []FeedInv
<1> QED BY FeedInit, FeedNext, PTL DEF Spec

\* Pages committed one after the other are the provider's observations, each
\* once and in order, and none is later than its policy allows, however many
\* old or empty answers were delivered (seal, LiveFeedAdapter::execute).
THEOREM SealedHistoryTheorem == Spec => []SealedHistory
<1>1. ASSUME FeedInv PROVE SealedOnceInOrder
  <2>0. /\ feed.cursor \in Nat
        /\ \A k \in DOMAIN committed : k \in Nat
    BY <1>1 DEF FeedInv, PagesInv, IsSequence
  <2>1. ASSUME NEW n \in 1 .. feed.cursor
        PROVE  \E k \in DOMAIN committed : \E i \in DOMAIN committed[k].snapshots : Sequence(k, i) = n
    <3>1. PICK k \in DOMAIN committed :
              committed[k].requested_cursor < n /\ n <= committed[k].next_cursor
      BY <1>1 DEF FeedInv, PagesInv
    <3>2. PageInv(committed[k])
      BY <1>1 DEF FeedInv, PagesInv
    <3>3. n - committed[k].requested_cursor \in DOMAIN committed[k].snapshots
      BY <3>1, <3>2 DEF PageInv
    <3>4. Sequence(k, n - committed[k].requested_cursor) = n
      BY <3>2, <3>3 DEF PageInv, Sequence
    <3> QED BY <3>3, <3>4
  <2>2. ASSUME NEW k \in DOMAIN committed, NEW i \in DOMAIN committed[k].snapshots
        PROVE  /\ Sequence(k, i) = committed[k].requested_cursor + i /\ i \in Nat
               /\ committed[k].requested_cursor \in Nat /\ committed[k].next_cursor \in Nat
               /\ committed[k].requested_cursor < Sequence(k, i)
               /\ Sequence(k, i) <= committed[k].next_cursor
               /\ committed[k].next_cursor <= feed.cursor
    BY <1>1 DEF FeedInv, PagesInv, PageInv, Sequence
  <2>3. \A k \in DOMAIN committed : \A i \in DOMAIN committed[k].snapshots :
            Sequence(k, i) \in 1 .. feed.cursor
    BY <2>0, <2>2
  <2>4. ASSUME NEW k \in DOMAIN committed, NEW l \in DOMAIN committed,
               NEW i \in DOMAIN committed[k].snapshots, NEW j \in DOMAIN committed[l].snapshots,
               Before(k, i, l, j)
        PROVE  Sequence(k, i) < Sequence(l, j)
    <3>1. CASE k < l
      <4>1. committed[k].next_cursor <= committed[l].requested_cursor
        BY <1>1, <3>1 DEF FeedInv, PagesInv
      <4> QED BY <4>1, <2>2
    <3>2. CASE k = l /\ i < j
      BY <3>2, <2>2
    <3> QED BY <2>4, <3>1, <3>2 DEF Before
  <2> QED BY <2>1, <2>3, <2>4 DEF SealedOnceInOrder
<1>2. ASSUME FeedInv PROVE LatenessBounded
  <2> SUFFICES ASSUME NEW k \in DOMAIN committed, NEW j \in 1 .. k,
                      NEW i \in DOMAIN committed[k].snapshots
               PROVE  committed[k].snapshots[i].observed_at
                          >= committed[j].next_watermark - committed[k].policy.allowed_lateness
    BY DEF LatenessBounded
  <2>1. j \in DOMAIN committed /\ (j < k \/ j = k)
    BY <1>2 DEF FeedInv, PagesInv, IsSequence
  <2>2. /\ committed[j].next_watermark \in Nat /\ committed[k].next_watermark \in Nat
        /\ committed[k].policy.allowed_lateness \in Nat
        /\ committed[k].snapshots[i].observed_at \in Nat
        /\ committed[k].snapshots[i].observed_at
               >= committed[k].next_watermark - committed[k].policy.allowed_lateness
    BY <1>2, <2>1 DEF FeedInv, PagesInv, PageInv
  <2>3. committed[j].next_watermark <= committed[k].next_watermark
    BY <1>2, <2>1, <2>2 DEF FeedInv, PagesInv
  <2> QED BY <2>2, <2>3
<1>3. FeedInv => SealedHistory
  BY <1>1, <1>2 DEF SealedHistory
<1> QED BY <1>3, FeedInvariant, PTL

-----------------------------------------------------------------------------
(* Alert records                                                           *)

IsTrigger(t) ==
    \E policy, window, value, at :
        t = [policy |-> policy, window |-> window,
             metric |-> [field |-> "value", value |-> value], triggered_at |-> at]

\* Record a of a trigger t and acknowledgements s.
RecordInv(a, t, s) ==
    /\ IsTrigger(t) /\ IsSequence(s) /\ a = Sealed(t, s)
    /\ t.triggered_at \in Nat /\ t.triggered_at <= now
    /\ Triggered(t.policy.rule, t.metric.value)
    /\ \A i \in DOMAIN s : s[i].at \in Nat
    /\ \A i, j \in DOMAIN s : i < j => s[i].at <= s[j].at
    /\ s # <<>> => Sealed(t, Front(s)) \in alerts

AlertsInv ==
    /\ now \in Nat
    /\ \A a \in alerts : \E t, s : RecordInv(a, t, s)

LEMMA DigestsDiffer ==
    ASSUME NEW x, NEW y, digest(x) = digest(y)
    PROVE  x = y
<1>1. digest(x).sha256 = x /\ digest(y).sha256 = y
  BY DEF digest
<1> QED BY <1>1

LEMMA FieldsOfSealed ==
    ASSUME NEW t, NEW s
    PROVE  /\ Sealed(t, s).trigger = t
           /\ Sealed(t, s).acknowledgements = s
           /\ Sealed(t, s).alert_id = digest(t)
           /\ Sealed(t, s).record_digest = digest([alert_id |-> digest(t), acknowledgements |-> s])
BY DEF Sealed

LEMMA EditedAcknowledgements ==
    ASSUME NEW t, NEW s, NEW d, NEW e, NEW u, NEW a,
           a = [trigger |-> t, acknowledgements |-> s, alert_id |-> d, record_digest |-> e]
    PROVE  /\ [a EXCEPT !.acknowledgements = u] =
                  [trigger |-> t, acknowledgements |-> u, alert_id |-> d, record_digest |-> e]
BY SMT

LEMMA EditedTrigger ==
    ASSUME NEW p, NEW w, NEW f, NEW x, NEW at, NEW s, NEW d, NEW e, NEW v, NEW a,
           a = [trigger |-> [policy |-> p, window |-> w,
                             metric |-> [field |-> f, value |-> x], triggered_at |-> at],
                acknowledgements |-> s, alert_id |-> d, record_digest |-> e]
    PROVE  [a EXCEPT !.trigger.metric.value = v] =
               [trigger |-> [policy |-> p, window |-> w,
                             metric |-> [field |-> f, value |-> v], triggered_at |-> at],
                acknowledgements |-> s, alert_id |-> d, record_digest |-> e]
BY SMT

LEMMA AppendedAcknowledgement ==
    ASSUME NEW t, NEW s, NEW ack
    PROVE  Acknowledged(Sealed(t, s), ack) = Sealed(t, Append(s, ack))
<1> DEFINE a == Sealed(t, s)
           u == Append(s, ack)
           d == digest(t)
           e == digest([alert_id |-> d, acknowledgements |-> s])
           g == digest([alert_id |-> d, acknowledgements |-> u])
<1>1. /\ a = [trigger |-> t, acknowledgements |-> s, alert_id |-> d, record_digest |-> e]
      /\ Sealed(t, u) = [trigger |-> t, acknowledgements |-> u, alert_id |-> d, record_digest |-> g]
  BY DEF Sealed
<1>2. Acknowledged(a, ack) =
          [a EXCEPT !.acknowledgements = Append(a.acknowledgements, ack),
                    !.record_digest = digest([alert_id |-> a.alert_id,
                                       acknowledgements |-> Append(a.acknowledgements, ack)])]
  BY Zenon DEF Acknowledged
<1>3. a.acknowledgements = s /\ a.alert_id = d
  BY FieldsOfSealed
<1> HIDE DEF a, d, e
<1>4. Acknowledged(a, ack) = [a EXCEPT !.acknowledgements = u, !.record_digest = g]
  BY <1>2, <1>3, Zenon
<1> HIDE DEF u, g
<1>5. [a EXCEPT !.acknowledgements = u, !.record_digest = g] =
          [trigger |-> t, acknowledgements |-> u, alert_id |-> d, record_digest |-> g]
  <2>1. a = [trigger |-> t, acknowledgements |-> s, alert_id |-> d, record_digest |-> e]
    BY <1>1
  <2> DEFINE b == [a EXCEPT !.acknowledgements = u]
  <2>2. b = [trigger |-> t, acknowledgements |-> u, alert_id |-> d, record_digest |-> e]
    BY <2>1, EditedAcknowledgements
  <2> HIDE DEF b
  <2>3. [b EXCEPT !.record_digest = g] =
            [trigger |-> t, acknowledgements |-> u, alert_id |-> d, record_digest |-> g]
    BY <2>2, SMT
  <2> QED BY <2>3, Zenon DEF b
<1>6. Acknowledged(a, ack) = Sealed(t, u)
  BY <1>1, <1>4, <1>5, Zenon
<1> QED BY <1>6 DEF a, u

\* A record that was edited after it was sealed does not verify: what verifies
\* is a record that was returned.
LEMMA VerifiedRecords ==
    ASSUME AlertsInv, NEW alert \in Submitted, verify_alert_record(alert)
    PROVE  alert \in alerts
<1>1. ASSUME NEW b \in alerts, NEW v \in Values, alert = [b EXCEPT !.trigger.metric.value = v]
      PROVE  alert = b
  <2>1. PICK t, s : RecordInv(b, t, s)
    BY DEF AlertsInv
  <2>2. PICK p, w, x, at : t = [policy |-> p, window |-> w,
                               metric |-> [field |-> "value", value |-> x], triggered_at |-> at]
    BY <2>1 DEF RecordInv, IsTrigger
  <2> DEFINE d == digest(t)
             e == digest([alert_id |-> digest(t), acknowledgements |-> s])
             t2 == [policy |-> p, window |-> w,
                    metric |-> [field |-> "value", value |-> v], triggered_at |-> at]
  <2>3. b = [trigger |-> t, acknowledgements |-> s, alert_id |-> d, record_digest |-> e]
    BY <2>1 DEF RecordInv, Sealed
  <2>4. [b EXCEPT !.trigger.metric.value = v] =
            [trigger |-> t2, acknowledgements |-> s, alert_id |-> d, record_digest |-> e]
    <3> HIDE DEF d, e
    <3> QED BY <2>2, <2>3, EditedTrigger
  <2>5. alert = [trigger |-> t2, acknowledgements |-> s, alert_id |-> d, record_digest |-> e]
    BY <1>1, <2>4, Zenon
  <2>6. alert.alert_id = d /\ alert.trigger = t2
    BY <2>5
  <2>7. digest(t) = digest(t2)
    BY <2>6 DEF verify_alert_record
  <2>8. t = t2
    BY <2>7, DigestsDiffer
  <2> QED BY <2>3, <2>5, <2>8
<1>2. ASSUME NEW b \in alerts, alert = [b EXCEPT !.acknowledgements = <<>>]
      PROVE  alert = b
  <2>1. PICK t, s : RecordInv(b, t, s)
    BY DEF AlertsInv
  <2> DEFINE d == digest(t)
             e == digest([alert_id |-> d, acknowledgements |-> s])
  <2>3. b = [trigger |-> t, acknowledgements |-> s, alert_id |-> d, record_digest |-> e]
    BY <2>1 DEF RecordInv, Sealed
  <2>4. [b EXCEPT !.acknowledgements = <<>>] =
            [trigger |-> t, acknowledgements |-> <<>>, alert_id |-> d, record_digest |-> e]
    <3> HIDE DEF d, e
    <3> QED BY <2>3, EditedAcknowledgements
  <2>5. alert = [trigger |-> t, acknowledgements |-> <<>>, alert_id |-> d, record_digest |-> e]
    BY <1>2, <2>4, Zenon
  <2>6. alert.alert_id = d /\ alert.acknowledgements = <<>> /\ alert.record_digest = e
    BY <2>5
  <2>7. e = digest([alert_id |-> d, acknowledgements |-> <<>>])
    BY <2>6 DEF verify_alert_record
  <2>8. [alert_id |-> d, acknowledgements |-> s] = [alert_id |-> d, acknowledgements |-> <<>>]
    BY <2>7, DigestsDiffer
  <2>9. s = <<>>
    <3> HIDE DEF d
    <3>1. [alert_id |-> d, acknowledgements |-> s].acknowledgements
              = [alert_id |-> d, acknowledgements |-> <<>>].acknowledgements
      BY <2>8, Zenon
    <3> QED BY <3>1
  <2> QED BY <2>3, <2>5, <2>9
<1> QED BY <1>1, <1>2 DEF Submitted

LEMMA FrontOfAppend ==
    ASSUME NEW s, IsSequence(s), NEW e
    PROVE  Front(Append(s, e)) = s /\ Append(s, e) # <<>>
<1>1. PICK S : s \in Seq(S)
  BY DEF IsSequence
<1>2. /\ Append(s, e) \in Seq(S \cup {e}) /\ Len(Append(s, e)) = Len(s) + 1
      /\ s \in Seq(S \cup {e})
  BY <1>1
<1>3. Append(s, e) # <<>>
  <2>1. Len(Append(s, e)) # 0 /\ Len(<<>>) = 0
    BY <1>2
  <2> QED BY <2>1, Zenon
<1>4. SubSeq(Append(s, e), 1, Len(s)) = s
  BY <1>2
<1> QED BY <1>2, <1>3, <1>4 DEF Front

LEMMA AlertsNext == AlertsInv /\ [Next]_vars => AlertsInv'
<1> SUFFICES ASSUME AlertsInv, [Next]_vars PROVE AlertsInv'
  OBVIOUS
<1>0. ASSUME now' \in Nat, now' >= now, alerts \subseteq alerts',
             NEW a, NEW t, NEW s, RecordInv(a, t, s)
      PROVE  RecordInv(a, t, s)'
  <2>1. t.triggered_at <= now'
    BY <1>0 DEF RecordInv, AlertsInv
  <2>2. s # <<>> => Sealed(t, Front(s)) \in alerts'
    BY <1>0 DEF RecordInv
  <2> QED BY <1>0, <2>1, <2>2, Zenon DEF RecordInv
<1>1. CASE Tick
  <2>1. now' = now + 1 /\ alerts' = alerts
    BY <1>1 DEF Tick
  <2>2. now' \in Nat /\ now' >= now
    BY <2>1 DEF AlertsInv
  <2> QED BY <2>1, <2>2, <1>0 DEF AlertsInv
<1>2. ASSUME UNCHANGED <<now, alerts>> PROVE AlertsInv'
  <2>1. now' \in Nat /\ now' >= now /\ alerts' = alerts
    BY <1>2 DEF AlertsInv
  <2> QED BY <2>1, <1>0 DEF AlertsInv
<1>3. ASSUME NEW k, NEW policy, NEW v, Evaluate(k, policy, v) PROVE AlertsInv'
  <2>0. PICK t : t = [policy |-> policy, window |-> Window(k),
                     metric |-> [field |-> "value", value |-> v], triggered_at |-> now]
    OBVIOUS
  <2>1. /\ alerts' = alerts \cup {Sealed(t, <<>>)} /\ now' = now
        /\ Triggered(policy.rule, v)
    BY <1>3, <2>0 DEF Evaluate, Evaluated
  <2>2. now' \in Nat /\ now' >= now
    BY <2>1 DEF AlertsInv
  <2>3. t.triggered_at = now /\ t.policy = policy /\ t.metric.value = v
    BY <2>0
  <2>4. IsTrigger(t)
    BY <2>0, Zenon DEF IsTrigger
  <2>5. IsSequence(<<>>) /\ DOMAIN <<>> = {}
    BY DEF IsSequence
  <2>6. RecordInv(Sealed(t, <<>>), t, <<>>)'
    BY <2>1, <2>2, <2>3, <2>4, <2>5 DEF RecordInv
  <2> QED BY <2>1, <2>2, <2>6, <1>0 DEF AlertsInv
<1>4. ASSUME NEW alert \in Submitted, NEW id \in AckIds, NEW at \in 0 .. now,
             Acknowledge(alert, [id |-> id, at |-> at])
      PROVE  AlertsInv'
  <2> DEFINE ack == [id |-> id, at |-> at]
  <2>1. /\ verify_alert_record(alert) /\ verify_alert_record(Acknowledged(alert, ack))
        /\ alerts' = alerts \cup {Acknowledged(alert, ack)} /\ now' = now
    BY <1>4 DEF Acknowledge, CanAcknowledge
  <2>2. alert \in alerts
    BY <2>1, VerifiedRecords
  <2>3. PICK t, s : RecordInv(alert, t, s)
    BY <2>2 DEF AlertsInv
  <2> DEFINE u == Append(s, ack)
  <2>4. Acknowledged(alert, ack) = Sealed(t, u)
    BY <2>3, AppendedAcknowledgement DEF RecordInv
  <2>5. ack.at = at /\ at \in Nat
    BY DEF AlertsInv
  <2> HIDE DEF ack
  <2>6. /\ IsSequence(u) /\ Len(s) \in Nat /\ DOMAIN s = 1 .. Len(s)
        /\ DOMAIN u = 1 .. (Len(s) + 1)
        /\ \A i \in 1 .. Len(s) : u[i] = s[i]
        /\ u[Len(s) + 1] = ack
    BY <2>3, AppendedSequence DEF RecordInv
  <2>7. Front(u) = s /\ u # <<>>
    BY <2>3, FrontOfAppend DEF RecordInv
  <2> HIDE DEF u
  <2>8. ChainOK(Sealed(t, u))
    BY <2>1, <2>4 DEF verify_alert_record
  <2>9. \A i \in DOMAIN u : u[i].at \in Nat
    BY <2>3, <2>5, <2>6 DEF RecordInv
  <2>10. ASSUME NEW i \in DOMAIN u, NEW j \in DOMAIN u, i < j
         PROVE  u[i].at <= u[j].at
    <3>1. CASE j \in DOMAIN s
      BY <2>3, <2>6, <2>10, <3>1 DEF RecordInv
    <3>2. CASE j = Len(s) + 1
      <4>1. Len(s) \in DOMAIN s /\ Len(s) \in DOMAIN u /\ j # 1 /\ j - 1 = Len(s)
        BY <2>6, <2>10, <3>2
      <4>2. u[j].at >= u[Len(s)].at
        <5> DEFINE record == Sealed(t, u)
        <5>1. record.acknowledgements = u
          BY FieldsOfSealed
        <5> HIDE DEF record
        <5>2. ChainOK(record)
          BY <2>8 DEF record
        <5>3. u[j].at >= IF j = 1 THEN record.trigger.triggered_at ELSE u[j - 1].at
          BY <5>1, <5>2 DEF ChainOK
        <5> QED BY <4>1, <5>3
      <4>3. u[i].at <= u[Len(s)].at
        <5>1. i \in DOMAIN s /\ (i < Len(s) \/ i = Len(s))
          BY <2>6, <2>10, <3>2
        <5> QED BY <2>3, <2>6, <2>9, <4>1, <5>1 DEF RecordInv
      <4> QED BY <2>9, <4>1, <4>2, <4>3
    <3> QED BY <2>6, <3>1, <3>2
  <2>11. now' \in Nat /\ now' >= now
    BY <2>1 DEF AlertsInv
  <2>12. Sealed(t, Front(u)) \in alerts'
    BY <2>1, <2>2, <2>3, <2>7 DEF RecordInv
  <2>13. RecordInv(Sealed(t, u), t, u)'
    BY <2>1, <2>3, <2>6, <2>9, <2>10, <2>12, Zenon DEF RecordInv
  <2> QED BY <2>1, <2>4, <2>11, <2>13, <1>0 DEF AlertsInv
<1>5. ASSUME NEW page, NEW policy, Ingest(page, policy) PROVE AlertsInv'
  BY <1>2, <1>5 DEF Ingest
<1>6. ASSUME NEW k, NEW layers, NEW history, NEW previous, Compose(k, layers, history, previous)
      PROVE  AlertsInv'
  BY <1>2, <1>6 DEF Compose
<1>7. ASSUME NEW t, Publish(t) PROVE AlertsInv'
  BY <1>2, <1>7 DEF Publish
<1>8. CASE UNCHANGED vars
  BY <1>2, <1>8 DEF vars
<1> QED BY <1>1, <1>3, <1>4, <1>5, <1>6, <1>7, <1>8 DEF Next

\* Every alert record a caller ever received was evaluated before now from a
\* rule that triggered and grew one acknowledgement at a time, in the order of
\* their times; edited records are refused (verify_alert_record,
\* append_acknowledgement).
THEOREM AcknowledgementsTheorem == Spec => []AcknowledgementsAppendOnly
<1>1. Init => AlertsInv
  BY DEF Init, AlertsInv
<1>2. AlertsInv => AcknowledgementsAppendOnly
  <2> SUFFICES ASSUME AlertsInv, NEW a \in alerts
               PROVE  LET acks == a.acknowledgements
                      IN  /\ a.trigger.triggered_at <= now
                          /\ Triggered(a.trigger.policy.rule, a.trigger.metric.value)
                          /\ acks # <<>> => Sealed(a.trigger, Front(acks)) \in alerts
                          /\ \A i, j \in DOMAIN acks : i < j => acks[i].at <= acks[j].at
    BY DEF AcknowledgementsAppendOnly
  <2>1. PICK t, s : RecordInv(a, t, s)
    BY DEF AlertsInv
  <2>2. a.trigger = t /\ a.acknowledgements = s
    BY <2>1, FieldsOfSealed DEF RecordInv
  <2> QED BY <2>1, <2>2 DEF RecordInv
<1> QED BY <1>1, <1>2, AlertsNext, PTL DEF Spec

-----------------------------------------------------------------------------
(* Views                                                                   *)

\* The view of version n over the view with digest p.
Version(n, p, result, layers, status, history, sound) ==
    [version |-> n, previous_view_digest |-> p, result |-> result, layers |-> layers,
     status |-> status, history |-> history, sound |-> sound]

IsVersion(view) ==
    /\ \E n, p, result, layers, status, history, sound :
           view = Version(n, p, result, layers, status, history, sound)
    /\ view.version \in Nat
    /\ IsSequence(view.history)

\* View v was sealed over view u.
SealedOver(u, v) ==
    /\ ParentOf(u, v) /\ u.view.version + 1 = v.view.version
    /\ u.view.status.cursor <= v.view.status.cursor
    /\ u.view.status.watermark <= v.view.status.watermark
    /\ IsPrefix(u.view.history, v.view.history)
    /\ \A i \in DOMAIN v.view.history :
           i > Len(u.view.history) => v.view.history[i].result = v.view.result

ViewsInv ==
    \A v \in views :
        /\ IsVersion(v.view)
        /\ v = [view |-> v.view, view_digest |-> view_digest(v.view)]
        /\ v.view.status.cursor \in Nat /\ v.view.status.watermark \in Nat
        /\ v.view.version > 1 => \E u \in views : SealedOver(u, v)

LEMMA ViewDigestsDiffer ==
    ASSUME NEW x, NEW y, view_digest(x) = view_digest(y)
    PROVE  x = y
<1>1. view_digest(x).sha256 = x /\ view_digest(y).sha256 = y
  BY DEF view_digest
<1> QED BY <1>1

LEMMA EditedView ==
    ASSUME NEW n, NEW p, NEW result, NEW layers, NEW status, NEW history, NEW sound,
           NEW d, NEW h, NEW v,
           v = [view |-> [version |-> n, previous_view_digest |-> p, result |-> result,
                          layers |-> layers, status |-> status, history |-> history,
                          sound |-> sound],
                view_digest |-> d]
    PROVE  [v EXCEPT !.view.history = h] =
               [view |-> [version |-> n, previous_view_digest |-> p, result |-> result,
                          layers |-> layers, status |-> status, history |-> h, sound |-> sound],
                view_digest |-> d]
BY SMT

\* A previous view without its history does not verify: what verifies is a
\* view that was returned.
LEMMA VerifiedViews ==
    ASSUME ViewsInv, NEW previous \in PreviousViews, previous # Null,
           verify_operational_dashboard(previous)
    PROVE  previous \in views
<1>1. ASSUME NEW v \in views, previous = [v EXCEPT !.view.history = <<>>]
      PROVE  previous = v
  <2>1. PICK n, p, result, layers, status, history, sound :
            v.view = Version(n, p, result, layers, status, history, sound)
    BY DEF ViewsInv, IsVersion
  <2> DEFINE w == Version(n, p, result, layers, status, history, sound)
             e == Version(n, p, result, layers, status, <<>>, sound)
             d == view_digest(w)
  <2>2. v = [view |-> w, view_digest |-> d]
    BY <2>1, Zenon DEF ViewsInv
  <2>3. [v EXCEPT !.view.history = <<>>] = [view |-> e, view_digest |-> d]
    <3> HIDE DEF d
    <3> QED BY <2>2, EditedView DEF Version
  <2>4. previous = [view |-> e, view_digest |-> d]
    BY <1>1, <2>3, Zenon
  <2>5. previous.view = e /\ previous.view_digest = d
    <3> HIDE DEF d, e
    <3> QED BY <2>4
  <2>6. d = view_digest(e)
    BY <2>5, Zenon DEF verify_operational_dashboard
  <2>7. w = e
    BY <2>6, ViewDigestsDiffer
  <2> QED BY <2>2, <2>4, <2>7, Zenon
<1> QED BY <1>1 DEF PreviousViews

LEMMA KnownHistories ==
    ASSUME ViewsInv, NEW history \in Histories
    PROVE  IsSequence(history)
<1>1. IsSequence(<<>>)
  BY DEF IsSequence
<1>2. \A v \in views : IsSequence(v.view.history)
  BY DEF ViewsInv, IsVersion
<1>3. ASSUME NEW h, IsSequence(h), NEW e PROVE IsSequence(Append(h, e))
  BY <1>3, AppendedSequence
<1> DEFINE seen == {<<>>} \cup {v.view.history : v \in views}
<1>4. \A h \in seen : IsSequence(h)
  BY <1>1, <1>2
<1>5. history \in seen \/ \E h \in seen, alert \in alerts : history = Append(h, Entry(alert))
  BY DEF Histories
<1> HIDE DEF seen
<1> QED BY <1>3, <1>4, <1>5

LEMMA ViewsNext == FeedInv /\ ViewsInv /\ [Next]_vars => ViewsInv'
<1> SUFFICES ASSUME FeedInv, ViewsInv, [Next]_vars PROVE ViewsInv'
  OBVIOUS
<1>1. ASSUME views' = views PROVE ViewsInv'
  BY <1>1, Zenon DEF ViewsInv
<1>2. ASSUME NEW k \in DOMAIN committed, NEW history \in Histories, NEW previous \in PreviousViews,
             NEW layers, Compose(k, layers, history, previous)
      PROVE  ViewsInv'
  <2>1. PICK status : status = [cursor |-> committed[k].next_cursor,
                                watermark |-> committed[k].next_watermark]
    OBVIOUS
  <2>2. status.cursor \in Nat /\ status.watermark \in Nat
    BY <2>1 DEF FeedInv, PagesInv, PageInv
  <2> DEFINE draft == [result |-> k, layers |-> layers, history |-> history, sound |-> TRUE,
                       status |-> status]
  <2>3. /\ validate_draft(draft, previous)
        /\ views' = views \cup {seal_operational_dashboard(draft, previous)}
    BY <1>2, <2>1 DEF Compose
  <2>4. IsSequence(history)
    BY KnownHistories
  <2>5. PICK n, p : /\ seal_operational_dashboard(draft, previous) = View(draft, n, p)
                    /\ n \in Nat
                    /\ n > 1 => /\ previous \in views /\ n = previous.view.version + 1
                                /\ p = previous.view_digest /\ previous # Null
    <3>1. CASE previous = Null
      <4>1. seal_operational_dashboard(draft, previous) = View(draft, 1, Null)
        BY <3>1, Zenon DEF seal_operational_dashboard
      <4> QED BY <4>1
    <3>2. CASE previous # Null
      <4>1. verify_operational_dashboard(previous)
        BY <2>3, <3>2 DEF validate_draft
      <4>2. previous \in views
        BY <3>2, <4>1, VerifiedViews
      <4>3. seal_operational_dashboard(draft, previous)
                = View(draft, previous.view.version + 1, previous.view_digest)
        BY <3>2, Zenon DEF seal_operational_dashboard
      <4>4. previous.view.version + 1 \in Nat
        BY <4>2 DEF ViewsInv, IsVersion
      <4> QED BY <3>2, <4>2, <4>3, <4>4
    <3> QED BY <3>1, <3>2
  <2> DEFINE view == Version(n, p, k, layers, status, history, TRUE)
             v == [view |-> view, view_digest |-> view_digest(view)]
  <2>6. View(draft, n, p) = v
    BY DEF View, Version
  <2>7. /\ v.view = view /\ v.view_digest = view_digest(view)
    BY Zenon
  <2>8. /\ view.version = n /\ view.previous_view_digest = p /\ view.result = k
        /\ view.status = status /\ view.history = history
    BY DEF Version
  <2>9. IsVersion(view)
    <3>1. \E n0, p0, result0, layers0, status0, history0, sound0 :
              view = Version(n0, p0, result0, layers0, status0, history0, sound0)
      BY Zenon
    <3> QED BY <2>4, <2>5, <2>8, <3>1 DEF IsVersion
  <2>10. ASSUME n > 1 PROVE SealedOver(previous, v)
    <3>1. /\ previous \in views /\ n = previous.view.version + 1 /\ p = previous.view_digest
          /\ previous # Null
      BY <2>5, <2>10
    <3>2. ExtendsView(draft, previous.view)
      BY <2>3, <3>1 DEF validate_draft
    <3>3. draft.status = status /\ draft.history = history /\ draft.result = k
      OBVIOUS
    <3> HIDE DEF draft
    <3>4. /\ status.cursor >= previous.view.status.cursor
          /\ status.watermark >= previous.view.status.watermark
          /\ IsPrefix(previous.view.history, history)
          /\ \A i \in Len(previous.view.history) + 1 .. Len(history) : history[i].result = k
      BY <3>2, <3>3, Zenon DEF ExtendsView
    <3>5. /\ previous.view.status.cursor \in Nat /\ previous.view.status.watermark \in Nat
          /\ Len(previous.view.history) \in Nat
      BY <3>1, AppendedSequence DEF ViewsInv, IsVersion
    <3>6. DOMAIN history = 1 .. Len(history) /\ Len(history) \in Nat
      BY <2>4, AppendedSequence
    <3>7. ParentOf(previous, v)
      BY <2>7, <2>8, <3>1 DEF ParentOf
    <3>8. \A i \in DOMAIN history : i > Len(previous.view.history) => history[i].result = k
      BY <3>4, <3>5, <3>6
    <3>9. /\ previous.view.status.cursor <= status.cursor
          /\ previous.view.status.watermark <= status.watermark
      BY <2>2, <3>4, <3>5
    <3> HIDE DEF v, view
    <3> QED BY <2>7, <2>8, <3>1, <3>4, <3>7, <3>8, <3>9 DEF SealedOver
  <2> HIDE DEF draft, view
  <2>11. views' = views \cup {v}
    BY <2>3, <2>5, <2>6
  <2> HIDE DEF v
  <2>12. v = [view |-> v.view, view_digest |-> view_digest(v.view)]
    BY <2>7, Zenon DEF v
  <2>13. v.view.version > 1 => \E u \in views' : SealedOver(u, v)
    BY <2>5, <2>7, <2>8, <2>10, <2>11
  <2>14. v.view.status.cursor \in Nat /\ v.view.status.watermark \in Nat
    BY <2>2, <2>7, <2>8
  <2>15. IsVersion(v.view)
    BY <2>7, <2>9
  <2>16. ASSUME NEW w \in views'
         PROVE  /\ IsVersion(w.view)
                /\ w = [view |-> w.view, view_digest |-> view_digest(w.view)]
                /\ w.view.status.cursor \in Nat /\ w.view.status.watermark \in Nat
                /\ w.view.version > 1 => \E u \in views' : SealedOver(u, w)
    <3>1. CASE w = v
      BY <3>1, <2>12, <2>13, <2>14, <2>15, Zenon
    <3>2. CASE w \in views
      BY <3>2, <2>11, Zenon DEF ViewsInv
    <3> QED BY <2>11, <3>1, <3>2
  <2> QED BY <2>16, Zenon DEF ViewsInv
<1>3. CASE Tick
  BY <1>1, <1>3 DEF Tick
<1>4. ASSUME NEW t, Publish(t) PROVE ViewsInv'
  BY <1>1, <1>4 DEF Publish
<1>5. ASSUME NEW page, NEW policy, Ingest(page, policy) PROVE ViewsInv'
  BY <1>1, <1>5 DEF Ingest
<1>6. ASSUME NEW k, NEW policy, NEW v, Evaluate(k, policy, v) PROVE ViewsInv'
  BY <1>1, <1>6 DEF Evaluate
<1>7. ASSUME NEW alert, NEW acknowledgement, Acknowledge(alert, acknowledgement) PROVE ViewsInv'
  BY <1>1, <1>7 DEF Acknowledge
<1>8. CASE UNCHANGED vars
  BY <1>1, <1>8 DEF vars
<1> QED BY <1>2, <1>3, <1>4, <1>5, <1>6, <1>7, <1>8 DEF Next

\* Every version of a view but the first was sealed over one that a caller
\* received, with the cursor and watermark not behind it, its history repeated
\* and only alerts of its own result added (validate_draft,
\* verify_operational_dashboard).
THEOREM ViewsLinkedTheorem == Spec => []ViewsLinked
<1>1. Init => ViewsInv
  BY DEF Init, ViewsInv
<1>2. ViewsInv => ViewsLinked
  BY Zenon DEF ViewsInv, ViewsLinked, SealedOver
<1> QED BY <1>1, <1>2, FeedInvariant, ViewsNext, PTL DEF Spec
=============================================================================
