---- MODULE Outbox_proofs ----
(***************************************************************************)
(* The outbox for any events, gaps, budgets, delays and provider answers:  *)
(* types, agreement of accepted parts, cursor and status, and cadence;     *)
(* then the bounds: it never quarantines an event of its own making, no    *)
(* answer parks an event or a channel, and a due continuation is overtaken *)
(* once at most.                                                           *)
(***************************************************************************)
EXTENDS Outbox, TLAPS

-----------------------------------------------------------------------------
(* Times *)

LEMMA WholeSecondNat == \A t \in Nat : WholeSecond(t) \in Nat /\ WholeSecond(t) <= t
<1> TAKE t \in Nat
<1>1. TicksPerSecond \in Nat /\ TicksPerSecond > 0
  BY OutboxAssumption
<1>2. t % TicksPerSecond \in 0..(TicksPerSecond - 1)
  BY <1>1
<1>3. t = TicksPerSecond * (t \div TicksPerSecond) + (t % TicksPerSecond)
  BY <1>1
<1>4. t \div TicksPerSecond \in Nat
  BY <1>1
<1>5. TicksPerSecond * (t \div TicksPerSecond) \in Nat
  BY <1>1, <1>4
<1> QED
  BY <1>2, <1>3, <1>5 DEF WholeSecond

LEMMA NextSecondNat == \A t \in Nat : NextSecond(t) \in Nat
<1> TAKE t \in Nat
<1>1. t + TicksPerSecond - 1 \in Nat
  BY OutboxAssumption
<1> QED
  BY <1>1, WholeSecondNat DEF NextSecond

LEMMA Constants ==
  /\ None \notin Int /\ MaxAttempts \in Nat \ {0} /\ MaxDeferrals \in Nat \ {0}
  /\ MinDelay \in Nat /\ DefaultDelay \in Nat /\ MaxDelay \in Nat
  /\ Backoff \in [1..MaxAttempts -> Nat]
  /\ Len(Gaps) \in Nat /\ \A p \in 1..Len(Gaps) : Gaps[p] \in Nat
BY OutboxAssumption

LEMMA DueNat ==
  ASSUME NEW e \in Event, NEW quota \in [Kinds -> Quota], NEW t
  PROVE  Due(e, quota, t) \in Nat
<1>1. e.due \in Nat /\ e.kind \in Kinds
  BY DEF Event
<1>2. quota[e.kind].reset \in Nat \cup {None}
  BY <1>1 DEF Quota
<1> QED
  BY <1>1, <1>2 DEF Due

\* A usable quota header, and what _record_quota makes of it.
LEMMA HeadersType ==
  ASSUME NEW t \in Nat, NEW h \in Headers(t)
  PROVE  h.remaining \in Nat \cup {None} /\ h.reset \in Nat \cup {None}
<1>1. NextSecond(t) \in Nat
  BY NextSecondNat
<1>2. \A o \in ResetOffsets : NextSecond(t) + o \in Nat
  BY <1>1, OutboxAssumption
<1> QED
  BY <1>2, OutboxAssumption DEF Headers

LEMMA RecordQuotaType ==
  ASSUME TypeOK, NEW kind \in Kinds, NEW remaining \in Nat \cup {None},
         NEW reset \in Nat \cup {None}, NEW t \in Nat
  PROVE  RecordQuota(kind, remaining, reset, t) \in [Kinds -> Quota]
<1>1. /\ pushover_quota \in [Kinds -> Quota]
      /\ pushover_quota[kind].remaining \in Nat \cup {None}
      /\ pushover_quota[kind].reset \in Nat \cup {None}
  BY DEF TypeOK, Quota
<1>2. \A r \in Nat \cup {None} : FutureReset(r, t) \in Nat \cup {None}
  BY DEF FutureReset
<1>3. NextSecond(t + DefaultDelay) \in Nat
  <2>1. t + DefaultDelay \in Nat
    BY Constants
  <2> QED
    BY <2>1, NextSecondNat
<1> DEFINE future == FutureReset(IF reset # None THEN reset
                                 ELSE pushover_quota[kind].reset, t)
           entry == [remaining |-> IF remaining # None THEN remaining
                                   ELSE pushover_quota[kind].remaining,
                     reset |-> IF remaining = 0 /\ future = None
                               THEN NextSecond(t + DefaultDelay) ELSE future]
<1>4. entry \in Quota
  BY <1>1, <1>2, <1>3 DEF Quota
<1>5. RecordQuota(kind, remaining, reset, t)
        \in {pushover_quota, [pushover_quota EXCEPT ![kind] = entry]}
  BY DEF RecordQuota
<1> HIDE DEF entry
<1> QED
  BY <1>1, <1>4, <1>5

LEMMA RetryAtNat ==
  ASSUME NEW start \in Nat, NEW date \in {start + d : d \in RetryDates} \cup {None},
         NEW h \in Headers(start)
  PROVE  RetryAt(start, date, h) \in Nat
<1>1. \A a, b \in Nat : Larger(a, b) \in Nat /\ Smaller(a, b) \in Nat
  BY DEF Larger, Smaller
<1>2. /\ MinDelay \in Nat /\ DefaultDelay \in Nat /\ MaxDelay \in Nat
      /\ date \in Nat \cup {None}
  BY OutboxAssumption
<1>3. h.reset \in Nat \cup {None}
  BY HeadersType
<1>4. start + MaxDelay \in Nat /\ start + MinDelay \in Nat /\ start + DefaultDelay \in Nat
  BY <1>2
<1> DEFINE dated == IF date = None THEN start ELSE Smaller(start + MaxDelay, date)
           gated == IF h.remaining = 0 /\ h.reset # None THEN h.reset ELSE start
<1>5. dated \in Nat /\ gated \in Nat
  BY <1>1, <1>2, <1>3, <1>4
<1>6. RetryAt(start, date, h)
        \in {start + DefaultDelay, Larger(start + MinDelay, Larger(dated, gated))}
  BY DEF RetryAt
<1> HIDE DEF dated, gated
<1>7. Larger(start + MinDelay, Larger(dated, gated)) \in Nat
  BY <1>1, <1>4, <1>5, Zenon
<1>8. start + DefaultDelay \in Nat
  BY <1>4
<1> QED
  BY <1>6, <1>7, <1>8, Zenon

LEMMA RetryTimeNat ==
  ASSUME NEW start \in Nat, NEW t \in Nat, NEW after \in RetryAfters \cup {None},
         NEW date \in {start + d : d \in RetryDates} \cup {None}, NEW h \in Headers(start)
  PROVE  RetryTime(start, t, after, date, h) \in Nat
<1>1. \A a, b \in Nat : Larger(a, b) \in Nat /\ Smaller(a, b) \in Nat
  BY DEF Larger, Smaller
<1>2. /\ MinDelay \in Nat /\ DefaultDelay \in Nat /\ MaxDelay \in Nat
      /\ after \in Nat \cup {None} /\ date \in Nat \cup {None}
  BY OutboxAssumption
<1>3. h.reset \in Nat \cup {None}
  BY HeadersType
<1>4. RetryAt(start, date, h) \in Nat
  BY RetryAtNat
<1> DEFINE hint == IF after # None THEN t + Smaller(after, MaxDelay) ELSE RetryAt(start, date, h)
           bounded == Smaller(Larger(hint, t + MinDelay), t + MaxDelay)
<1>5. hint \in Nat
  <2>1. after # None => Smaller(after, MaxDelay) \in Nat
    BY <1>1, <1>2
  <2>2. after # None => t + Smaller(after, MaxDelay) \in Nat
    BY <2>1
  <2> QED
    BY <1>4, <2>2
<1>6. t + MinDelay \in Nat /\ t + MaxDelay \in Nat
  BY <1>2
<1>7. bounded \in Nat
  <2> HIDE DEF hint
  <2> QED
    BY <1>1, <1>5, <1>6
<1>8. RetryTime(start, t, after, date, h)
        = IF h.remaining = 0 /\ h.reset # None THEN Larger(bounded, h.reset) ELSE bounded
  BY DEF RetryTime
<1> HIDE DEF bounded
<1> QED
  BY <1>1, <1>3, <1>7, <1>8

-----------------------------------------------------------------------------
(* Calls *)

\* What holds when a process calls the provider.
LEMMA CallFacts ==
  ASSUME TypeOK, NEW i \in Ids, NEW start, NEW end, Calls(i, start, end)
  PROVE  /\ outbox[i] \in Event /\ outbox[i].status = "pending"
         /\ outbox[i].next \in Parts /\ outbox[i].next < Total(outbox[i])
         /\ Valid(outbox[i])
         /\ start \in Nat /\ end \in Nat /\ now' = end
         /\ call' \in [id: Ids, part: Parts, start: Nat]
<1>1. outbox[i] \in Event
  BY DEF TypeOK
<1>2. i \in Pending
  BY DEF Calls, Selected, Candidates
<1>3. Valid(outbox[i])
  BY <1>2 DEF Calls, Poison
<1>4. outbox[i].next \in Parts /\ outbox[i].next < Total(outbox[i])
  BY <1>1, <1>3, Constants DEF Valid, Total, Parts, Event
<1>5. DueNow(i) \in Nat
  BY <1>1, DueNat DEF DueNow, TypeOK
<1>6. start \in Nat
  BY <1>5, OutboxAssumption DEF Calls, StartTimes, TypeOK
<1>7. end \in Nat
  BY <1>6, OutboxAssumption DEF Calls, EndTimes
<1> QED
  BY <1>1, <1>2, <1>3, <1>4, <1>6, <1>7 DEF Calls, Pending

LEMMA OvertakingType ==
  ASSUME TypeOK, NEW i \in Ids, NEW start, NEW end, CountOvertaking(i, start, end)
  PROVE  overtaken' \in [Ids -> Nat]
BY DEF CountOvertaking, TypeOK

-----------------------------------------------------------------------------
(* Types of the events a call leaves *)

LEMMA CountedType ==
  ASSUME NEW e \in Event, e.next \in Parts
  PROVE  /\ [e EXCEPT !.attempts[e.next] = @ + 1] \in Event
         /\ [e EXCEPT !.deferrals[e.next] = @ + 1] \in Event
         /\ [e EXCEPT !.attempts[e.next] = @ + 1, !.next = @ + 1] \in Event
<1> DEFINE attempts == [e.attempts EXCEPT ![e.next] = @ + 1]
           deferrals == [e.deferrals EXCEPT ![e.next] = @ + 1]
<1>1. e.next \in Nat /\ e.attempts \in [Parts -> Nat] /\ e.deferrals \in [Parts -> Nat]
  BY DEF Event
<1>2. attempts \in [Parts -> Nat] /\ deferrals \in [Parts -> Nat]
  BY <1>1
<1>3. /\ [e EXCEPT !.attempts[e.next] = @ + 1] = [e EXCEPT !.attempts = attempts]
      /\ [e EXCEPT !.deferrals[e.next] = @ + 1] = [e EXCEPT !.deferrals = deferrals]
      /\ [e EXCEPT !.attempts[e.next] = @ + 1, !.next = @ + 1]
            = [e EXCEPT !.attempts = attempts, !.next = e.next + 1]
  BY DEF Event
<1> HIDE DEF attempts, deferrals
<1>4. [e EXCEPT !.attempts = attempts] \in Event
  BY <1>2 DEF Event
<1>5. [e EXCEPT !.deferrals = deferrals] \in Event
  BY <1>2 DEF Event
<1>6. [e EXCEPT !.attempts = attempts, !.next = e.next + 1] \in Event
  <2>1. e.next + 1 \in Nat
    BY <1>1
  <2>2. ASSUME NEW f \in Event, NEW n \in Nat PROVE [f EXCEPT !.next = n] \in Event
    BY <2>2 DEF Event
  <2>3. [[e EXCEPT !.attempts = attempts] EXCEPT !.next = e.next + 1] \in Event
    BY <1>4, <2>1, <2>2
  <2> QED
    BY <2>3 DEF Event
<1> QED
  BY <1>3, <1>4, <1>5, <1>6

LEMMA SettledType ==
  ASSUME NEW e \in Event, NEW t \in Nat
  PROVE  /\ DeadLetter(e, t) \in Event
         /\ [e EXCEPT !.due = Iso(t)] \in Event
         /\ [e EXCEPT !.status = "delivered", !.completed = Iso(t), !.due = 0] \in Event
         /\ [e EXCEPT !.status = "pruned"] \in Event
BY DEF Event, DeadLetter, Iso

LEMMA AbsentType == Absent \in Event /\ NoCounts \in [Parts -> Nat]
<1>1. NoCounts \in [Parts -> Nat]
  BY DEF NoCounts
<1>2. (CHOOSE t \in Tents : TRUE) \in Tents
  BY OutboxAssumption
<1> QED
  BY <1>1, <1>2 DEF Absent, Event, Kinds

LEMMA QuarantinedType ==
  ASSUME NEW e, NEW t \in Nat
  PROVE  Quarantined(e, t) \in Event
BY AbsentType DEF Quarantined, Event, Iso, Kinds

LEMMA PrunedType ==
  ASSUME NEW ob \in [Ids -> Event], NEW pruned \in Pruned(ob)
  PROVE  /\ pruned \in [Ids -> Event]
         /\ \A j \in Ids : \/ pruned[j] = ob[j]
                          \/ /\ ob[j].status = "delivered"
                             /\ pruned[j] = [ob[j] EXCEPT !.status = "pruned"]
<1> DEFINE delivered == {j \in Ids : ob[j].status = "delivered"}
<1>1. PICK kept \in SUBSET delivered :
        pruned = [j \in Ids |-> IF j \in delivered \ kept
                                THEN [ob[j] EXCEPT !.status = "pruned"] ELSE ob[j]]
  BY DEF Pruned
<1>2. \A j \in Ids : [ob[j] EXCEPT !.status = "pruned"] \in Event
  BY SettledType
<1> QED
  BY <1>1, <1>2

-----------------------------------------------------------------------------
(* Every answer keeps the types *)

AnswerType == /\ outbox' \in [Ids -> Event]
              /\ pushover_quota' \in [Kinds -> Quota]
              /\ acked' \in [Ids -> Seq(Parts)]
              /\ last_ack' \in [Ids -> Nat]

\* The event an accepted part leaves behind.
Advanced(e, end) ==
  LET counted == [e EXCEPT !.attempts[e.next] = @ + 1, !.next = @ + 1]
  IN  IF counted.next >= Total(e)
      THEN [counted EXCEPT !.status = "delivered", !.completed = Iso(end), !.due = 0]
      ELSE [counted EXCEPT !.due = Iso(end + Gaps[counted.next])]

LEMMA AdvancedType ==
  ASSUME NEW e \in Event, NEW end \in Nat, e.next \in Parts
  PROVE  Advanced(e, end) \in Event
<1> DEFINE counted == [e EXCEPT !.attempts[e.next] = @ + 1, !.next = @ + 1]
<1>1. counted \in Event
  BY CountedType
<1>2. counted.next = e.next + 1 /\ e.next \in Nat
  BY DEF Event
<1>3. Total(e) <= Len(Gaps) + 1 /\ Total(e) \in Nat
  BY Constants DEF Total
<1>4. CASE counted.next >= Total(e)
  <2>1. Advanced(e, end)
          = [counted EXCEPT !.status = "delivered", !.completed = Iso(end), !.due = 0]
    BY <1>4, Zenon DEF Advanced
  <2> HIDE DEF counted
  <2>2. [counted EXCEPT !.status = "delivered", !.completed = Iso(end), !.due = 0] \in Event
    BY <1>1 DEF Event, Iso
  <2> QED
    BY <2>1, <2>2, Zenon
<1>5. CASE ~(counted.next >= Total(e))
  <2>1. counted.next \in 1..Len(Gaps)
    BY <1>2, <1>3, <1>5, Constants
  <2>2. end + Gaps[counted.next] \in Nat
    BY <2>1, Constants
  <2>3. Advanced(e, end) = [counted EXCEPT !.due = Iso(end + Gaps[counted.next])]
    BY <1>5, Zenon DEF Advanced
  <2> HIDE DEF counted
  <2>4. [counted EXCEPT !.due = Iso(end + Gaps[counted.next])] \in Event
    BY <1>1, <2>2 DEF Event, Iso
  <2> QED
    BY <2>3, <2>4, Zenon
<1> QED
  BY <1>4, <1>5

LEMMA AcceptedType ==
  ASSUME TypeOK, NEW i \in Ids, NEW start, NEW end, PartAccepted(i, start, end)
  PROVE  AnswerType
<1>1. outbox[i] \in Event /\ outbox[i].next \in Parts /\ start \in Nat /\ end \in Nat
  BY CallFacts DEF PartAccepted
<1>2. Advanced(outbox[i], end) \in Event
  BY <1>1, AdvancedType
<1>3. outbox' \in Pruned([outbox EXCEPT ![i] = Advanced(outbox[i], end)])
  BY DEF PartAccepted, Advanced
<1>4. [outbox EXCEPT ![i] = Advanced(outbox[i], end)] \in [Ids -> Event]
  BY <1>2 DEF TypeOK
<1>5. outbox' \in [Ids -> Event]
  BY <1>3, <1>4, PrunedType
<1>6. PICK h \in Headers(start) :
        pushover_quota' = RecordQuota(outbox[i].kind, h.remaining, h.reset, end)
  BY DEF PartAccepted
<1>7. pushover_quota' \in [Kinds -> Quota]
  BY <1>1, <1>6, HeadersType, RecordQuotaType DEF Event
<1>8. acked' \in [Ids -> Seq(Parts)] /\ last_ack' \in [Ids -> Nat]
  BY <1>1 DEF PartAccepted, TypeOK
<1> QED
  BY <1>5, <1>7, <1>8 DEF AnswerType

LEMMA UpdateType ==
  ASSUME TypeOK, NEW i \in Ids, NEW e \in Event, outbox' = [outbox EXCEPT ![i] = e]
  PROVE  outbox' \in [Ids -> Event]
BY DEF TypeOK

\* The event a 429 leaves behind, and one another failure leaves behind.
Deferred(e, end, retry) ==
  LET counted == [e EXCEPT !.deferrals[e.next] = @ + 1]
  IN  IF counted.deferrals[e.next] >= MaxDeferrals THEN DeadLetter(counted, end)
      ELSE [counted EXCEPT !.due = Iso(retry)]

Retried(e, end, terminal) ==
  LET counted == [e EXCEPT !.attempts[e.next] = @ + 1]
      attempt == counted.attempts[e.next]
  IN  IF terminal \/ attempt >= MaxAttempts THEN DeadLetter(counted, end)
      ELSE [counted EXCEPT !.due = Iso(end + Backoff[attempt])]

\* Neither moves the cursor; each is settled, or has spent one unit of its budget.
Unsettled(old, new) ==
  /\ new \in Event
  /\ new.next = old.next /\ new.sanitized = old.sanitized /\ new.burst = old.burst
  /\ \/ new.status = "dead_letter"
     \/ /\ new.status = old.status
        /\ \/ /\ new.attempts = old.attempts
              /\ new.deferrals = [old.deferrals EXCEPT ![old.next] = @ + 1]
              /\ new.deferrals[old.next] < MaxDeferrals
           \/ /\ new.deferrals = old.deferrals
              /\ new.attempts = [old.attempts EXCEPT ![old.next] = @ + 1]
              /\ new.attempts[old.next] < MaxAttempts

LEMMA DeadLetterFields ==
  ASSUME NEW e \in Event, NEW t \in Nat
  PROVE  /\ DeadLetter(e, t) \in Event /\ DeadLetter(e, t).status = "dead_letter"
         /\ DeadLetter(e, t).next = e.next /\ DeadLetter(e, t).sanitized = e.sanitized
         /\ DeadLetter(e, t).burst = e.burst
BY SettledType DEF DeadLetter, Event

LEMMA DueFields ==
  ASSUME NEW e \in Event, NEW t \in Nat
  PROVE  LET new == [e EXCEPT !.due = Iso(t)]
         IN  /\ new \in Event /\ new.status = e.status /\ new.next = e.next
             /\ new.sanitized = e.sanitized /\ new.burst = e.burst
             /\ new.attempts = e.attempts /\ new.deferrals = e.deferrals
BY SettledType DEF Event

LEMMA DeferredFields ==
  ASSUME NEW e \in Event, NEW end \in Nat, NEW retry \in Nat, e.next \in Parts
  PROVE  Unsettled(e, Deferred(e, end, retry))
<1> DEFINE counted == [e EXCEPT !.deferrals[e.next] = @ + 1]
<1>1. counted \in Event
  BY CountedType
<1>2. /\ counted.next = e.next /\ counted.sanitized = e.sanitized
      /\ counted.burst = e.burst
      /\ counted.status = e.status /\ counted.attempts = e.attempts
      /\ counted.deferrals = [e.deferrals EXCEPT ![e.next] = @ + 1]
  BY DEF Event
<1>3. counted.deferrals[e.next] \in Nat
  BY <1>1 DEF Event
<1>4. Deferred(e, end, retry) = IF counted.deferrals[e.next] >= MaxDeferrals
                                THEN DeadLetter(counted, end)
                                ELSE [counted EXCEPT !.due = Iso(retry)]
  BY DEF Deferred
<1> HIDE DEF counted
<1>5. CASE counted.deferrals[e.next] >= MaxDeferrals
  BY <1>1, <1>2, <1>4, <1>5, DeadLetterFields DEF Unsettled
<1>6. CASE ~(counted.deferrals[e.next] >= MaxDeferrals)
  <2>1. counted.deferrals[e.next] < MaxDeferrals
    BY <1>3, <1>6, Constants
  <2> QED
    <3> DEFINE new == [counted EXCEPT !.due = Iso(retry)]
    <3>1. /\ new \in Event /\ new.status = e.status /\ new.next = e.next
          /\ new.sanitized = e.sanitized /\ new.burst = e.burst
          /\ new.attempts = e.attempts /\ new.deferrals = counted.deferrals
      BY <1>1, <1>2, DueFields
    <3>2. Deferred(e, end, retry) = new
      BY <1>4, <1>6
    <3> HIDE DEF new
    <3> QED
      BY <1>2, <2>1, <3>1, <3>2 DEF Unsettled
<1> QED
  BY <1>5, <1>6

LEMMA RetriedFields ==
  ASSUME NEW e \in Event, NEW end \in Nat, NEW terminal \in BOOLEAN, e.next \in Parts
  PROVE  Unsettled(e, Retried(e, end, terminal))
<1> DEFINE counted == [e EXCEPT !.attempts[e.next] = @ + 1]
           attempt == counted.attempts[e.next]
<1>1. counted \in Event
  BY CountedType
<1>2. /\ counted.next = e.next /\ counted.sanitized = e.sanitized
      /\ counted.burst = e.burst
      /\ counted.status = e.status /\ counted.deferrals = e.deferrals
      /\ counted.attempts = [e.attempts EXCEPT ![e.next] = @ + 1]
  BY DEF Event
<1>3. attempt = e.attempts[e.next] + 1 /\ e.attempts[e.next] \in Nat
  BY DEF Event
<1>4. Retried(e, end, terminal) = IF terminal \/ attempt >= MaxAttempts
                                  THEN DeadLetter(counted, end)
                                  ELSE [counted EXCEPT !.due = Iso(end + Backoff[attempt])]
  BY DEF Retried
<1> HIDE DEF counted
<1>5. CASE terminal \/ attempt >= MaxAttempts
  BY <1>1, <1>2, <1>4, <1>5, DeadLetterFields DEF Unsettled
<1>6. CASE ~(terminal \/ attempt >= MaxAttempts)
  <2>1. attempt \in 1..MaxAttempts /\ attempt < MaxAttempts
    BY <1>3, <1>6, Constants
  <2>2. end + Backoff[attempt] \in Nat
    BY <2>1, Constants
  <2> QED
    <3> DEFINE new == [counted EXCEPT !.due = Iso(end + Backoff[attempt])]
    <3>1. /\ new \in Event /\ new.status = e.status /\ new.next = e.next
          /\ new.sanitized = e.sanitized /\ new.burst = e.burst
          /\ new.attempts = counted.attempts /\ new.deferrals = e.deferrals
      BY <1>1, <1>2, <2>2, DueFields
    <3>2. Retried(e, end, terminal) = new
      BY <1>4, <1>6
    <3> HIDE DEF new
    <3> QED
      BY <1>2, <2>1, <3>1, <3>2 DEF Unsettled
<1> QED
  BY <1>5, <1>6

LEMMA RateLimitedForm ==
  ASSUME TypeOK, NEW i \in Ids, NEW start, NEW end, RateLimited(i, start, end)
  PROVE  /\ \E e \in Event : outbox' = [outbox EXCEPT ![i] = e] /\ Unsettled(outbox[i], e)
         /\ pushover_quota' \in [Kinds -> Quota]
<1> DEFINE e == outbox[i]
<1>1. e \in Event /\ e.next \in Parts /\ start \in Nat /\ end \in Nat
  BY CallFacts DEF RateLimited
<1>2. PICK h \in Headers(start), after \in RetryAfters \cup {None},
           date \in {start + d : d \in RetryDates} \cup {None} :
        LET retry == RetryTime(start, end, after, date, h)
            reset == IF h.remaining = 0 /\ FutureReset(h.reset, end) = None
                     THEN NextSecond(retry) ELSE h.reset
        IN  /\ outbox' = [outbox EXCEPT ![i] = Deferred(e, end, retry)]
            /\ pushover_quota' = IF h.remaining = None THEN pushover_quota
                                 ELSE RecordQuota(e.kind, h.remaining, reset, end)
  BY DEF RateLimited, Deferred
<1> DEFINE retry == RetryTime(start, end, after, date, h)
           reset == IF h.remaining = 0 /\ FutureReset(h.reset, end) = None
                    THEN NextSecond(retry) ELSE h.reset
<1>3. retry \in Nat
  BY <1>1, RetryTimeNat
<1>4. reset \in Nat \cup {None}
  <2> HIDE DEF retry
  <2> QED
    BY <1>1, <1>3, NextSecondNat, HeadersType
<1>5. Unsettled(e, Deferred(e, end, retry)) /\ outbox' = [outbox EXCEPT ![i] = Deferred(e, end, retry)]
  <2>1. outbox' = [outbox EXCEPT ![i] = Deferred(e, end, retry)]
    BY <1>2
  <2> HIDE DEF retry
  <2> QED
    BY <1>1, <1>3, <2>1, DeferredFields
<1>6. pushover_quota' \in [Kinds -> Quota]
  <2>1. \/ pushover_quota' = pushover_quota
        \/ pushover_quota' = RecordQuota(e.kind, h.remaining, reset, end)
    BY <1>2
  <2>2. h.remaining \in Nat \cup {None} /\ e.kind \in Kinds
    BY <1>1, HeadersType DEF Event
  <2> HIDE DEF reset, e
  <2>3. RecordQuota(e.kind, h.remaining, reset, end) \in [Kinds -> Quota]
    BY <1>1, <1>4, <2>2, RecordQuotaType
  <2> QED
    BY <2>1, <2>3 DEF TypeOK
<1> QED
  BY <1>5, <1>6 DEF Unsettled

LEMMA RateLimitedType ==
  ASSUME TypeOK, NEW i \in Ids, NEW start, NEW end, RateLimited(i, start, end)
  PROVE  AnswerType
BY RateLimitedForm, UpdateType DEF AnswerType, RateLimited, TypeOK

LEMMA AcceptsType ==
  ASSUME TypeOK, NEW i \in Ids, outbox[i].next \in Parts, Accepts(i)
  PROVE  acked' \in [Ids -> Seq(Parts)]
BY DEF TypeOK, Accepts

LEMMA MaybeType ==
  ASSUME TypeOK, NEW i \in Ids, outbox[i].next \in Parts, MaybeAccepts(i)
  PROVE  acked' \in [Ids -> Seq(Parts)] /\ unread' \in Nat
BY AcceptsType DEF TypeOK, MaybeAccepts

LEMMA FailedForm ==
  ASSUME TypeOK, NEW i \in Ids, NEW start, NEW end, SendFailed(i, start, end)
  PROVE  \E e \in Event : outbox' = [outbox EXCEPT ![i] = e] /\ Unsettled(outbox[i], e)
<1>1. outbox[i] \in Event /\ outbox[i].next \in Parts /\ end \in Nat
  BY CallFacts DEF SendFailed
<1>2. PICK terminal \in BOOLEAN :
        outbox' = [outbox EXCEPT ![i] = Retried(outbox[i], end, terminal)]
  BY DEF SendFailed, Retried
<1>3. Unsettled(outbox[i], Retried(outbox[i], end, terminal))
  BY <1>1, RetriedFields
<1> QED
  BY <1>2, <1>3 DEF Unsettled

LEMMA FailedType ==
  ASSUME TypeOK, NEW i \in Ids, NEW start, NEW end, SendFailed(i, start, end)
  PROVE  AnswerType
<1>1. outbox' \in [Ids -> Event] /\ acked' \in [Ids -> Seq(Parts)]
  BY FailedForm, UpdateType, MaybeType, CallFacts DEF SendFailed
<1> QED
  BY <1>1 DEF AnswerType, SendFailed, TypeOK

LEMMA RaisedType ==
  ASSUME TypeOK, NEW i \in Ids, NEW start, NEW end, SenderRaised(i, start, end)
  PROVE  AnswerType
<1>1. end \in Nat
  BY CallFacts DEF SenderRaised
<1>2. outbox' \in [Ids -> Event] /\ acked' \in [Ids -> Seq(Parts)]
  BY <1>1, QuarantinedType, UpdateType, MaybeType, CallFacts DEF SenderRaised
<1> QED
  BY <1>2 DEF AnswerType, SenderRaised, TypeOK

-----------------------------------------------------------------------------
(* Type correctness *)

THEOREM TypeInit == Init => TypeOK
BY AbsentType, OutboxAssumption DEF Init, TypeOK, Quota, Kinds

LEMMA TypeAnswered ==
  ASSUME TypeOK, NEW i \in Ids, NEW start, NEW end, Answered(i, start, end)
  PROVE  TypeOK'
<1>1. AnswerType
  BY AcceptedType, RateLimitedType, FailedType, RaisedType DEF Answered
<1>2. /\ Calls(i, start, end) /\ CountOvertaking(i, start, end)
      /\ UNCHANGED <<enabled, kills, requeues, deployments>>
      /\ unread' = unread \/ MaybeAccepts(i)
  BY DEF Answered, PartAccepted, RateLimited, SendFailed, SenderRaised, env
<1>3. now' \in Nat /\ call' \in [id: Ids, part: Parts, start: Nat] /\ unread' \in Nat
  BY <1>2, CallFacts, MaybeType DEF TypeOK
<1>4. overtaken' \in [Ids -> Nat]
  BY <1>2, OvertakingType
<1> QED
  BY <1>1, <1>2, <1>3, <1>4 DEF TypeOK, AnswerType, env

LEMMA TypeKilled ==
  ASSUME TypeOK, NEW i \in Ids, NEW start, NEW end, KilledMidCall(i, start, end)
  PROVE  TypeOK'
<1>1. now' \in Nat /\ call' \in [id: Ids, part: Parts, start: Nat]
  BY CallFacts DEF KilledMidCall
<1>2. overtaken' \in [Ids -> Nat]
  BY OvertakingType DEF KilledMidCall
<1>3. acked' \in [Ids -> Seq(Parts)]
  BY CallFacts, AcceptsType DEF KilledMidCall, TypeOK
<1>4. /\ kills' = kills + 1 /\ outbox' = outbox /\ pushover_quota' = pushover_quota
      /\ enabled' = enabled /\ requeues' = requeues /\ deployments' = deployments
      /\ unread' = unread /\ last_ack' = last_ack
  BY DEF KilledMidCall
<1> QED
  BY <1>1, <1>2, <1>3, <1>4 DEF TypeOK

LEMMA TypeQuarantine ==
  ASSUME TypeOK, NEW i \in Ids, QuarantinePoison(i)
  PROVE  TypeOK'
<1>1. outbox' \in [Ids -> Event]
  BY QuarantinedType, UpdateType DEF QuarantinePoison, TypeOK
<1> QED
  BY <1>1 DEF TypeOK, QuarantinePoison, env

LEMMA TypeEnqueue ==
  ASSUME TypeOK, NEW i \in Ids, NEW kind \in Kinds, NEW tent \in Tents,
         NEW burst \in BOOLEAN, Enqueue(i, kind, tent, burst)
  PROVE  TypeOK'
<1> DEFINE e == [Absent EXCEPT !.status = "pending", !.kind = kind, !.tent = tent,
                               !.burst = burst, !.created = WholeSecond(now),
                               !.due = WholeSecond(now)]
<1>1. WholeSecond(now) \in Nat
  BY WholeSecondNat DEF TypeOK
<1>2. e \in Event
  BY <1>1, AbsentType DEF Event, Absent
<1>3. outbox' \in [Ids -> Event]
  BY <1>2, UpdateType DEF Enqueue
<1> QED
  BY <1>3 DEF TypeOK, Enqueue, env

LEMMA TypeRequeue ==
  ASSUME TypeOK, NEW i \in Ids, Requeue(i)
  PROVE  TypeOK'
<1> DEFINE e == outbox[i]
           new == [e EXCEPT !.status = "pending", !.completed = None,
                            !.due = WholeSecond(now),
                            !.attempts[e.next] = 0, !.deferrals[e.next] = 0]
<1>1. WholeSecond(now) \in Nat /\ e \in Event
  BY WholeSecondNat DEF TypeOK
<1> DEFINE attempts == [e.attempts EXCEPT ![e.next] = 0]
           deferrals == [e.deferrals EXCEPT ![e.next] = 0]
<1>2. attempts \in [Parts -> Nat] /\ deferrals \in [Parts -> Nat]
  BY <1>1 DEF Event
<1>3. new = [e EXCEPT !.status = "pending", !.completed = None, !.due = WholeSecond(now),
                      !.attempts = attempts, !.deferrals = deferrals]
  BY <1>1 DEF Event
<1>4. new \in Event
  <2> HIDE DEF attempts, deferrals
  <2> QED
    BY <1>1, <1>2, <1>3 DEF Event
<1>5. outbox' \in [Ids -> Event]
  BY <1>4, UpdateType DEF Requeue
<1> QED
  BY <1>5 DEF TypeOK, Requeue

THEOREM TypeNext == TypeOK /\ [Next]_vars => TypeOK'
<1> SUFFICES ASSUME TypeOK, [Next]_vars PROVE TypeOK'
  OBVIOUS
<1>1. CASE UNCHANGED vars
  BY <1>1 DEF vars, env, TypeOK
<1>2. CASE Deliver
  BY <1>2, TypeQuarantine, TypeAnswered DEF Deliver, Selected, Candidates, Pending
<1>3. CASE \E i \in Selected : \E start \in StartTimes(i) : \E end \in EndTimes(start) :
             KilledMidCall(i, start, end)
  BY <1>3, TypeKilled DEF Selected, Candidates, Pending
<1>4. CASE \E i \in Ids, kind \in Kinds, tent \in Tents, burst \in BOOLEAN :
             Enqueue(i, kind, tent, burst)
  BY <1>4, TypeEnqueue
<1>5. CASE \E i \in Ids : Requeue(i)
  BY <1>5, TypeRequeue
<1>6. CASE \E tents \in SUBSET Tents : Deploy(tents)
  BY <1>6 DEF Deploy, TypeOK
<1>7. CASE Tick
  BY <1>7 DEF Tick, TypeOK, env
<1> QED
  BY <1>1, <1>2, <1>3, <1>4, <1>5, <1>6, <1>7 DEF Next

\* TypeOK: for any gaps, budgets, delays and provider answers.
THEOREM TypeCorrect == Spec => []TypeOK
BY TypeInit, TypeNext, PTL DEF Spec

-----------------------------------------------------------------------------
(* Cursor, accepted parts and status agree *)

\* The accepted parts of a message of total parts with its cursor at next.
InOrder(parts, next, total) ==
  /\ \A p \in 0..(next - 1) : \E k \in 1..Len(parts) : parts[k] = p
  /\ \A k \in 1..Len(parts) : parts[k] <= next /\ parts[k] < total
  /\ \A k, l \in 1..Len(parts) : k <= l => parts[k] <= parts[l]

Agree(e, parts, faults) ==
  /\ ~e.sanitized => InOrder(parts, e.next, Total(e)) /\ Len(parts) <= e.next + faults
  /\ e.status \in {"delivered", "pruned"} => e.next = Total(e)
  /\ e.status = "absent" => e.next = 0 /\ ~e.sanitized /\ parts = <<>>

Faults == kills + unread

\* Inductive: both properties follow from it, event by event.
Agreement == \A i \in Ids : Agree(outbox[i], acked[i], Faults)

LEMMA FaultsInt == TypeOK => Faults \in Nat
BY DEF TypeOK, Faults

\* A fault more does not hurt.
LEMMA MoreFaults ==
  ASSUME NEW e \in Event, NEW parts \in Seq(Parts), NEW f \in Nat, NEW g \in Nat, f <= g,
         Agree(e, parts, f)
  PROVE  Agree(e, parts, g)
<1>1. e.next \in Nat /\ Len(parts) \in Nat
  BY DEF Event
<1>2. Len(parts) <= e.next + f => Len(parts) <= e.next + g
  BY <1>1
<1> QED
  BY <1>2, Zenon DEF Agree

\* The part at the cursor is accepted, and the cursor passes it or does not.
LEMMA AppendInOrder ==
  ASSUME NEW parts \in Seq(Parts), NEW n \in Nat, NEW total \in Nat, n \in Parts, n < total,
         InOrder(parts, n, total), NEW m \in {n, n + 1}
  PROVE  /\ InOrder(Append(parts, n), m, total)
         /\ Len(Append(parts, n)) = Len(parts) + 1
<1> DEFINE new == Append(parts, n)
<1>1. /\ Len(parts) \in Nat /\ Len(new) = Len(parts) + 1
      /\ \A k \in 1..Len(parts) : new[k] = parts[k] /\ parts[k] \in Nat
      /\ new[Len(parts) + 1] = n
  BY DEF Parts
<1> HIDE DEF new
<1>2. ASSUME NEW p \in 0..(m - 1) PROVE \E k \in 1..Len(new) : new[k] = p
  <2>1. CASE p = n
    BY <1>1, <2>1
  <2>2. CASE p # n
    <3>1. p \in 0..(n - 1)
      BY <1>2, <2>2
    <3>2. PICK k \in 1..Len(parts) : parts[k] = p
      BY <3>1 DEF InOrder
    <3> QED
      BY <1>1, <3>2
  <2> QED
    BY <2>1, <2>2
<1>3. ASSUME NEW k \in 1..Len(new) PROVE new[k] <= n /\ new[k] < total /\ new[k] \in Nat
  <2>1. CASE k = Len(parts) + 1
    BY <1>1, <2>1
  <2>2. CASE k # Len(parts) + 1
    <3>1. k \in 1..Len(parts)
      BY <1>1, <1>3, <2>2
    <3>2. new[k] = parts[k] /\ parts[k] \in Nat
      BY <1>1, <3>1
    <3>3. parts[k] <= n /\ parts[k] < total
      BY <3>1, Zenon DEF InOrder
    <3> QED
      BY <3>2, <3>3
  <2> QED
    BY <2>1, <2>2
<1>4. ASSUME NEW k \in 1..Len(new), NEW l \in 1..Len(new), k <= l PROVE new[k] <= new[l]
  <2>1. CASE l = Len(parts) + 1
    BY <1>1, <1>3, <2>1
  <2>2. CASE l # Len(parts) + 1
    <3>1. k \in 1..Len(parts) /\ l \in 1..Len(parts)
      BY <1>1, <1>4, <2>2
    <3> QED
      BY <1>1, <1>4, <3>1 DEF InOrder
  <2> QED
    BY <2>1, <2>2
<1>5. \A k \in 1..Len(new) : new[k] <= m /\ new[k] < total
  BY <1>3
<1>6. InOrder(new, m, total)
  BY <1>2, <1>4, <1>5 DEF InOrder
<1> QED
  BY <1>1, <1>6 DEF new

\* A call that is not acknowledged: every part it adds is paid for by a fault.
Unacknowledged(i) ==
  /\ Faults' \in Nat
  /\ \/ acked' = acked /\ Faults <= Faults'
     \/ Accepts(i) /\ Faults + 1 <= Faults'

LEMMA UnacknowledgedAgrees ==
  ASSUME TypeOK, Agreement, NEW i \in Ids, outbox[i].next \in Parts,
         outbox[i].next < Total(outbox[i]), outbox[i].status = "pending", Unacknowledged(i)
  PROVE  \A j \in Ids : Agree(outbox[j], acked'[j], Faults')
<1>1. /\ Faults \in Nat /\ Faults' \in Nat /\ Faults <= Faults'
  BY FaultsInt DEF Unacknowledged
<1>2. \A j \in Ids : outbox[j] \in Event /\ acked[j] \in Seq(Parts) /\ Agree(outbox[j], acked[j], Faults)
  BY DEF TypeOK, Agreement
<1>3. ASSUME NEW j \in Ids, acked'[j] = acked[j] PROVE Agree(outbox[j], acked'[j], Faults')
  BY <1>1, <1>2, <1>3, MoreFaults
<1>4. CASE acked' = acked
  BY <1>3, <1>4
<1>5. CASE Accepts(i) /\ Faults + 1 <= Faults'
  <2> DEFINE e == outbox[i]
  <2>1. acked'[i] = Append(acked[i], e.next) /\ \A j \in Ids \ {i} : acked'[j] = acked[j]
    BY <1>5 DEF Accepts, TypeOK
  <2>2. e.next \in Nat /\ Total(e) \in Nat
    BY <1>2, Constants DEF Event, Total
  <2>3. ASSUME ~e.sanitized
        PROVE  InOrder(acked'[i], e.next, Total(e)) /\ Len(acked'[i]) <= e.next + Faults'
    <3>1. InOrder(acked[i], e.next, Total(e)) /\ Len(acked[i]) <= e.next + Faults
      BY <1>2, <2>3 DEF Agree
    <3>2. InOrder(acked'[i], e.next, Total(e)) /\ Len(acked'[i]) = Len(acked[i]) + 1
      BY <1>2, <2>1, <2>2, <3>1, AppendInOrder
    <3>3. Len(acked[i]) \in Nat
      BY <1>2
    <3> QED
      BY <1>1, <1>5, <2>2, <3>1, <3>2, <3>3
  <2>4. Agree(e, acked'[i], Faults')
    BY <1>2, <2>3 DEF Agree
  <2> QED
    BY <1>3, <2>1, <2>4
<1> QED
  BY <1>4, <1>5 DEF Unacknowledged

\* A step that rewrites one event without moving its cursor keeps the agreement.
LEMMA SameCursor ==
  ASSUME TypeOK, NEW i \in Ids, NEW e \in Event,
         \A j \in Ids : Agree(outbox[j], acked'[j], Faults'),
         outbox' = [outbox EXCEPT ![i] = e],
         e.next = outbox[i].next, e.sanitized = outbox[i].sanitized, e.burst = outbox[i].burst,
         e.status \notin {"delivered", "pruned", "absent"}
  PROVE  Agreement'
<1>1. outbox'[i] = e /\ \A j \in Ids \ {i} : outbox'[j] = outbox[j]
  BY DEF TypeOK
<1>2. Total(e) = Total(outbox[i])
  BY DEF Total
<1>3. Agree(e, acked'[i], Faults')
  BY <1>2, Zenon DEF Agree
<1>4. \A j \in Ids : Agree(outbox'[j], acked'[j], Faults')
  BY <1>1, <1>3
<1> QED
  BY <1>4 DEF Agreement

\* A quarantined event promises nothing.
LEMMA QuarantinedAgrees ==
  ASSUME TypeOK, NEW i \in Ids, NEW t \in Nat,
         \A j \in Ids : Agree(outbox[j], acked'[j], Faults'),
         outbox' = [outbox EXCEPT ![i] = Quarantined(outbox[i], t)]
  PROVE  Agreement'
<1> DEFINE e == Quarantined(outbox[i], t)
<1>1. e.sanitized /\ e.status = "dead_letter"
  BY DEF Quarantined, Absent
<1>2. outbox'[i] = e /\ \A j \in Ids \ {i} : outbox'[j] = outbox[j]
  BY DEF TypeOK
<1> HIDE DEF e
<1>3. Agree(e, acked'[i], Faults')
  BY <1>1 DEF Agree
<1>4. \A j \in Ids : Agree(outbox'[j], acked'[j], Faults')
  BY <1>2, <1>3
<1> QED
  BY <1>4 DEF Agreement

\* What an accepted part changes in its event.
LEMMA AdvancedFields ==
  ASSUME NEW e \in Event, NEW end \in Nat, e.next \in Parts, e.next < Total(e)
  PROVE  LET new == Advanced(e, end)
         IN  /\ new.next = e.next + 1 /\ new.sanitized = e.sanitized
             /\ new.burst = e.burst
             /\ (new.status = "delivered" /\ new.next = Total(e)) \/ new.status = e.status
<1> DEFINE counted == [e EXCEPT !.attempts[e.next] = @ + 1, !.next = @ + 1]
<1>1. /\ counted.next = e.next + 1 /\ counted.sanitized = e.sanitized
      /\ counted.burst = e.burst /\ counted.status = e.status
  BY DEF Event
<1>2. counted \in Event
  BY CountedType
<1>3. e.next \in Nat /\ Total(e) \in Nat
  BY Constants DEF Event, Total
<1>4. CASE counted.next >= Total(e)
  <2>1. Advanced(e, end)
          = [counted EXCEPT !.status = "delivered", !.completed = Iso(end), !.due = 0]
    BY <1>4, Zenon DEF Advanced
  <2>2. counted.next = Total(e)
    BY <1>1, <1>3, <1>4
  <2> HIDE DEF counted
  <2> QED
    BY <1>1, <1>2, <2>1, <2>2 DEF Event
<1>5. CASE ~(counted.next >= Total(e))
  <2>1. Advanced(e, end) = [counted EXCEPT !.due = Iso(end + Gaps[counted.next])]
    BY <1>5, Zenon DEF Advanced
  <2> HIDE DEF counted
  <2> QED
    BY <1>1, <1>2, <2>1 DEF Event
<1> QED
  BY <1>4, <1>5

LEMMA AcceptedAgrees ==
  ASSUME TypeOK, Agreement, NEW i \in Ids, NEW start, NEW end, PartAccepted(i, start, end)
  PROVE  Agreement'
<1> DEFINE e == outbox[i]
           new == Advanced(e, end)
           ob == [outbox EXCEPT ![i] = new]
<1>1. /\ e \in Event /\ e.next \in Parts /\ e.next < Total(e) /\ e.next \in Nat
      /\ e.status = "pending" /\ end \in Nat
  BY CallFacts DEF PartAccepted, Event
<1>2. /\ new \in Event
      /\ new.next = e.next + 1 /\ new.sanitized = e.sanitized /\ new.burst = e.burst
      /\ (new.status = "delivered" /\ new.next = Total(e)) \/ new.status = e.status
  BY <1>1, AdvancedType, AdvancedFields
<1>3. acked' = [acked EXCEPT ![i] = Append(@, e.next)]
  BY DEF PartAccepted
<1>4. acked'[i] = Append(acked[i], e.next) /\ \A j \in Ids \ {i} : acked'[j] = acked[j]
  BY <1>3 DEF TypeOK
<1>f. Faults' = Faults /\ Faults \in Nat
  BY FaultsInt DEF PartAccepted, env, Faults
<1>5. Agree(new, acked'[i], Faults)
  <2>1. Total(new) = Total(e) /\ Total(e) \in Nat
    BY <1>2, Constants DEF Total
  <2>2. acked[i] \in Seq(Parts) /\ Len(acked[i]) \in Nat
    BY DEF TypeOK
  <2>3. ASSUME ~new.sanitized
        PROVE  /\ InOrder(acked'[i], new.next, Total(e))
               /\ Len(acked'[i]) <= new.next + Faults
    <3>1. InOrder(acked[i], e.next, Total(e)) /\ Len(acked[i]) <= e.next + Faults
      BY <1>2, <2>3 DEF Agreement, Agree
    <3>2. InOrder(acked'[i], e.next + 1, Total(e)) /\ Len(acked'[i]) = Len(acked[i]) + 1
      BY <1>1, <1>4, <2>1, <2>2, <3>1, AppendInOrder
    <3> QED
      BY <1>1, <1>2, <1>f, <2>2, <3>1, <3>2
  <2> HIDE DEF e
  <2> QED
    BY <1>1, <1>2, <2>1, <2>3 DEF Agree
<1>6. ob \in [Ids -> Event] /\ ob[i] = new /\ \A j \in Ids \ {i} : ob[j] = outbox[j]
  BY <1>2 DEF TypeOK
<1>7. outbox' \in Pruned(ob)
  BY DEF PartAccepted, Advanced
<1>8. \A j \in Ids : Agree(ob[j], acked'[j], Faults)
  <2> HIDE DEF ob, new
  <2> QED
    BY <1>4, <1>5, <1>6 DEF Agreement
<1>9. ASSUME NEW j \in Ids PROVE Agree(outbox'[j], acked'[j], Faults)
  <2> HIDE DEF ob
  <2>1. \/ outbox'[j] = ob[j]
        \/ /\ ob[j].status = "delivered"
           /\ outbox'[j] = [ob[j] EXCEPT !.status = "pruned"]
    BY <1>6, <1>7, PrunedType
  <2>2. ob[j] \in Event /\ Agree(ob[j], acked'[j], Faults)
    BY <1>6, <1>8
  <2>3. CASE outbox'[j] = ob[j]
    BY <2>2, <2>3
  <2>4. CASE /\ ob[j].status = "delivered"
             /\ outbox'[j] = [ob[j] EXCEPT !.status = "pruned"]
    <3>1. /\ outbox'[j].status = "pruned" /\ outbox'[j].next = ob[j].next
          /\ outbox'[j].sanitized = ob[j].sanitized /\ outbox'[j].burst = ob[j].burst
      BY <2>2, <2>4 DEF Event
    <3>2. Total(outbox'[j]) = Total(ob[j])
      BY <3>1 DEF Total
    <3> QED
      BY <2>2, <2>4, <3>1, <3>2, Zenon DEF Agree
  <2> QED
    BY <2>1, <2>3, <2>4
<1> QED
  BY <1>f, <1>9 DEF Agreement

LEMMA UnsettledAgrees ==
  ASSUME TypeOK, NEW i \in Ids, outbox[i].status = "pending",
         \A j \in Ids : Agree(outbox[j], acked'[j], Faults'),
         \E e \in Event : outbox' = [outbox EXCEPT ![i] = e] /\ Unsettled(outbox[i], e)
  PROVE  Agreement'
BY SameCursor DEF Unsettled

\* Of the answers that do not acknowledge a part, and of a kill.
LEMMA NotAcknowledged ==
  ASSUME TypeOK, NEW i \in Ids, NEW start, NEW end,
         \/ RateLimited(i, start, end) \/ SendFailed(i, start, end)
         \/ SenderRaised(i, start, end) \/ KilledMidCall(i, start, end)
  PROVE  Unacknowledged(i)
<1>1. kills \in Nat /\ unread \in Nat
  BY DEF TypeOK
<1>2. CASE RateLimited(i, start, end)
  <2>1. acked' = acked /\ kills' = kills /\ unread' = unread
    BY <1>2 DEF RateLimited, env
  <2> QED
    BY <1>1, <2>1 DEF Unacknowledged, Faults
<1>3. CASE SendFailed(i, start, end) \/ SenderRaised(i, start, end)
  <2>1. kills' = kills /\ MaybeAccepts(i)
    BY <1>3 DEF SendFailed, SenderRaised
  <2> QED
    BY <1>1, <2>1 DEF MaybeAccepts, Unacknowledged, Faults
<1>4. CASE KilledMidCall(i, start, end)
  BY <1>1, <1>4 DEF KilledMidCall, Unacknowledged, Faults
<1> QED
  BY <1>2, <1>3, <1>4

LEMMA NotAcknowledgedAgrees ==
  ASSUME TypeOK, Agreement, NEW i \in Ids, NEW start, NEW end,
         \/ RateLimited(i, start, end) \/ SendFailed(i, start, end)
         \/ SenderRaised(i, start, end) \/ KilledMidCall(i, start, end)
  PROVE  outbox[i].status = "pending" /\ \A j \in Ids : Agree(outbox[j], acked'[j], Faults')
<1>1. Calls(i, start, end)
  BY DEF RateLimited, SendFailed, SenderRaised, KilledMidCall
<1> QED
  BY <1>1, CallFacts, NotAcknowledged, UnacknowledgedAgrees

LEMMA AnsweredAgrees ==
  ASSUME TypeOK, Agreement, NEW i \in Ids, NEW start, NEW end, Answered(i, start, end)
  PROVE  Agreement'
<1>1. CASE PartAccepted(i, start, end)
  BY <1>1, AcceptedAgrees
<1>2. CASE RateLimited(i, start, end)
  BY <1>2, NotAcknowledgedAgrees, RateLimitedForm, UnsettledAgrees
<1>3. CASE SendFailed(i, start, end)
  BY <1>3, NotAcknowledgedAgrees, FailedForm, UnsettledAgrees
<1>4. CASE SenderRaised(i, start, end)
  <2>1. end \in Nat /\ outbox' = [outbox EXCEPT ![i] = Quarantined(outbox[i], end)]
    BY <1>4, CallFacts DEF SenderRaised
  <2>2. \A j \in Ids : Agree(outbox[j], acked'[j], Faults')
    BY <1>4, NotAcknowledgedAgrees
  <2> QED
    BY <2>1, <2>2, QuarantinedAgrees
<1> QED
  BY <1>1, <1>2, <1>3, <1>4 DEF Answered

LEMMA RequeueAgrees ==
  ASSUME TypeOK, Agreement, NEW i \in Ids, Requeue(i)
  PROVE  Agreement'
<1> DEFINE e == outbox[i]
           new == [e EXCEPT !.status = "pending", !.completed = None, !.due = WholeSecond(now),
                            !.attempts[e.next] = 0, !.deferrals[e.next] = 0]
<1>1. e \in Event
  BY DEF TypeOK
<1>2. /\ new.next = e.next /\ new.sanitized = e.sanitized /\ new.status = "pending"
      /\ new.burst = e.burst
  BY <1>1 DEF Event
<1>3. outbox' = [outbox EXCEPT ![i] = new] /\ UNCHANGED <<acked, Faults>>
  BY DEF Requeue, Faults
<1> HIDE DEF new
<1>4. /\ outbox'[i] = new /\ \A j \in Ids \ {i} : outbox'[j] = outbox[j]
      /\ acked' = acked /\ Faults' = Faults
  BY <1>3 DEF TypeOK
<1>5. Total(new) = Total(e)
  BY <1>2 DEF Total
<1>6. Agree(new, acked[i], Faults)
  BY <1>2, <1>5, Zenon DEF Agreement, Agree
<1> QED
  BY <1>4, <1>6 DEF Agreement

LEMMA EnqueueAgrees ==
  ASSUME TypeOK, Agreement, NEW i \in Ids, NEW kind \in Kinds, NEW tent \in Tents,
         NEW burst \in BOOLEAN, Enqueue(i, kind, tent, burst)
  PROVE  Agreement'
<1> DEFINE e == [Absent EXCEPT !.status = "pending", !.kind = kind, !.tent = tent,
                               !.burst = burst, !.created = WholeSecond(now),
                               !.due = WholeSecond(now)]
<1>1. e.next = 0 /\ ~e.sanitized /\ e.status = "pending"
  BY DEF Absent
<1>2. outbox' = [outbox EXCEPT ![i] = e] /\ UNCHANGED acked /\ outbox[i].status = "absent"
  BY DEF Enqueue
<1> HIDE DEF e
<1>3. /\ outbox'[i] = e /\ \A j \in Ids \ {i} : outbox'[j] = outbox[j]
      /\ acked' = acked /\ Faults' = Faults
  BY <1>2 DEF TypeOK, Enqueue, env, Faults
<1>4. acked[i] = <<>>
  BY <1>1, <1>2 DEF Agreement, Agree
<1>5. InOrder(<<>>, 0, Total(e)) /\ Len(<<>>) <= 0 + Faults
  BY FaultsInt DEF InOrder
<1>6. Agree(e, acked[i], Faults)
  BY <1>1, <1>4, <1>5 DEF Agree
<1> QED
  BY <1>3, <1>6 DEF Agreement


THEOREM AgreementInit == Init => Agreement
<1> SUFFICES ASSUME Init, NEW i \in Ids PROVE Agree(outbox[i], acked[i], Faults)
  BY DEF Agreement
<1>1. outbox[i] = Absent /\ acked[i] = <<>> /\ Faults = 0
  BY DEF Init, Faults
<1>2. InOrder(<<>>, 0, Total(Absent)) /\ Len(<<>>) <= 0 + 0
  BY DEF InOrder
<1> QED
  BY <1>1, <1>2 DEF Agree, Absent

THEOREM AgreementNext == TypeOK /\ Agreement /\ [Next]_vars => Agreement'
<1> SUFFICES ASSUME TypeOK, Agreement, [Next]_vars PROVE Agreement'
  OBVIOUS
<1>1. ASSUME UNCHANGED <<outbox, acked, kills, unread>> PROVE Agreement'
  BY <1>1 DEF Agreement, Faults
<1>2. CASE UNCHANGED vars
  BY <1>1, <1>2 DEF vars
<1>3. CASE \E i \in Ids : QuarantinePoison(i)
  <2>1. PICK i \in Ids : QuarantinePoison(i)
    BY <1>3
  <2>2. /\ outbox' = [outbox EXCEPT ![i] = Quarantined(outbox[i], now)]
        /\ acked' = acked /\ Faults' = Faults /\ now \in Nat
    BY <2>1 DEF QuarantinePoison, TypeOK, env, Faults
  <2>3. \A j \in Ids : Agree(outbox[j], acked'[j], Faults')
    BY <2>2 DEF Agreement
  <2> QED
    BY <2>2, <2>3, QuarantinedAgrees
<1>4. CASE \E i \in Selected : \E start \in StartTimes(i) : \E end \in EndTimes(start) :
             Answered(i, start, end)
  BY <1>4, AnsweredAgrees DEF Selected, Candidates, Pending
<1>5. CASE \E i \in Selected : \E start \in StartTimes(i) : \E end \in EndTimes(start) :
             KilledMidCall(i, start, end)
  <2>0. PICK i \in Ids : \E start, end : KilledMidCall(i, start, end)
    BY <1>5 DEF Selected, Candidates, Pending
  <2>1. PICK start, end : KilledMidCall(i, start, end)
    BY <2>0
  <2>2. \A j \in Ids : Agree(outbox[j], acked'[j], Faults')
    BY <2>1, NotAcknowledgedAgrees
  <2>3. outbox' = outbox
    BY <2>1 DEF KilledMidCall
  <2> QED
    BY <2>2, <2>3 DEF Agreement
<1>6. CASE \E i \in Ids, kind \in Kinds, tent \in Tents, burst \in BOOLEAN :
             Enqueue(i, kind, tent, burst)
  BY <1>6, EnqueueAgrees
<1>7. CASE \E i \in Ids : Requeue(i)
  BY <1>7, RequeueAgrees
<1>8. CASE \E tents \in SUBSET Tents : Deploy(tents)
  BY <1>1, <1>8 DEF Deploy
<1>9. CASE Tick
  BY <1>1, <1>9 DEF Tick, env
<1> QED
  BY <1>2, <1>3, <1>4, <1>5, <1>6, <1>7, <1>8, <1>9 DEF Next, Deliver

THEOREM AgreementHolds == Spec => []Agreement
BY AgreementInit, AgreementNext, TypeCorrect, PTL DEF Spec

\* PartsInOrder: whatever fails, is killed, deferred or requeued, the provider gets
\* the parts in order, none is passed over, and a repetition takes a kill or an
\* answer that could not be read.
THEOREM OrderedParts == Spec => []PartsInOrder
<1>1. TypeOK /\ Agreement => PartsInOrder
  <2> SUFFICES ASSUME TypeOK, Agreement, NEW i \in Ids, ~outbox[i].sanitized
               PROVE  /\ 0..(outbox[i].next - 1) \subseteq Range(acked[i])
                      /\ \A k \in 1..Len(acked[i]) :
                           acked[i][k] <= outbox[i].next /\ acked[i][k] < Total(outbox[i])
                      /\ \A k, l \in 1..Len(acked[i]) : k <= l => acked[i][k] <= acked[i][l]
                      /\ Len(acked[i]) <= outbox[i].next + kills + unread
    BY DEF PartsInOrder
  <2>1. InOrder(acked[i], outbox[i].next, Total(outbox[i]))
        /\ Len(acked[i]) <= outbox[i].next + Faults
    BY DEF Agreement, Agree
  <2>2. acked[i] \in Seq(Parts) /\ outbox[i].next \in Nat /\ kills \in Nat /\ unread \in Nat
    BY DEF TypeOK, Event
  <2>3. 0..(outbox[i].next - 1) \subseteq Range(acked[i])
    BY <2>1, <2>2 DEF InOrder, Range
  <2>4. Len(acked[i]) <= outbox[i].next + kills + unread
    BY <2>1, <2>2 DEF Faults
  <2> QED
    BY <2>1, <2>3, <2>4 DEF InOrder
<1> QED
  BY <1>1, AgreementHolds, TypeCorrect, PTL

\* DeliveredCompletely: nothing counts as delivered with a part that the provider has
\* not accepted.
THEOREM CompleteDelivery == Spec => []DeliveredCompletely
<1>1. TypeOK /\ Agreement => DeliveredCompletely
  <2> SUFFICES ASSUME TypeOK, Agreement, NEW i \in Ids,
                      outbox[i].status \in {"delivered", "pruned"}, ~outbox[i].sanitized
               PROVE  Range(acked[i]) = 0..(Total(outbox[i]) - 1)
    BY DEF DeliveredCompletely
  <2> DEFINE total == Total(outbox[i])
  <2>1. InOrder(acked[i], total, total) /\ outbox[i].next = total
    BY DEF Agreement, Agree
  <2>2. outbox[i].next \in Nat /\ acked[i] \in Seq(Parts)
    BY DEF TypeOK, Event
  <2>3. total \in Nat
    BY <2>1, <2>2
  <2> HIDE DEF total
  <2>4. ASSUME NEW p \in Range(acked[i]) PROVE p \in 0..(total - 1)
    <3>1. PICK k \in 1..Len(acked[i]) : acked[i][k] = p
      BY <2>2 DEF Range
    <3>2. p < total /\ p \in Nat
      BY <2>1, <2>2, <3>1 DEF InOrder, Parts
    <3> QED
      BY <2>3, <3>2
  <2>5. ASSUME NEW p \in 0..(total - 1) PROVE p \in Range(acked[i])
    <3>1. PICK k \in 1..Len(acked[i]) : acked[i][k] = p
      BY <2>1, <2>5, Zenon DEF InOrder
    <3> QED
      BY <2>2, <3>1 DEF Range
  <2>6. Range(acked[i]) = 0..(total - 1)
    BY <2>4, <2>5
  <2> QED
    BY <2>6 DEF total
<1> QED
  BY <1>1, AgreementHolds, TypeCorrect, PTL

-----------------------------------------------------------------------------
(* Progress of calls *)

LEMMA UnsettledProgress ==
  ASSUME NEW old \in Event, old.next \in Parts, Valid(old), NEW new, Unsettled(old, new)
  PROVE  Progress(old, new)
<1> DEFINE p == old.next
<1>1. /\ old.attempts[p] \in 0..(MaxAttempts - 1)
      /\ old.deferrals[p] \in 0..(MaxDeferrals - 1)
  BY Constants DEF Valid, CountsValid, Event
<1>2. /\ old.attempts \in [Parts -> Nat] /\ old.deferrals \in [Parts -> Nat]
      /\ new.next = p
  BY DEF Event, Unsettled
<1>3. CASE new.status = "dead_letter"
  BY <1>3 DEF Progress
<1>4. CASE /\ new.attempts = old.attempts
           /\ new.deferrals = [old.deferrals EXCEPT ![p] = @ + 1]
           /\ new.deferrals[p] < MaxDeferrals
  <2>1. new.deferrals[p] = old.deferrals[p] + 1
    BY <1>2, <1>4
  <2>2. new.deferrals[p] \in old.deferrals[p]..(MaxDeferrals - 1)
    BY <1>1, <1>4, <2>1, Constants
  <2>3. new.attempts[p] \in old.attempts[p]..(MaxAttempts - 1)
    BY <1>1, <1>4, Constants
  <2>4. new.deferrals # old.deferrals
    BY <1>1, <2>1
  <2> HIDE DEF p
  <2> QED
    BY <1>2, <2>2, <2>3, <2>4 DEF Progress, p
<1>5. CASE /\ new.deferrals = old.deferrals
           /\ new.attempts = [old.attempts EXCEPT ![p] = @ + 1]
           /\ new.attempts[p] < MaxAttempts
  <2>1. new.attempts[p] = old.attempts[p] + 1
    BY <1>2, <1>5
  <2>2. new.attempts[p] \in old.attempts[p]..(MaxAttempts - 1)
    BY <1>1, <1>5, <2>1, Constants
  <2>3. new.deferrals[p] \in old.deferrals[p]..(MaxDeferrals - 1)
    BY <1>1, <1>5, Constants
  <2>4. new.attempts # old.attempts
    BY <1>1, <2>1
  <2> HIDE DEF p
  <2> QED
    BY <1>2, <2>2, <2>3, <2>4 DEF Progress, p
<1> QED
  BY <1>3, <1>4, <1>5 DEF Unsettled

LEMMA AcceptedForm ==
  ASSUME TypeOK, NEW i \in Ids, NEW start, NEW end, PartAccepted(i, start, end)
  PROVE  \/ outbox'[i].status # "pending"
         \/ outbox'[i].next = outbox[i].next + 1
<1> DEFINE e == outbox[i]
           new == Advanced(e, end)
           ob == [outbox EXCEPT ![i] = new]
<1>1. /\ e \in Event /\ e.next \in Parts /\ e.next < Total(e) /\ end \in Nat
  BY CallFacts DEF PartAccepted
<1>2. new \in Event /\ new.next = e.next + 1
  BY <1>1, AdvancedType, AdvancedFields
<1>3. outbox' \in Pruned(ob) /\ ob \in [Ids -> Event] /\ ob[i] = new
  BY <1>2 DEF PartAccepted, Advanced, TypeOK
<1> HIDE DEF ob, new
<1>4. outbox'[i] = new \/ outbox'[i] = [new EXCEPT !.status = "pruned"]
  BY <1>3, PrunedType
<1> QED
  BY <1>2, <1>4 DEF Event

\* EveryCallProgresses: no answer of the provider keeps an event where it is.
THEOREM CallsProgress == Spec => EveryCallProgresses
<1>1. TypeOK /\ [Next]_vars
        => [(call' # None /\ kills' = kills)
              => Progress(outbox[call'.id], outbox'[call'.id])]_vars
  <2> SUFFICES ASSUME TypeOK, [Next]_vars, ~ UNCHANGED vars, call' # None, kills' = kills
               PROVE  Progress(outbox[call'.id], outbox'[call'.id])
    OBVIOUS
  <2>0. PICK i \in Ids : \E start, end : Answered(i, start, end)
    <3>1. Next
      OBVIOUS
    <3>2. ASSUME NEW i, QuarantinePoison(i) PROVE FALSE
      BY <3>2 DEF QuarantinePoison
    <3>3. ASSUME NEW i, NEW start, NEW end, KilledMidCall(i, start, end) PROVE FALSE
      BY <3>3 DEF KilledMidCall, TypeOK
    <3>4. ASSUME NEW i, NEW kind, NEW tent, NEW burst, Enqueue(i, kind, tent, burst)
          PROVE  FALSE
      BY <3>4 DEF Enqueue
    <3>5. ASSUME NEW i, Requeue(i) PROVE FALSE
      BY <3>5 DEF Requeue
    <3>6. ASSUME NEW tents, Deploy(tents) PROVE FALSE
      BY <3>6 DEF Deploy
    <3>7. ~Tick
      BY DEF Tick
    <3> QED
      BY <3>1, <3>2, <3>3, <3>4, <3>5, <3>6, <3>7
      DEF Next, Deliver, Selected, Candidates, Pending
  <2>1. PICK start, end : Answered(i, start, end)
    BY <2>0
  <2>2. Calls(i, start, end)
    BY <2>1 DEF Answered, PartAccepted, RateLimited, SendFailed, SenderRaised
  <2>3. /\ outbox[i] \in Event /\ outbox[i].next \in Parts /\ Valid(outbox[i])
        /\ end \in Nat
    BY <2>2, CallFacts
  <2>4. call'.id = i
    BY <2>2 DEF Calls
  <2>5. CASE PartAccepted(i, start, end)
    BY <2>4, <2>5, AcceptedForm DEF Progress
  <2>6. CASE RateLimited(i, start, end)
    BY <2>3, <2>4, <2>6, RateLimitedForm, UnsettledProgress DEF TypeOK
  <2>7. CASE SendFailed(i, start, end)
    BY <2>3, <2>4, <2>7, FailedForm, UnsettledProgress DEF TypeOK
  <2>8. CASE SenderRaised(i, start, end)
    <3>1. outbox'[i] = Quarantined(outbox[i], end)
      BY <2>8 DEF SenderRaised, TypeOK
    <3>2. Quarantined(outbox[i], end).status = "dead_letter"
      BY DEF Quarantined, Absent
    <3> QED
      BY <2>4, <3>1, <3>2 DEF Progress
  <2> QED
    BY <2>1, <2>5, <2>6, <2>7, <2>8 DEF Answered
<1> QED
  BY <1>1, TypeCorrect, PTL DEF Spec, EveryCallProgresses

-----------------------------------------------------------------------------
(* The cadence of a burst *)

Open(e) == e.status \in {"pending", "dead_letter"}

\* The gap before the next part of an unfinished burst is over, or its due time
\* waits for the gap; a dead letter has no due time that could.
Spaced(e, ack, t) ==
  (Open(e) /\ e.next > 0) =>
    /\ e.next \in Parts
    /\ \/ ack + Gaps[e.next] <= t
       \/ e.status = "pending" /\ ack + Gaps[e.next] <= e.due

Cadence == \A i \in Ids : Spaced(outbox[i], last_ack[i], now)

\* A call does not start before the gap is over, and time does not run backwards.
LEMMA CallSpaced ==
  ASSUME TypeOK, Cadence, NEW i \in Ids, NEW start, NEW end, Calls(i, start, end)
  PROVE  /\ outbox[i].next > 0 => last_ack[i] + Gaps[outbox[i].next] <= start
         /\ start <= end /\ now <= start
<1> DEFINE e == outbox[i]
<1>1. /\ e \in Event /\ e.status = "pending" /\ e.next \in Parts
      /\ start \in Nat /\ end \in Nat
  BY CallFacts
<1>2. now \in Nat /\ last_ack[i] \in Nat /\ e.due \in Nat
  BY <1>1 DEF TypeOK, Event
<1>3. DueNow(i) \in Nat /\ e.due <= DueNow(i)
  <2>1. DueNow(i) \in Nat
    BY <1>1, DueNat DEF DueNow, TypeOK
  <2>2. e.due <= DueNow(i)
    BY <1>1, <1>2, <2>1 DEF DueNow, Due
  <2> QED
    BY <2>1, <2>2
<1>4. IF DueNow(i) <= now THEN start = now ELSE start >= DueNow(i)
  BY <1>3, OutboxAssumption DEF Calls, StartTimes
<1>5. start <= end
  BY <1>1, OutboxAssumption DEF Calls, EndTimes
<1>6. ASSUME e.next > 0 PROVE last_ack[i] + Gaps[e.next] <= start
  <2>1. e.next \in 1..Len(Gaps)
    BY <1>1, <1>6, Constants DEF Parts
  <2>2. Gaps[e.next] \in Nat
    BY <2>1, Constants
  <2>3. \/ last_ack[i] + Gaps[e.next] <= now
        \/ last_ack[i] + Gaps[e.next] <= e.due
    BY <1>1, <1>6 DEF Cadence, Spaced, Open
  <2> QED
    BY <1>1, <1>2, <1>3, <1>4, <2>2, <2>3
<1> QED
  BY <1>1, <1>2, <1>3, <1>4, <1>5, <1>6

\* Events a step leaves alone stay spaced.
LEMMA OthersSpaced ==
  ASSUME TypeOK, Cadence, now <= now', now' \in Nat, NEW j \in Ids,
         outbox'[j] = outbox[j], last_ack'[j] = last_ack[j]
  PROVE  Spaced(outbox'[j], last_ack'[j], now')
<1>1. outbox[j].next \in Parts /\ outbox[j].next > 0 => Gaps[outbox[j].next] \in Nat
  BY Constants DEF Parts
<1>2. last_ack[j] \in Nat /\ now \in Nat
  BY DEF TypeOK
<1> QED
  BY <1>1, <1>2 DEF Cadence, Spaced

LEMMA UnsettledSpaced ==
  ASSUME TypeOK, Cadence, NEW i \in Ids, NEW start, NEW end, Calls(i, start, end),
         UNCHANGED last_ack,
         \E e \in Event : outbox' = [outbox EXCEPT ![i] = e] /\ Unsettled(outbox[i], e)
  PROVE  Cadence'
<1>1. /\ outbox[i].next > 0 => last_ack[i] + Gaps[outbox[i].next] <= start
      /\ start <= end /\ now <= start /\ now' = end /\ start \in Nat /\ end \in Nat
      /\ outbox[i].next \in Parts
  BY CallSpaced, CallFacts
<1>2. PICK e \in Event : outbox' = [outbox EXCEPT ![i] = e] /\ Unsettled(outbox[i], e)
  OBVIOUS
<1>3. now \in Nat /\ last_ack[i] \in Nat /\ outbox \in [Ids -> Event]
  BY DEF TypeOK
<1>4. Spaced(e, last_ack[i], end)
  <2>1. e.next = outbox[i].next
    BY <1>2 DEF Unsettled
  <2>2. e.next > 0 => Gaps[e.next] \in Nat
    BY <1>1, <2>1, Constants DEF Parts
  <2> QED
    BY <1>1, <1>3, <2>1, <2>2 DEF Spaced
<1>5. ASSUME NEW j \in Ids PROVE Spaced(outbox'[j], last_ack'[j], now')
  <2>1. CASE j = i
    BY <1>1, <1>2, <1>3, <1>4, <2>1
  <2>2. CASE j # i
    BY <1>1, <1>2, <1>3, <2>2, OthersSpaced
  <2> QED
    BY <2>1, <2>2
<1> QED
  BY <1>5 DEF Cadence

LEMMA AdvancedSpaced ==
  ASSUME NEW e \in Event, NEW end \in Nat, e.next \in Parts, e.next < Total(e),
         e.status = "pending"
  PROVE  Spaced(Advanced(e, end), end, end)
<1> DEFINE counted == [e EXCEPT !.attempts[e.next] = @ + 1, !.next = @ + 1]
<1>1. counted \in Event /\ counted.next = e.next + 1
  BY CountedType DEF Event
<1>2. Total(e) <= Len(Gaps) + 1 /\ Total(e) \in Nat /\ e.next \in Nat
  BY Constants DEF Total, Event
<1>3. CASE counted.next >= Total(e)
  <2>1. Advanced(e, end)
          = [counted EXCEPT !.status = "delivered", !.completed = Iso(end), !.due = 0]
    BY <1>3, Zenon DEF Advanced
  <2> HIDE DEF counted
  <2> QED
    BY <1>1, <2>1 DEF Spaced, Open, Event
<1>4. CASE ~(counted.next >= Total(e))
  <2>1. Advanced(e, end) = [counted EXCEPT !.due = Iso(end + Gaps[counted.next])]
    BY <1>4, Zenon DEF Advanced
  <2>2. counted.next \in Parts /\ counted.next \in 1..Len(Gaps)
    BY <1>1, <1>2, <1>4, Constants DEF Parts
  <2>3. counted.status = "pending"
    BY DEF Event
  <2>4. end + Gaps[counted.next] \in Nat
    BY <2>2, Constants
  <2> HIDE DEF counted
  <2>5. /\ Advanced(e, end).next = counted.next
        /\ Advanced(e, end).due = end + Gaps[counted.next]
        /\ Advanced(e, end).status = "pending"
    BY <1>1, <2>1, <2>3 DEF Event, Iso
  <2> QED
    BY <2>2, <2>4, <2>5 DEF Spaced
<1> QED
  BY <1>3, <1>4

LEMMA AcceptedSpaced ==
  ASSUME TypeOK, Cadence, NEW i \in Ids, NEW start, NEW end, PartAccepted(i, start, end)
  PROVE  Cadence'
<1> DEFINE e == outbox[i]
           new == Advanced(e, end)
           ob == [outbox EXCEPT ![i] = new]
<1>1. /\ e \in Event /\ e.next \in Parts /\ e.next < Total(e) /\ e.status = "pending"
      /\ start \in Nat /\ end \in Nat /\ now' = end
      /\ start <= end /\ now <= start /\ now \in Nat
  BY CallFacts, CallSpaced DEF PartAccepted, TypeOK
<1>2. new \in Event /\ Spaced(new, end, end)
  BY <1>1, AdvancedType, AdvancedSpaced
<1>3. /\ outbox' \in Pruned(ob) /\ ob \in [Ids -> Event] /\ ob[i] = new
      /\ \A j \in Ids \ {i} : ob[j] = outbox[j]
  BY <1>2 DEF PartAccepted, Advanced, TypeOK
<1>4. /\ last_ack'[i] = end
      /\ \A j \in Ids \ {i} : last_ack'[j] = last_ack[j]
  BY DEF PartAccepted, TypeOK
<1> HIDE DEF ob, new
<1>5. ASSUME NEW j \in Ids PROVE Spaced(outbox'[j], last_ack'[j], now')
  <2>1. outbox'[j] = ob[j] \/ outbox'[j] = [ob[j] EXCEPT !.status = "pruned"]
    BY <1>3, PrunedType
  <2>2. CASE outbox'[j] = [ob[j] EXCEPT !.status = "pruned"]
    <3>1. outbox'[j].status = "pruned"
      BY <1>3, <2>2 DEF Event
    <3> QED
      BY <3>1 DEF Spaced, Open
  <2>3. CASE outbox'[j] = ob[j] /\ j = i
    BY <1>1, <1>2, <1>3, <1>4, <2>3
  <2>4. CASE outbox'[j] = ob[j] /\ j # i
    BY <1>1, <1>3, <1>4, <2>4, OthersSpaced
  <2> QED
    BY <2>1, <2>2, <2>3, <2>4
<1> QED
  BY <1>5 DEF Cadence

\* A step that rewrites one event to one that starts over, or keeps its cursor.
LEMMA RewriteSpaced ==
  ASSUME TypeOK, Cadence, NEW i \in Ids, NEW e, outbox' = [outbox EXCEPT ![i] = e],
         UNCHANGED last_ack, now <= now', now' \in Nat,
         Spaced(e, last_ack[i], now')
  PROVE  Cadence'
<1>1. ASSUME NEW j \in Ids PROVE Spaced(outbox'[j], last_ack'[j], now')
  <2>1. CASE j = i
    BY <2>1 DEF TypeOK
  <2>2. CASE j # i
    BY <2>2, OthersSpaced DEF TypeOK
  <2> QED
    BY <2>1, <2>2
<1> QED
  BY <1>1 DEF Cadence

LEMMA RequeueSpaced ==
  ASSUME TypeOK, Cadence, NEW i \in Ids, Requeue(i)
  PROVE  Cadence'
<1> DEFINE e == outbox[i]
           new == [e EXCEPT !.status = "pending", !.completed = None, !.due = WholeSecond(now),
                            !.attempts[e.next] = 0, !.deferrals[e.next] = 0]
<1>1. e \in Event /\ now \in Nat /\ e.status = "dead_letter"
  BY DEF TypeOK, Requeue
<1>2. new.next = e.next
  BY <1>1 DEF Event
<1>3. outbox' = [outbox EXCEPT ![i] = new] /\ last_ack' = last_ack /\ now' = now
  BY DEF Requeue
<1> HIDE DEF new
<1>4. Spaced(new, last_ack[i], now')
  BY <1>1, <1>2, <1>3 DEF Cadence, Spaced, Open
<1>5. now <= now' /\ now' \in Nat
  BY <1>1, <1>3
<1> QED
  BY <1>3, <1>4, <1>5, RewriteSpaced

LEMMA EnqueueSpaced ==
  ASSUME TypeOK, Cadence, NEW i \in Ids, NEW kind \in Kinds, NEW tent \in Tents,
         NEW burst \in BOOLEAN, Enqueue(i, kind, tent, burst)
  PROVE  Cadence'
<1> DEFINE e == [Absent EXCEPT !.status = "pending", !.kind = kind, !.tent = tent,
                               !.burst = burst, !.created = WholeSecond(now),
                               !.due = WholeSecond(now)]
<1>1. e.next = 0
  BY DEF Absent
<1>2. /\ outbox' = [outbox EXCEPT ![i] = e]
      /\ last_ack' = last_ack /\ now' = now /\ now \in Nat
  BY DEF Enqueue, TypeOK
<1> HIDE DEF e
<1>3. Spaced(e, last_ack[i], now')
  BY <1>1 DEF Spaced
<1>4. now <= now' /\ now' \in Nat
  BY <1>2
<1> QED
  BY <1>2, <1>3, <1>4, RewriteSpaced

LEMMA QuarantineSpaced ==
  ASSUME TypeOK, Cadence, NEW i \in Ids, NEW t, UNCHANGED last_ack, now <= now', now' \in Nat,
         outbox' = [outbox EXCEPT ![i] = Quarantined(outbox[i], t)]
  PROVE  Cadence'
<1>1. Quarantined(outbox[i], t).next = 0
  BY DEF Quarantined, Absent
<1> DEFINE e == Quarantined(outbox[i], t)
<1>2. Spaced(e, last_ack[i], now')
  BY <1>1 DEF Spaced
<1>3. outbox' = [outbox EXCEPT ![i] = e] /\ last_ack' = last_ack
  OBVIOUS
<1> HIDE DEF e
<1> QED
  BY <1>2, <1>3, RewriteSpaced

THEOREM CadenceInit == Init => Cadence
<1>1. Absent.next = 0
  BY DEF Absent
<1> QED
  BY <1>1 DEF Init, Cadence, Spaced

THEOREM CadenceNext == TypeOK /\ Cadence /\ [Next]_vars => Cadence'
<1> SUFFICES ASSUME TypeOK, Cadence, [Next]_vars PROVE Cadence'
  OBVIOUS
<1>1. ASSUME UNCHANGED <<outbox, last_ack>>, now <= now', now' \in Nat PROVE Cadence'
  BY <1>1, OthersSpaced DEF Cadence
<1>2. now \in Nat
  BY DEF TypeOK
<1>3. CASE UNCHANGED vars
  BY <1>1, <1>2, <1>3 DEF vars
<1>4. CASE \E i \in Ids : QuarantinePoison(i)
  <2>1. PICK i \in Ids : QuarantinePoison(i)
    BY <1>4
  <2>2. /\ outbox' = [outbox EXCEPT ![i] = Quarantined(outbox[i], now)]
        /\ last_ack' = last_ack /\ now' = now
    BY <2>1 DEF QuarantinePoison
  <2>3. now <= now' /\ now' \in Nat
    BY <1>2, <2>2
  <2> QED
    BY <2>2, <2>3, QuarantineSpaced
<1>5. ASSUME NEW i \in Ids, NEW start, NEW end, Answered(i, start, end) PROVE Cadence'
  <2>1. Calls(i, start, end)
    BY <1>5 DEF Answered, PartAccepted, RateLimited, SendFailed, SenderRaised
  <2>2. now' = end /\ end \in Nat /\ start \in Nat /\ start <= end /\ now <= start
    BY <2>1, CallFacts, CallSpaced
  <2>3. CASE PartAccepted(i, start, end)
    BY <2>3, AcceptedSpaced
  <2>4. CASE RateLimited(i, start, end)
    BY <2>1, <2>4, RateLimitedForm, UnsettledSpaced DEF RateLimited
  <2>5. CASE SendFailed(i, start, end)
    BY <2>1, <2>5, FailedForm, UnsettledSpaced DEF SendFailed
  <2>6. CASE SenderRaised(i, start, end)
    <3>1. /\ outbox' = [outbox EXCEPT ![i] = Quarantined(outbox[i], end)]
          /\ last_ack' = last_ack
      BY <2>6 DEF SenderRaised
    <3>2. now <= now' /\ now' \in Nat
      BY <1>2, <2>2
    <3> QED
      BY <3>1, <3>2, QuarantineSpaced
  <2> QED
    BY <1>5, <2>3, <2>4, <2>5, <2>6 DEF Answered
<1>6. ASSUME NEW i \in Ids, NEW start, NEW end, KilledMidCall(i, start, end) PROVE Cadence'
  <2>1. Calls(i, start, end) /\ UNCHANGED <<outbox, last_ack>>
    BY <1>6 DEF KilledMidCall
  <2>2. now' = end /\ end \in Nat /\ start \in Nat /\ start <= end /\ now <= start
    BY <2>1, CallFacts, CallSpaced
  <2> QED
    BY <1>1, <1>2, <2>1, <2>2
<1>7. CASE \E i \in Ids, kind \in Kinds, tent \in Tents, burst \in BOOLEAN :
             Enqueue(i, kind, tent, burst)
  BY <1>7, EnqueueSpaced
<1>8. CASE \E i \in Ids : Requeue(i)
  BY <1>8, RequeueSpaced
<1>9. CASE \E tents \in SUBSET Tents : Deploy(tents)
  BY <1>1, <1>2, <1>9 DEF Deploy
<1>10. CASE Tick
  BY <1>1, <1>2, <1>10 DEF Tick
<1> QED
  BY <1>3, <1>4, <1>5, <1>6, <1>7, <1>8, <1>9, <1>10
  DEF Next, Deliver, Selected, Candidates, Pending

\* BurstCadence: no part starts before its gap is over, for any gaps and delays.
THEOREM CadenceKept == Spec => BurstCadence
<1>1. TypeOK /\ Cadence /\ [Next]_vars
        => [(call' # None /\ call'.part > 0)
              => call'.start >= last_ack[call'.id] + Gaps[call'.part]]_vars
  <2> SUFFICES ASSUME TypeOK, Cadence, [Next]_vars, ~ UNCHANGED vars,
                      call' # None, call'.part > 0
               PROVE  call'.start >= last_ack[call'.id] + Gaps[call'.part]
    OBVIOUS
  <2>0. PICK i \in Ids : \E start, end : Calls(i, start, end)
    <3>1. Next
      OBVIOUS
    <3>2. ASSUME NEW i, QuarantinePoison(i) PROVE FALSE
      BY <3>2 DEF QuarantinePoison
    <3>3. ASSUME NEW i, NEW kind, NEW tent, NEW burst, Enqueue(i, kind, tent, burst)
          PROVE  FALSE
      BY <3>3 DEF Enqueue
    <3>4. ASSUME NEW i, Requeue(i) PROVE FALSE
      BY <3>4 DEF Requeue
    <3>5. ASSUME NEW tents, Deploy(tents) PROVE FALSE
      BY <3>5 DEF Deploy
    <3>6. ~Tick
      BY DEF Tick
    <3>7. ASSUME NEW i, NEW start, NEW end,
                 Answered(i, start, end) \/ KilledMidCall(i, start, end)
          PROVE  Calls(i, start, end)
      BY <3>7 DEF Answered, PartAccepted, RateLimited, SendFailed, SenderRaised,
                  KilledMidCall
    <3> QED
      BY <3>1, <3>2, <3>3, <3>4, <3>5, <3>6, <3>7
      DEF Next, Deliver, Selected, Candidates, Pending
  <2>1. PICK start, end : Calls(i, start, end)
    BY <2>0
  <2>2. call' = [id |-> i, part |-> outbox[i].next, start |-> start]
    BY <2>1 DEF Calls
  <2>3. outbox[i].next > 0 => last_ack[i] + Gaps[outbox[i].next] <= start
    BY <2>1, CallSpaced
  <2> QED
    BY <2>2, <2>3
<1>2. Spec => []Cadence
  BY CadenceInit, CadenceNext, TypeCorrect, PTL DEF Spec
<1> QED
  BY <1>1, <1>2, TypeCorrect, PTL DEF Spec, BurstCadence

-----------------------------------------------------------------------------
(* Times *)

\* Dropping the fraction of a second keeps the order of times.
LEMMA WholeSecondMonotone ==
  ASSUME NEW t \in Nat, NEW u \in Nat, t <= u
  PROVE  WholeSecond(t) <= WholeSecond(u)
<1> DEFINE k == TicksPerSecond
           a == t \div k
           b == u \div k
<1>1. k \in Nat /\ k > 0
  BY OutboxAssumption
<1>2. a \in Nat /\ b \in Nat /\ t % k \in 0..(k - 1) /\ u % k \in 0..(k - 1)
  BY <1>1
<1>3. t = k * a + (t % k) /\ u = k * b + (u % k)
  BY <1>1
<1>4. WholeSecond(t) = k * a /\ WholeSecond(u) = k * b
  <2>1. k * a \in Nat /\ k * b \in Nat
    BY <1>1, <1>2
  <2> QED
    BY <1>2, <1>3, <2>1 DEF WholeSecond
<1> HIDE DEF k, a, b
<1>5. a <= b
  <2> SUFFICES ASSUME a > b
               PROVE  FALSE
    BY <1>2
  <2>1. PICK c \in Nat : a = b + 1 + c
    <3>1. a - b - 1 \in Nat /\ a = b + 1 + (a - b - 1)
      BY <1>2
    <3> QED
      BY <3>1
  <2>2. k * a = k * b + k + k * c /\ k * c \in Nat /\ k * b \in Nat
    BY <1>1, <1>2, <2>1
  <2>3. k * a \in Nat
    BY <1>1, <1>2
  <2>4. u - k * b < k /\ t >= k * a
    BY <1>1, <1>2, <1>3, <2>2, <2>3
  <2> QED
    BY <1>1, <2>2, <2>3, <2>4
<1>6. PICK c \in Nat : b = a + c
  <2>1. b - a \in Nat /\ b = a + (b - a)
    BY <1>2, <1>5
  <2> QED
    BY <2>1
<1>7. k * b = k * a + k * c /\ k * c \in Nat /\ k * a \in Nat
  BY <1>1, <1>2, <1>6
<1> QED
  BY <1>4, <1>7

\* Rounding up takes less than a second.
LEMMA NextSecondSoon == \A t \in Nat : NextSecond(t) <= t + TicksPerSecond - 1
<1> TAKE t \in Nat
<1>1. t + TicksPerSecond - 1 \in Nat
  BY OutboxAssumption
<1> QED
  BY <1>1, WholeSecondNat DEF NextSecond

LEMMA DelayRanges ==
  /\ MaxDelay \in Delays
  /\ \A p \in 1..Len(Gaps) : Gaps[p] \in Delays
  /\ \A n \in 1..MaxAttempts : Backoff[n] \in Delays
  /\ Delays \subseteq Nat
<1>1. DOMAIN Gaps = 1..Len(Gaps) /\ DOMAIN Backoff = 1..MaxAttempts
  BY OutboxAssumption
<1>2. \A p \in DOMAIN Gaps : Gaps[p] \in Nat
  BY <1>1, Constants
<1> QED
  BY <1>1, <1>2, Constants DEF Delays, Range

\* When a refused part is tried again: not before the answer, and within the cap.
LEMMA RetryTimeBounds ==
  ASSUME NEW start \in Nat, NEW t \in Nat, start <= t, NEW after \in RetryAfters \cup {None},
         NEW date \in {start + d : d \in RetryDates} \cup {None}, NEW h \in Headers(start)
  PROVE  LET retry == RetryTime(start, t, after, date, h)
         IN  retry \in Nat /\ t <= retry /\ retry <= t + MaxDelay
<1> DEFINE retry == RetryTime(start, t, after, date, h)
           hint == IF after # None THEN t + Smaller(after, MaxDelay) ELSE RetryAt(start, date, h)
           bounded == Smaller(Larger(hint, t + MinDelay), t + MaxDelay)
<1>1. retry \in Nat
  BY RetryTimeNat
<1>2. MinDelay \in Nat /\ MaxDelay \in Nat /\ MinDelay <= MaxDelay
  BY OutboxAssumption
<1>3. h.reset # None => h.reset \in Nat /\ h.reset <= start + MaxDelay
  <2>1. h.reset \in {None} \cup {r \in {NextSecond(start) + o : o \in ResetOffsets} :
                                   r <= start + MaxDelay}
    BY DEF Headers
  <2>2. h.reset \in Nat \cup {None}
    BY HeadersType
  <2> QED
    BY <2>1, <2>2
<1>4. retry = IF h.remaining = 0 /\ h.reset # None THEN Larger(bounded, h.reset) ELSE bounded
  BY DEF RetryTime
<1> HIDE DEF hint, retry
<1>5. t + MinDelay <= Larger(hint, t + MinDelay) \/ Larger(hint, t + MinDelay) = hint
  BY <1>2 DEF Larger
<1>6. bounded \in Nat /\ t <= bounded /\ bounded <= t + MaxDelay
  <2>1. hint \in Nat
    <3>1. after # None => after \in Nat
      BY OutboxAssumption
    <3>2. after # None => t + Smaller(after, MaxDelay) \in Nat
      BY <1>2, <3>1 DEF Smaller
    <3>3. RetryAt(start, date, h) \in Nat
      BY RetryAtNat
    <3> QED
      BY <3>2, <3>3 DEF hint
  <2> QED
    BY <1>2, <2>1 DEF Larger, Smaller
<1> HIDE DEF bounded
<1>7. t <= retry /\ retry <= t + MaxDelay
  BY <1>2, <1>3, <1>4, <1>6 DEF Larger
<1> QED
  BY <1>1, <1>7 DEF retry

-----------------------------------------------------------------------------
(* Everything a step can do to one event *)

\* What a call never changes in an event it does not quarantine.
SameEvent(e, new) == /\ new.kind = e.kind /\ new.tent = e.tent /\ new.burst = e.burst
                     /\ new.created = e.created /\ new.sanitized = e.sanitized

\* The forms an event can take after a step that ends at t.
Settles(e, new) == /\ SameEvent(e, new)
                   /\ new.status \in {"delivered", "pruned"}

Moves(e, new, t) == /\ SameEvent(e, new)
                    /\ new.status = "pending" /\ new.completed = e.completed
                    /\ new.next = e.next + 1 /\ new.next \in 1..Len(Gaps) /\ new.next < Total(e)
                    /\ new.due = t + Gaps[new.next]
                    /\ new.attempts = [e.attempts EXCEPT ![e.next] = @ + 1]
                    /\ new.deferrals = e.deferrals

Fails(e, new) == /\ SameEvent(e, new)
                 /\ new.status = "dead_letter" /\ new.next = e.next
                 /\ \/ /\ new.attempts = [e.attempts EXCEPT ![e.next] = @ + 1]
                       /\ new.deferrals = e.deferrals
                    \/ /\ new.attempts = e.attempts
                       /\ new.deferrals = [e.deferrals EXCEPT ![e.next] = @ + 1]

Postpones(e, new, t) ==
  /\ SameEvent(e, new)
  /\ new.status = "pending" /\ new.completed = e.completed /\ new.next = e.next
  /\ \E d \in Delays : t <= new.due /\ new.due <= t + d
  /\ \/ /\ new.attempts = [e.attempts EXCEPT ![e.next] = @ + 1]
        /\ new.attempts[e.next] < MaxAttempts /\ new.deferrals = e.deferrals
     \/ /\ new.deferrals = [e.deferrals EXCEPT ![e.next] = @ + 1]
        /\ new.deferrals[e.next] < MaxDeferrals /\ new.attempts = e.attempts

Called(e, new, t) == Settles(e, new) \/ Moves(e, new, t) \/ Fails(e, new) \/ Postpones(e, new, t)

LEMMA AdvancedCalled ==
  ASSUME NEW e \in Event, NEW end \in Nat, e.next \in Parts, e.next < Total(e),
         e.status = "pending"
  PROVE  Called(e, Advanced(e, end), end)
<1> DEFINE counted == [e EXCEPT !.attempts[e.next] = @ + 1, !.next = @ + 1]
           attempts == [e.attempts EXCEPT ![e.next] = @ + 1]
<1>1. /\ counted.next = e.next + 1 /\ counted.sanitized = e.sanitized
      /\ counted.burst = e.burst /\ counted.status = e.status
      /\ counted.kind = e.kind /\ counted.tent = e.tent /\ counted.created = e.created
      /\ counted.completed = e.completed /\ counted.deferrals = e.deferrals
      /\ counted.attempts = attempts
  BY DEF Event
<1>2. counted \in Event /\ SameEvent(e, counted)
  BY <1>1, CountedType DEF SameEvent
<1>3. Total(e) <= Len(Gaps) + 1 /\ Total(e) \in Nat /\ e.next \in Nat
  BY Constants DEF Total, Event
<1>4. CASE counted.next >= Total(e)
  <2>1. Advanced(e, end)
          = [counted EXCEPT !.status = "delivered", !.completed = Iso(end), !.due = 0]
    BY <1>4, Zenon DEF Advanced
  <2> HIDE DEF counted
  <2> QED
    BY <1>2, <2>1 DEF Called, Settles, SameEvent, Event
<1>5. CASE ~(counted.next >= Total(e))
  <2>1. Advanced(e, end) = [counted EXCEPT !.due = Iso(end + Gaps[counted.next])]
    BY <1>5, Zenon DEF Advanced
  <2>2. counted.next \in 1..Len(Gaps) /\ counted.next < Total(e)
    BY <1>1, <1>3, <1>5, Constants
  <2> DEFINE new == [counted EXCEPT !.due = Iso(end + Gaps[counted.next])]
  <2> HIDE DEF counted
  <2>3. /\ SameEvent(counted, new) /\ new.status = counted.status
        /\ new.completed = counted.completed /\ new.next = counted.next
        /\ new.attempts = counted.attempts /\ new.deferrals = counted.deferrals
        /\ new.due = end + Gaps[counted.next]
    BY <1>2 DEF Event, SameEvent, Iso
  <2> HIDE DEF new
  <2>4. SameEvent(e, new)
    BY <1>2, <2>3 DEF SameEvent
  <2>5. Moves(e, new, end)
    BY <1>1, <2>2, <2>3, <2>4 DEF Moves
  <2> QED
    BY <2>1, <2>5 DEF Called, new
<1> QED
  BY <1>4, <1>5

LEMMA DeferredCalled ==
  ASSUME NEW e \in Event, NEW end \in Nat, NEW retry \in Nat, e.next \in Parts,
         e.status = "pending", end <= retry, retry <= end + MaxDelay
  PROVE  Called(e, Deferred(e, end, retry), end)
<1> DEFINE counted == [e EXCEPT !.deferrals[e.next] = @ + 1]
           deferrals == [e.deferrals EXCEPT ![e.next] = @ + 1]
<1>1. /\ counted.next = e.next /\ counted.sanitized = e.sanitized
      /\ counted.burst = e.burst /\ counted.status = e.status
      /\ counted.kind = e.kind /\ counted.tent = e.tent /\ counted.created = e.created
      /\ counted.completed = e.completed /\ counted.attempts = e.attempts
      /\ counted.deferrals = deferrals
  BY DEF Event
<1>2. counted \in Event /\ SameEvent(e, counted)
  BY <1>1, CountedType DEF SameEvent
<1>3. counted.deferrals[e.next] \in Nat
  BY <1>2 DEF Event
<1>4. Deferred(e, end, retry) = IF counted.deferrals[e.next] >= MaxDeferrals
                                THEN DeadLetter(counted, end)
                                ELSE [counted EXCEPT !.due = Iso(retry)]
  BY DEF Deferred
<1> HIDE DEF counted
<1>5. CASE counted.deferrals[e.next] >= MaxDeferrals
  <2> DEFINE new == DeadLetter(counted, end)
  <2>1. /\ SameEvent(counted, new) /\ new.status = "dead_letter" /\ new.next = counted.next
        /\ new.attempts = counted.attempts /\ new.deferrals = counted.deferrals
    BY <1>2 DEF DeadLetter, SameEvent, Event
  <2>2. Fails(e, new)
    <3> HIDE DEF new
    <3>1. SameEvent(e, new)
      BY <1>2, <2>1 DEF SameEvent
    <3> QED
      BY <1>1, <2>1, <3>1 DEF Fails
  <2> QED
    BY <1>4, <1>5, <2>2 DEF Called
<1>6. CASE ~(counted.deferrals[e.next] >= MaxDeferrals)
  <2> DEFINE new == [counted EXCEPT !.due = Iso(retry)]
  <2>1. counted.deferrals[e.next] < MaxDeferrals
    BY <1>3, <1>6, Constants
  <2>2. /\ SameEvent(counted, new) /\ new.status = counted.status
        /\ new.completed = counted.completed /\ new.next = counted.next
        /\ new.attempts = counted.attempts /\ new.deferrals = counted.deferrals
        /\ new.due = retry
    BY <1>2 DEF Event, SameEvent, Iso
  <2>3. MaxDelay \in Delays
    BY DelayRanges
  <2>4. Postpones(e, new, end)
    <3> HIDE DEF new
    <3>1. SameEvent(e, new)
      BY <1>2, <2>2 DEF SameEvent
    <3> QED
      BY <1>1, <2>1, <2>2, <2>3, <3>1 DEF Postpones
  <2> QED
    BY <1>4, <1>6, <2>4 DEF Called
<1> QED
  BY <1>5, <1>6

LEMMA RetriedCalled ==
  ASSUME NEW e \in Event, NEW end \in Nat, NEW terminal \in BOOLEAN, e.next \in Parts,
         e.status = "pending"
  PROVE  Called(e, Retried(e, end, terminal), end)
<1> DEFINE counted == [e EXCEPT !.attempts[e.next] = @ + 1]
           attempts == [e.attempts EXCEPT ![e.next] = @ + 1]
           attempt == counted.attempts[e.next]
<1>1. /\ counted.next = e.next /\ counted.sanitized = e.sanitized
      /\ counted.burst = e.burst /\ counted.status = e.status
      /\ counted.kind = e.kind /\ counted.tent = e.tent /\ counted.created = e.created
      /\ counted.completed = e.completed /\ counted.deferrals = e.deferrals
      /\ counted.attempts = attempts
  BY DEF Event
<1>2. counted \in Event /\ SameEvent(e, counted)
  BY <1>1, CountedType DEF SameEvent
<1>3. attempt = e.attempts[e.next] + 1 /\ e.attempts[e.next] \in Nat
  BY DEF Event
<1>4. Retried(e, end, terminal) = IF terminal \/ attempt >= MaxAttempts
                                  THEN DeadLetter(counted, end)
                                  ELSE [counted EXCEPT !.due = Iso(end + Backoff[attempt])]
  BY DEF Retried
<1> HIDE DEF counted
<1>5. CASE terminal \/ attempt >= MaxAttempts
  <2> DEFINE new == DeadLetter(counted, end)
  <2>1. /\ SameEvent(counted, new) /\ new.status = "dead_letter" /\ new.next = counted.next
        /\ new.attempts = counted.attempts /\ new.deferrals = counted.deferrals
    BY <1>2 DEF DeadLetter, SameEvent, Event
  <2>2. Fails(e, new)
    <3> HIDE DEF new
    <3>1. SameEvent(e, new)
      BY <1>2, <2>1 DEF SameEvent
    <3> QED
      BY <1>1, <2>1, <3>1 DEF Fails
  <2> QED
    BY <1>4, <1>5, <2>2 DEF Called
<1>6. CASE ~(terminal \/ attempt >= MaxAttempts)
  <2> DEFINE new == [counted EXCEPT !.due = Iso(end + Backoff[attempt])]
  <2>1. attempt \in 1..MaxAttempts /\ attempt < MaxAttempts
    BY <1>3, <1>6, Constants
  <2>2. Backoff[attempt] \in Delays /\ Backoff[attempt] \in Nat
    BY <2>1, DelayRanges
  <2>3. /\ SameEvent(counted, new) /\ new.status = counted.status
        /\ new.completed = counted.completed /\ new.next = counted.next
        /\ new.attempts = counted.attempts /\ new.deferrals = counted.deferrals
        /\ new.due = end + Backoff[attempt]
    BY <1>2 DEF Event, SameEvent, Iso
  <2>4. Postpones(e, new, end)
    <3> HIDE DEF new
    <3>1. SameEvent(e, new)
      BY <1>2, <2>3 DEF SameEvent
    <3>2. end <= new.due /\ new.due <= end + Backoff[attempt]
      BY <2>2, <2>3
    <3> QED
      BY <1>1, <2>1, <2>2, <2>3, <3>1, <3>2 DEF Postpones
  <2> QED
    BY <1>4, <1>6, <2>4 DEF Called
<1> QED
  BY <1>5, <1>6

Requeues(e, new, t) ==
  /\ SameEvent(e, new) /\ e.status = "dead_letter" /\ e.next < Total(e)
  /\ new.status = "pending" /\ new.completed = None /\ new.next = e.next
  /\ new.due = WholeSecond(t)
  /\ new.attempts = [e.attempts EXCEPT ![e.next] = 0]
  /\ new.deferrals = [e.deferrals EXCEPT ![e.next] = 0]

Enqueues(new, t) ==
  /\ new.status = "pending" /\ new.completed = None /\ new.next = 0 /\ ~new.sanitized
  /\ new.created = WholeSecond(t) /\ new.due = WholeSecond(t)
  /\ new.attempts = NoCounts /\ new.deferrals = NoCounts

\* What a step that ends at t can make of an event.
EventStep(e, new, t) ==
  \/ new = e
  \/ new = Quarantined(e, t)
  \/ Settles(e, new)
  \/ e.status = "pending" /\ e.next \in Parts /\ Valid(e) /\ Called(e, new, t)
  \/ Requeues(e, new, t)
  \/ Enqueues(new, t)

Steps == \A j \in Ids : EventStep(outbox[j], outbox'[j], now')

LEMMA OneEventSteps ==
  ASSUME TypeOK, NEW i \in Ids, NEW e, outbox' = [outbox EXCEPT ![i] = e],
         EventStep(outbox[i], e, now')
  PROVE  Steps
<1> SUFFICES ASSUME NEW j \in Ids PROVE EventStep(outbox[j], outbox'[j], now')
  BY DEF Steps
<1>1. CASE j = i
  BY <1>1 DEF TypeOK
<1>2. CASE j # i
  BY <1>2 DEF TypeOK, EventStep
<1> QED
  BY <1>1, <1>2

LEMMA AcceptedSteps ==
  ASSUME TypeOK, NEW i \in Ids, NEW start, NEW end, PartAccepted(i, start, end)
  PROVE  Steps
<1> DEFINE e == outbox[i]
           new == Advanced(e, end)
           ob == [outbox EXCEPT ![i] = new]
<1>1. /\ e \in Event /\ e.next \in Parts /\ e.next < Total(e) /\ e.status = "pending"
      /\ end \in Nat /\ now' = end /\ Valid(e)
  BY CallFacts DEF PartAccepted
<1>2. new \in Event /\ Called(e, new, end)
  BY <1>1, AdvancedType, AdvancedCalled
<1>3. /\ outbox' \in Pruned(ob) /\ ob \in [Ids -> Event] /\ ob[i] = new
      /\ \A j \in Ids \ {i} : ob[j] = outbox[j]
  BY <1>2 DEF PartAccepted, Advanced, TypeOK
<1>4. SUFFICES ASSUME NEW j \in Ids PROVE EventStep(outbox[j], outbox'[j], now')
  BY DEF Steps
<1> HIDE DEF ob, new
<1>5. \/ outbox'[j] = ob[j]
      \/ /\ ob[j].status = "delivered"
         /\ outbox'[j] = [ob[j] EXCEPT !.status = "pruned"]
  BY <1>3, PrunedType
<1>6. CASE outbox'[j] = ob[j]
  <2>1. CASE j = i
    BY <1>1, <1>2, <1>3, <1>6, <2>1 DEF EventStep
  <2>2. CASE j # i
    BY <1>3, <1>6, <2>2 DEF EventStep
  <2> QED
    BY <2>1, <2>2
<1>7. CASE /\ ob[j].status = "delivered"
           /\ outbox'[j] = [ob[j] EXCEPT !.status = "pruned"]
  <2>1. SameEvent(ob[j], outbox'[j]) /\ outbox'[j].status = "pruned"
    BY <1>3, <1>7 DEF SameEvent, Event
  <2>2. SameEvent(outbox[j], ob[j])
    <3>1. CASE j = i
      BY <1>2, <1>3, <1>7, <3>1 DEF Called, Settles, Moves, Fails, Postpones
    <3>2. CASE j # i
      BY <1>3, <3>2 DEF SameEvent
    <3> QED
      BY <3>1, <3>2
  <2> QED
    BY <2>1, <2>2 DEF EventStep, Settles, SameEvent
<1> QED
  BY <1>5, <1>6, <1>7

LEMMA AnswerAfterStart ==
  ASSUME TypeOK, NEW i \in Ids, NEW start, NEW end, Calls(i, start, end)
  PROVE  start <= end
<1>1. start \in Nat
  BY CallFacts
<1>2. PICK d \in CallTime : end = start + d
  BY DEF Calls, EndTimes
<1>3. d \in Nat
  BY OutboxAssumption
<1> QED
  BY <1>1, <1>2, <1>3

LEMMA RateLimitedSteps ==
  ASSUME TypeOK, NEW i \in Ids, NEW start, NEW end, RateLimited(i, start, end)
  PROVE  Steps
<1> DEFINE e == outbox[i]
<1>1. /\ e \in Event /\ e.next \in Parts /\ start \in Nat /\ end \in Nat
      /\ e.status = "pending" /\ Valid(e) /\ now' = end
  BY CallFacts DEF RateLimited
<1>2. start <= end
  <2>1. Calls(i, start, end)
    BY DEF RateLimited
  <2> QED
    BY <2>1, AnswerAfterStart
<1>3. PICK h \in Headers(start), after \in RetryAfters \cup {None},
           date \in {start + d : d \in RetryDates} \cup {None} :
        outbox' = [outbox EXCEPT ![i] = Deferred(e, end, RetryTime(start, end, after, date, h))]
  BY DEF RateLimited, Deferred
<1> DEFINE retry == RetryTime(start, end, after, date, h)
<1>4. retry \in Nat /\ end <= retry /\ retry <= end + MaxDelay
  BY <1>1, <1>2, RetryTimeBounds
<1> HIDE DEF retry
<1>5. Called(e, Deferred(e, end, retry), end)
  BY <1>1, <1>4, DeferredCalled
<1>6. EventStep(e, Deferred(e, end, retry), now')
  BY <1>1, <1>5 DEF EventStep
<1>7. outbox' = [outbox EXCEPT ![i] = Deferred(e, end, retry)]
  BY <1>3 DEF retry
<1> QED
  BY <1>6, <1>7, OneEventSteps

LEMMA FailedSteps ==
  ASSUME TypeOK, NEW i \in Ids, NEW start, NEW end, SendFailed(i, start, end)
  PROVE  Steps
<1> DEFINE e == outbox[i]
<1>1. /\ e \in Event /\ e.next \in Parts /\ end \in Nat
      /\ e.status = "pending" /\ Valid(e) /\ now' = end
  BY CallFacts DEF SendFailed
<1>2. PICK terminal \in BOOLEAN : outbox' = [outbox EXCEPT ![i] = Retried(e, end, terminal)]
  BY DEF SendFailed, Retried
<1>3. EventStep(e, Retried(e, end, terminal), now')
  BY <1>1, RetriedCalled DEF EventStep
<1> QED
  BY <1>2, <1>3, OneEventSteps

LEMMA RequeueSteps ==
  ASSUME TypeOK, NEW i \in Ids, Requeue(i)
  PROVE  Steps
<1> DEFINE e == outbox[i]
           new == [e EXCEPT !.status = "pending", !.completed = None, !.due = WholeSecond(now),
                            !.attempts[e.next] = 0, !.deferrals[e.next] = 0]
<1>1. e \in Event /\ now \in Nat /\ e.status = "dead_letter" /\ e.next < Total(e)
  BY DEF TypeOK, Requeue
<1>2. /\ new.status = "pending" /\ new.completed = None /\ new.next = e.next
      /\ new.due = WholeSecond(now) /\ new.kind = e.kind /\ new.tent = e.tent
      /\ new.burst = e.burst /\ new.created = e.created /\ new.sanitized = e.sanitized
      /\ new.attempts = [e.attempts EXCEPT ![e.next] = 0]
      /\ new.deferrals = [e.deferrals EXCEPT ![e.next] = 0]
  BY <1>1 DEF Event
<1>3. outbox' = [outbox EXCEPT ![i] = new] /\ now' = now
  BY DEF Requeue
<1> HIDE DEF new
<1>4. Requeues(e, new, now')
  BY <1>1, <1>2, <1>3 DEF Requeues, SameEvent
<1> QED
  BY <1>3, <1>4, OneEventSteps DEF EventStep

LEMMA EnqueueSteps ==
  ASSUME TypeOK, NEW i \in Ids, NEW kind \in Kinds, NEW tent \in Tents,
         NEW burst \in BOOLEAN, Enqueue(i, kind, tent, burst)
  PROVE  Steps
<1> DEFINE e == [Absent EXCEPT !.status = "pending", !.kind = kind, !.tent = tent,
                               !.burst = burst, !.created = WholeSecond(now),
                               !.due = WholeSecond(now)]
<1>1. Enqueues(e, now)
  BY DEF Absent, Enqueues
<1>2. outbox' = [outbox EXCEPT ![i] = e] /\ now' = now
  BY DEF Enqueue
<1> HIDE DEF e
<1> QED
  BY <1>1, <1>2, OneEventSteps DEF EventStep

LEMMA QuarantineSteps ==
  ASSUME TypeOK, NEW i \in Ids, outbox' = [outbox EXCEPT ![i] = Quarantined(outbox[i], now')]
  PROVE  Steps
<1> DEFINE e == Quarantined(outbox[i], now')
<1>1. EventStep(outbox[i], e, now')
  BY DEF EventStep
<1>2. outbox' = [outbox EXCEPT ![i] = e]
  OBVIOUS
<1> HIDE DEF e
<1> QED
  BY <1>1, <1>2, OneEventSteps

LEMMA StepForward ==
  ASSUME TypeOK, [Next]_vars
  PROVE  Steps /\ now' \in Nat /\ now <= now'
<1>1. now \in Nat
  BY DEF TypeOK
<1>2. ASSUME UNCHANGED outbox PROVE Steps
  BY <1>2 DEF Steps, EventStep
<1>3. ASSUME NEW i \in Ids, NEW start, NEW end, Calls(i, start, end)
      PROVE  now' = end /\ end \in Nat /\ now <= end
  <2>1. start \in Nat /\ end \in Nat /\ now' = end /\ outbox[i] \in Event
    BY <1>3, CallFacts
  <2>2. DueNow(i) \in Nat
    BY <2>1, DueNat DEF DueNow, TypeOK
  <2>3. IF DueNow(i) <= now THEN start = now ELSE start >= DueNow(i)
    BY <1>3, <2>2, OutboxAssumption DEF Calls, StartTimes
  <2>4. start <= end
    BY <1>3, <2>1, OutboxAssumption DEF Calls, EndTimes
  <2> QED
    BY <1>1, <2>1, <2>2, <2>3, <2>4
<1>4. CASE UNCHANGED vars
  BY <1>1, <1>2, <1>4 DEF vars
<1>5. CASE \E i \in Ids : QuarantinePoison(i)
  <2>1. PICK i \in Ids : QuarantinePoison(i)
    BY <1>5
  <2>2. now' = now /\ outbox' = [outbox EXCEPT ![i] = Quarantined(outbox[i], now')]
    BY <2>1 DEF QuarantinePoison
  <2>3. Steps
    BY <2>2, QuarantineSteps
  <2> QED
    BY <1>1, <2>2, <2>3
<1>6. ASSUME NEW i \in Ids, NEW start, NEW end, Answered(i, start, end)
      PROVE  Steps /\ now' \in Nat /\ now <= now'
  <2>1. Calls(i, start, end)
    BY <1>6 DEF Answered, PartAccepted, RateLimited, SendFailed, SenderRaised
  <2>2. CASE SenderRaised(i, start, end)
    <3>1. outbox' = [outbox EXCEPT ![i] = Quarantined(outbox[i], now')]
      BY <1>3, <2>1, <2>2 DEF SenderRaised
    <3> QED
      BY <1>3, <2>1, <3>1, QuarantineSteps
  <2> QED
    BY <1>3, <1>6, <2>1, <2>2, AcceptedSteps, RateLimitedSteps, FailedSteps DEF Answered
<1>7. ASSUME NEW i \in Ids, NEW start, NEW end, KilledMidCall(i, start, end)
      PROVE  Steps /\ now' \in Nat /\ now <= now'
  BY <1>2, <1>3, <1>7 DEF KilledMidCall
<1>8. CASE \E i \in Ids, kind \in Kinds, tent \in Tents, burst \in BOOLEAN :
             Enqueue(i, kind, tent, burst)
  <2>1. now' = now
    BY <1>8 DEF Enqueue
  <2> QED
    BY <1>1, <1>8, <2>1, EnqueueSteps
<1>9. CASE \E i \in Ids : Requeue(i)
  <2>1. now' = now
    BY <1>9 DEF Requeue
  <2> QED
    BY <1>1, <1>9, <2>1, RequeueSteps
<1>10. CASE \E tents \in SUBSET Tents : Deploy(tents)
  BY <1>1, <1>2, <1>10 DEF Deploy
<1>11. CASE Tick
  BY <1>1, <1>2, <1>11 DEF Tick
<1> QED
  BY <1>4, <1>5, <1>6, <1>7, <1>8, <1>9, <1>10, <1>11
  DEF Next, Deliver, Selected, Candidates, Pending

-----------------------------------------------------------------------------
(* Events of the program's own making stay valid *)

\* Counts within the budget, and none ahead of the cursor.
Counted(counts, e, maximum) ==
  \A p \in Parts : counts[p] <= maximum /\ (p > e.next => counts[p] = 0)

\* What holds of an event that was never quarantined, dead letters included: they
\* may be requeued, and are then due at once but never before they were created.
Sound(e, t) ==
  ~e.sanitized =>
    /\ e.created <= WholeSecond(t)
    /\ Open(e) => /\ e.next < Total(e)
                  /\ Counted(e.attempts, e, MaxAttempts)
                  /\ Counted(e.deferrals, e, MaxDeferrals)
    /\ e.status = "pending" => /\ e.due >= e.created /\ e.completed = None
                               /\ e.attempts[e.next] < MaxAttempts
                               /\ e.deferrals[e.next] < MaxDeferrals

AllSound == \A i \in Ids : Sound(outbox[i], now)

LEMMA SoundIsValid ==
  ASSUME NEW e \in Event, NEW t, Sound(e, t), ~e.sanitized, e.status = "pending",
         e.kind = "availability" => e.tent \in enabled
  PROVE  Valid(e)
BY DEF Sound, Open, Counted, Valid, CountsValid

LEMMA TotalParts == \A e \in Event : e.next < Total(e) => e.next \in Parts /\ e.next \in Nat
BY Constants DEF Total, Parts, Event

\* One unit of a budget is spent at the cursor.
LEMMA SpentCounted ==
  ASSUME NEW e \in Event, NEW new \in Event, NEW counts \in [Parts -> Nat],
         NEW maximum \in Nat, e.next \in Parts, new.next \in {e.next, e.next + 1},
         Counted(counts, e, maximum), counts[e.next] < maximum
  PROVE  /\ Counted([counts EXCEPT ![e.next] = @ + 1], new, maximum)
         /\ Counted(counts, new, maximum)
<1>1. e.next \in Nat /\ new.next \in Nat /\ Parts \subseteq Nat
  BY DEF Event, Parts
<1> SUFFICES ASSUME NEW p \in Parts
             PROVE  LET spent == [counts EXCEPT ![e.next] = @ + 1]
                    IN  /\ spent[p] <= maximum /\ (p > new.next => spent[p] = 0)
                        /\ counts[p] <= maximum /\ (p > new.next => counts[p] = 0)
  BY DEF Counted
<1>2. p > new.next => p > e.next /\ p # e.next
  BY <1>1
<1>3. counts[p] <= maximum /\ (p > e.next => counts[p] = 0) /\ counts[p] \in Nat
  BY DEF Counted
<1>4. CASE p = e.next
  BY <1>1, <1>2, <1>3, <1>4
<1>5. CASE p # e.next
  BY <1>2, <1>3, <1>5
<1> QED
  BY <1>4, <1>5

LEMMA ResetCounted ==
  ASSUME NEW e \in Event, NEW counts \in [Parts -> Nat], NEW maximum \in Nat \ {0},
         e.next \in Parts, Counted(counts, e, maximum)
  PROVE  /\ Counted([counts EXCEPT ![e.next] = 0], e, maximum)
         /\ [counts EXCEPT ![e.next] = 0][e.next] < maximum
BY DEF Counted

LEMMA SoundCalled ==
  ASSUME NEW e \in Event, NEW new \in Event, NEW t \in Nat, NEW u \in Nat, t <= u,
         Sound(e, t), ~e.sanitized, Valid(e), e.next \in Parts, e.status = "pending",
         Called(e, new, u)
  PROVE  Sound(new, u)
<1>1. /\ e.created \in Nat /\ e.created <= WholeSecond(u) /\ e.next < Total(e)
      /\ WholeSecond(u) \in Nat /\ WholeSecond(u) <= u /\ e.completed = None
  <2>1. WholeSecond(t) <= WholeSecond(u) /\ WholeSecond(t) \in Nat /\ WholeSecond(u) \in Nat
        /\ WholeSecond(u) <= u
    BY WholeSecondMonotone, WholeSecondNat
  <2>2. e.created <= WholeSecond(t) /\ e.created \in Nat
    BY DEF Sound, Event
  <2> QED
    BY <2>1, <2>2 DEF Valid
<1>2. /\ e.attempts \in [Parts -> Nat] /\ e.deferrals \in [Parts -> Nat]
      /\ Counted(e.attempts, e, MaxAttempts) /\ Counted(e.deferrals, e, MaxDeferrals)
      /\ e.attempts[e.next] < MaxAttempts /\ e.deferrals[e.next] < MaxDeferrals
      /\ MaxAttempts \in Nat /\ MaxDeferrals \in Nat
  BY Constants DEF Event, Sound, Open
<1>3. SameEvent(e, new) /\ new.created <= WholeSecond(u) /\ Total(new) = Total(e)
  <2>1. SameEvent(e, new)
    BY DEF Called, Settles, Moves, Fails, Postpones
  <2> QED
    BY <1>1, <2>1 DEF SameEvent, Total
<1>4. CASE Settles(e, new)
  BY <1>3, <1>4 DEF Settles, Sound, Open
<1>5. CASE Fails(e, new)
  <2>1. Counted(new.attempts, new, MaxAttempts) /\ Counted(new.deferrals, new, MaxDeferrals)
    BY <1>2, <1>5, SpentCounted DEF Fails
  <2> QED
    BY <1>1, <1>3, <1>5, <2>1 DEF Fails, Sound
<1>6. CASE Postpones(e, new, u)
  <2>1. Counted(new.attempts, new, MaxAttempts) /\ Counted(new.deferrals, new, MaxDeferrals)
    BY <1>2, <1>6, SpentCounted DEF Postpones
  <2>2. new.attempts[new.next] < MaxAttempts /\ new.deferrals[new.next] < MaxDeferrals
    BY <1>2, <1>6 DEF Postpones
  <2>3. new.due >= new.created
    <3>1. u <= new.due /\ new.due \in Nat
      BY <1>6 DEF Postpones, Event
    <3>2. new.created \in Nat
      BY DEF Event
    <3> QED
      BY <1>1, <1>3, <3>1, <3>2
  <2> QED
    BY <1>1, <1>3, <1>6, <2>1, <2>2, <2>3 DEF Postpones, Sound
<1>7. CASE Moves(e, new, u)
  <2>1. Counted(new.attempts, new, MaxAttempts) /\ Counted(new.deferrals, new, MaxDeferrals)
    <3>1. /\ new.attempts = [e.attempts EXCEPT ![e.next] = @ + 1]
          /\ new.deferrals = e.deferrals /\ new.next \in {e.next, e.next + 1}
      BY <1>7 DEF Moves
    <3>2. Counted([e.attempts EXCEPT ![e.next] = @ + 1], new, MaxAttempts)
      BY <1>2, <3>1, SpentCounted
    <3>3. Counted(e.deferrals, new, MaxDeferrals)
      BY <1>2, <3>1, SpentCounted
    <3> QED
      BY <3>1, <3>2, <3>3
  <2>2. e.next \in Nat /\ new.next = e.next + 1 /\ new.next \in Parts
    BY <1>7, Constants DEF Moves, Event, Parts
  <2>3. e.attempts[new.next] = 0 /\ e.deferrals[new.next] = 0
    BY <1>2, <2>2 DEF Counted
  <2>4. new.attempts[new.next] < MaxAttempts /\ new.deferrals[new.next] < MaxDeferrals
    <3>1. /\ new.attempts = [e.attempts EXCEPT ![e.next] = @ + 1]
          /\ new.deferrals = e.deferrals
      BY <1>7 DEF Moves
    <3>2. new.next # e.next
      BY <2>2
    <3>3. new.attempts[new.next] = 0 /\ new.deferrals[new.next] = 0
      BY <1>2, <2>2, <2>3, <3>1, <3>2
    <3> QED
      BY <3>3, Constants
  <2>5. new.due >= new.created
    <3>1. Gaps[new.next] \in Nat /\ new.due = u + Gaps[new.next]
      BY <1>7, Constants DEF Moves
    <3>2. new.created \in Nat
      BY DEF Event
    <3> QED
      BY <1>1, <1>3, <3>1, <3>2
  <2> QED
    BY <1>1, <1>3, <1>7, <2>1, <2>4, <2>5 DEF Moves, Sound
<1> QED
  BY <1>4, <1>5, <1>6, <1>7 DEF Called

LEMMA SoundStep ==
  ASSUME NEW e \in Event, NEW new \in Event, NEW t \in Nat, NEW u \in Nat, t <= u,
         Sound(e, t), EventStep(e, new, u)
  PROVE  Sound(new, u)
<1>1. /\ WholeSecond(t) <= WholeSecond(u) /\ WholeSecond(t) \in Nat
      /\ WholeSecond(u) \in Nat /\ e.created \in Nat
  BY WholeSecondMonotone, WholeSecondNat DEF Event
<1>2. ~e.sanitized => e.created <= WholeSecond(u)
  BY <1>1 DEF Sound
<1>3. CASE new = e
  BY <1>2, <1>3 DEF Sound
<1>4. CASE new = Quarantined(e, u)
  <2>1. Quarantined(e, u).sanitized
    BY DEF Quarantined, Absent
  <2> QED
    BY <1>4, <2>1 DEF Sound
<1>5. CASE Settles(e, new)
  BY <1>2, <1>5 DEF Settles, SameEvent, Sound, Open
<1>6. CASE e.status = "pending" /\ e.next \in Parts /\ Valid(e) /\ Called(e, new, u)
  <2>1. CASE e.sanitized
    <3>1. new.sanitized
      BY <1>6, <2>1 DEF Called, Settles, Moves, Fails, Postpones, SameEvent
    <3> QED
      BY <3>1 DEF Sound
  <2>2. CASE ~e.sanitized
    BY <1>6, <2>2, SoundCalled
  <2> QED
    BY <2>1, <2>2
<1>7. CASE Requeues(e, new, u)
  <2>1. CASE e.sanitized
    BY <1>7, <2>1 DEF Requeues, SameEvent, Sound
  <2>2. CASE ~e.sanitized
    <3>1. /\ e.next \in Parts /\ Counted(e.attempts, e, MaxAttempts)
          /\ Counted(e.deferrals, e, MaxDeferrals)
          /\ e.attempts \in [Parts -> Nat] /\ e.deferrals \in [Parts -> Nat]
      BY <1>7, <2>2, TotalParts DEF Requeues, Sound, Open, Event
    <3>2. /\ Counted(new.attempts, e, MaxAttempts) /\ new.attempts[e.next] < MaxAttempts
          /\ Counted(new.deferrals, e, MaxDeferrals) /\ new.deferrals[e.next] < MaxDeferrals
      <4>1. /\ new.attempts = [e.attempts EXCEPT ![e.next] = 0]
            /\ new.deferrals = [e.deferrals EXCEPT ![e.next] = 0]
        BY <1>7 DEF Requeues
      <4>2. MaxAttempts \in Nat \ {0} /\ MaxDeferrals \in Nat \ {0}
        BY Constants
      <4> QED
        BY <3>1, <4>1, <4>2, ResetCounted
    <3>3. Counted(new.attempts, new, MaxAttempts) /\ Counted(new.deferrals, new, MaxDeferrals)
      BY <1>7, <3>2 DEF Counted, Requeues
    <3>4. Total(new) = Total(e)
      BY <1>7 DEF Total, Requeues, SameEvent
    <3> QED
      BY <1>1, <1>2, <1>7, <2>2, <3>2, <3>3, <3>4 DEF Requeues, SameEvent, Sound
  <2> QED
    BY <2>1, <2>2
<1>8. CASE Enqueues(new, u)
  <2>1. 0 \in Parts /\ \A p \in Parts : NoCounts[p] = 0
    BY Constants DEF Parts, NoCounts
  <2>2. Total(new) > 0
    BY Constants DEF Total
  <2>3. new.next = 0
    BY <1>8 DEF Enqueues
  <2>4. Counted(new.attempts, new, MaxAttempts) /\ Counted(new.deferrals, new, MaxDeferrals)
    BY <1>8, <2>1, Constants DEF Enqueues, Counted
  <2>5. new.attempts[new.next] < MaxAttempts /\ new.deferrals[new.next] < MaxDeferrals
    BY <1>8, <2>1, Constants DEF Enqueues
  <2> QED
    BY <1>1, <1>8, <2>2, <2>3, <2>4, <2>5 DEF Enqueues, Sound
<1> QED
  BY <1>3, <1>4, <1>5, <1>6, <1>7, <1>8 DEF EventStep

THEOREM SoundInit == Init => AllSound
<1> SUFFICES ASSUME Init, NEW i \in Ids PROVE Sound(outbox[i], now)
  BY DEF AllSound
<1>1. outbox[i] = Absent /\ now = 0
  BY DEF Init
<1>2. WholeSecond(0) \in Nat
  BY WholeSecondNat
<1> QED
  BY <1>1, <1>2 DEF Absent, Sound, Open

THEOREM SoundNext == TypeOK /\ TypeOK' /\ AllSound /\ [Next]_vars => AllSound'
<1> SUFFICES ASSUME TypeOK, TypeOK', AllSound, [Next]_vars, NEW i \in Ids
             PROVE  Sound(outbox'[i], now')
  BY DEF AllSound
<1>1. EventStep(outbox[i], outbox'[i], now') /\ now' \in Nat /\ now <= now' /\ now \in Nat
  BY StepForward DEF Steps, TypeOK
<1>2. outbox[i] \in Event /\ outbox'[i] \in Event
  BY DEF TypeOK
<1> QED
  BY <1>1, <1>2, SoundStep DEF AllSound

\* NeverPoisonsOwn: no sequence of enqueues, answers, kills, requeues and deployments
\* makes an event of an enabled tent fail the validation of the next process.
THEOREM OwnEventsValid == Spec => []NeverPoisonsOwn
<1>1. TypeOK /\ AllSound => NeverPoisonsOwn
  <2> SUFFICES ASSUME TypeOK, AllSound, NEW i \in Pending, ~outbox[i].sanitized,
                      outbox[i].kind = "availability" => outbox[i].tent \in enabled
               PROVE  i \notin Poison
    BY DEF NeverPoisonsOwn
  <2>1. i \in Ids /\ outbox[i].status = "pending" /\ outbox[i] \in Event
    BY DEF Pending, TypeOK
  <2>2. Valid(outbox[i])
    BY <2>1, SoundIsValid DEF AllSound
  <2> QED
    BY <2>2 DEF Poison
<1>2. Spec => []AllSound
  BY SoundInit, SoundNext, TypeCorrect, PTL DEF Spec
<1> QED
  BY <1>1, <1>2, TypeCorrect, PTL

-----------------------------------------------------------------------------
(* Quotas and delays *)

\* Every recorded reset lies within the longest accepted delay.
Soon(quota, t) == \A k \in Kinds : quota[k].reset # None => quota[k].reset <= t + MaxDelay

LEMMA LaterSoon ==
  ASSUME NEW quota \in [Kinds -> Quota], NEW t \in Nat, NEW u \in Nat, t <= u, Soon(quota, t)
  PROVE  Soon(quota, u)
<1> SUFFICES ASSUME NEW k \in Kinds, quota[k].reset # None
             PROVE  quota[k].reset <= u + MaxDelay
  BY DEF Soon
<1>1. quota[k].reset \in Nat /\ quota[k].reset <= t + MaxDelay
  BY DEF Quota, Soon
<1> QED
  BY <1>1, Constants

LEMMA RecordQuotaSoon ==
  ASSUME TypeOK, Soon(pushover_quota, now), NEW kind \in Kinds,
         NEW remaining \in Nat \cup {None}, NEW reset \in Nat \cup {None},
         NEW t \in Nat, now <= t
  PROVE  Soon(RecordQuota(kind, remaining, reset, t), t)
<1> DEFINE future == FutureReset(IF reset # None THEN reset
                                 ELSE pushover_quota[kind].reset, t)
           default == NextSecond(t + DefaultDelay)
           entry == [remaining |-> IF remaining # None THEN remaining
                                   ELSE pushover_quota[kind].remaining,
                     reset |-> IF remaining = 0 /\ future = None THEN default ELSE future]
<1>1. default <= t + MaxDelay
  <2>1. t + DefaultDelay \in Nat /\ DefaultDelay + TicksPerSecond - 1 <= MaxDelay
    BY OutboxAssumption
  <2>2. NextSecond(t + DefaultDelay) <= t + DefaultDelay + TicksPerSecond - 1
        /\ NextSecond(t + DefaultDelay) \in Nat
    BY <2>1, NextSecondSoon, NextSecondNat
  <2> QED
    BY <2>1, <2>2, OutboxAssumption
<1>2. future # None => future <= t + MaxDelay
  BY DEF FutureReset
<1>3. entry.reset # None => entry.reset <= t + MaxDelay
  <2> HIDE DEF future, default
  <2> QED
    BY <1>1, <1>2
<1>4. RecordQuota(kind, remaining, reset, t)
        \in {pushover_quota, [pushover_quota EXCEPT ![kind] = entry]}
  BY DEF RecordQuota
<1>5. Soon(pushover_quota, t) /\ pushover_quota \in [Kinds -> Quota]
  BY LaterSoon DEF TypeOK
<1> HIDE DEF entry
<1>6. Soon([pushover_quota EXCEPT ![kind] = entry], t)
  BY <1>3, <1>5 DEF Soon
<1> QED
  BY <1>4, <1>5, <1>6

QuotaSoon == Soon(pushover_quota, now)

LEMMA QuotaCall ==
  ASSUME TypeOK, QuotaSoon, NEW i \in Ids, NEW start, NEW end,
         PartAccepted(i, start, end) \/ RateLimited(i, start, end), now <= end
  PROVE  Soon(pushover_quota', end)
<1>1. /\ outbox[i].kind \in Kinds /\ start \in Nat /\ end \in Nat /\ now \in Nat
      /\ pushover_quota \in [Kinds -> Quota]
  BY CallFacts DEF PartAccepted, RateLimited, Event, TypeOK
<1>2. CASE PartAccepted(i, start, end)
  <2>1. PICK h \in Headers(start) :
          pushover_quota' = RecordQuota(outbox[i].kind, h.remaining, h.reset, end)
    BY <1>2 DEF PartAccepted
  <2> QED
    BY <1>1, <2>1, HeadersType, RecordQuotaSoon DEF QuotaSoon
<1>3. CASE RateLimited(i, start, end)
  <2>1. PICK h \in Headers(start), after \in RetryAfters \cup {None},
             date \in {start + d : d \in RetryDates} \cup {None} :
          LET retry == RetryTime(start, end, after, date, h)
              reset == IF h.remaining = 0 /\ FutureReset(h.reset, end) = None
                       THEN NextSecond(retry) ELSE h.reset
          IN  pushover_quota' = IF h.remaining = None THEN pushover_quota
                                ELSE RecordQuota(outbox[i].kind, h.remaining, reset, end)
    BY <1>3 DEF RateLimited
  <2> DEFINE retry == RetryTime(start, end, after, date, h)
             reset == IF h.remaining = 0 /\ FutureReset(h.reset, end) = None
                      THEN NextSecond(retry) ELSE h.reset
  <2>2. h.remaining \in Nat \cup {None} /\ reset \in Nat \cup {None}
    <3>1. retry \in Nat
      BY <1>1, RetryTimeNat
    <3> HIDE DEF retry
    <3> QED
      BY <1>1, <3>1, NextSecondNat, HeadersType
  <2>3. \/ pushover_quota' = pushover_quota
        \/ pushover_quota' = RecordQuota(outbox[i].kind, h.remaining, reset, end)
    BY <2>1
  <2> HIDE DEF reset
  <2> QED
    BY <1>1, <2>2, <2>3, RecordQuotaSoon, LaterSoon DEF QuotaSoon
<1> QED
  BY <1>2, <1>3

THEOREM QuotaInit == Init => QuotaSoon
BY DEF Init, QuotaSoon, Soon

THEOREM QuotaNext == TypeOK /\ QuotaSoon /\ [Next]_vars => QuotaSoon'
<1> SUFFICES ASSUME TypeOK, QuotaSoon, [Next]_vars PROVE QuotaSoon'
  OBVIOUS
<1>1. now \in Nat /\ now' \in Nat /\ now <= now' /\ pushover_quota \in [Kinds -> Quota]
  BY StepForward DEF TypeOK
<1>2. ASSUME UNCHANGED pushover_quota PROVE QuotaSoon'
  BY <1>1, <1>2, LaterSoon DEF QuotaSoon
<1>3. CASE UNCHANGED vars
  BY <1>2, <1>3 DEF vars
<1>4. ASSUME NEW i \in Ids, NEW start, NEW end, Answered(i, start, end) PROVE QuotaSoon'
  <2>1. Calls(i, start, end) /\ now' = end
    BY <1>4 DEF Answered, PartAccepted, RateLimited, SendFailed, SenderRaised, Calls
  <2>2. CASE PartAccepted(i, start, end) \/ RateLimited(i, start, end)
    BY <1>1, <2>1, <2>2, QuotaCall DEF QuotaSoon
  <2>3. CASE SendFailed(i, start, end) \/ SenderRaised(i, start, end)
    BY <1>2, <2>3 DEF SendFailed, SenderRaised
  <2> QED
    BY <1>4, <2>2, <2>3 DEF Answered
<1>5. ASSUME NEW i, QuarantinePoison(i) PROVE QuotaSoon'
  BY <1>2, <1>5 DEF QuarantinePoison
<1>6. ASSUME NEW i, NEW start, NEW end, KilledMidCall(i, start, end) PROVE QuotaSoon'
  BY <1>2, <1>6 DEF KilledMidCall
<1>7. ASSUME NEW i, NEW kind, NEW tent, NEW burst, Enqueue(i, kind, tent, burst)
      PROVE  QuotaSoon'
  BY <1>2, <1>7 DEF Enqueue
<1>8. ASSUME NEW i, Requeue(i) PROVE QuotaSoon'
  BY <1>2, <1>8 DEF Requeue
<1>9. ASSUME NEW tents, Deploy(tents) PROVE QuotaSoon'
  BY <1>2, <1>9 DEF Deploy
<1>10. CASE Tick
  BY <1>2, <1>10 DEF Tick
<1> QED
  BY <1>3, <1>4, <1>5, <1>6, <1>7, <1>8, <1>9, <1>10
  DEF Next, Deliver, Selected, Candidates, Pending

THEOREM QuotaAlwaysSoon == Spec => []QuotaSoon
BY QuotaInit, QuotaNext, TypeCorrect, PTL DEF Spec

\* While an event of a channel that is not exhausted is due, none that must be waited
\* for is selected.
LEMMA DueNotWaited ==
  ASSUME TypeOK, NEW i \in Selected, NEW j \in Pending, outbox[j].due <= now,
         ~Exhausted(outbox[j].kind, now)
  PROVE  StartTimes(i) = {now}
<1>1. /\ outbox[i] \in Event /\ outbox[j] \in Event /\ i \in Ids /\ j \in Ids
      /\ pushover_quota \in [Kinds -> Quota] /\ now \in Nat
  BY DEF TypeOK, Selected, Candidates, Pending
<1>2. DueNow(i) \in Nat /\ DueNow(j) \in Nat
  BY <1>1, DueNat DEF DueNow
<1>3. DueNow(j) <= now
  <2> DEFINE q == pushover_quota[outbox[j].kind]
  <2>1. outbox[j].kind \in Kinds /\ outbox[j].due \in Nat /\ q.reset \in Nat \cup {None}
    BY <1>1 DEF Event, Quota
  <2>2. ~(q.remaining = 0 /\ q.reset # None /\ q.reset > now)
    BY DEF Exhausted
  <2> QED
    BY <1>1, <2>1, <2>2, OutboxAssumption DEF DueNow, Due
<1>4. DueNow(i) <= now
  <2> DEFINE continuations == {k \in Pending : outbox[k].next > 0 /\ DueNow(k) <= now}
  <2>1. CASE continuations # {}
    BY <2>1 DEF Selected, Candidates
  <2>2. CASE continuations = {}
    <3>1. Candidates = Pending
      BY <2>2, Zenon DEF Candidates
    <3>2. ~Earlier(j, i)
      BY <3>1 DEF Selected
    <3> QED
      BY <1>2, <1>3, <3>2, <1>1 DEF Earlier
  <2> QED
    BY <2>1, <2>2
<1> QED
  BY <1>4 DEF StartTimes

\* QuotaRespected: no call is made before the reset of its channel's exhausted quota,
\* and none is waited for while the other channel, not exhausted, has an event due.
THEOREM ExhaustedNotCalled == Spec => QuotaRespected
<1>1. TypeOK /\ QuotaSoon /\ [Next]_vars
        => [call' # None =>
              /\ ~Exhausted(outbox[call'.id].kind, call'.start)
              /\ (\E j \in Pending : outbox[j].due <= now /\ ~Exhausted(outbox[j].kind, now))
                   => call'.start = now]_vars
  <2> SUFFICES ASSUME TypeOK, QuotaSoon, [Next]_vars, ~ UNCHANGED vars, call' # None
               PROVE  /\ ~Exhausted(outbox[call'.id].kind, call'.start)
                      /\ (\E j \in Pending : /\ outbox[j].due <= now
                                             /\ ~Exhausted(outbox[j].kind, now))
                           => call'.start = now
    OBVIOUS
  <2>0. PICK i \in Ids : \E start, end : Calls(i, start, end)
    <3>1. Next
      OBVIOUS
    <3>2. ASSUME NEW i, QuarantinePoison(i) PROVE FALSE
      BY <3>2 DEF QuarantinePoison
    <3>3. ASSUME NEW i, NEW kind, NEW tent, NEW burst, Enqueue(i, kind, tent, burst)
          PROVE  FALSE
      BY <3>3 DEF Enqueue
    <3>4. ASSUME NEW i, Requeue(i) PROVE FALSE
      BY <3>4 DEF Requeue
    <3>5. ASSUME NEW tents, Deploy(tents) PROVE FALSE
      BY <3>5 DEF Deploy
    <3>6. ~Tick
      BY DEF Tick
    <3>7. ASSUME NEW i, NEW start, NEW end,
                 Answered(i, start, end) \/ KilledMidCall(i, start, end)
          PROVE  Calls(i, start, end)
      BY <3>7 DEF Answered, PartAccepted, RateLimited, SendFailed, SenderRaised,
                  KilledMidCall
    <3> QED
      BY <3>1, <3>2, <3>3, <3>4, <3>5, <3>6, <3>7
      DEF Next, Deliver, Selected, Candidates, Pending
  <2>1. PICK start, end : Calls(i, start, end)
    BY <2>0
  <2> DEFINE e == outbox[i]
             q == pushover_quota[e.kind]
  <2>2. /\ call'.id = i /\ call'.start = start /\ start \in StartTimes(i) /\ i \in Selected
        /\ start \in Nat
    BY <2>1, CallFacts DEF Calls
  <2>3. ASSUME Exhausted(e.kind, start) PROVE FALSE
    <3>1. /\ e.due \in Nat /\ q.reset \in Nat /\ q.reset <= now + MaxDelay
          /\ q.remaining = 0 /\ q.reset # None /\ now \in Nat /\ q.reset > start
      <4>1. outbox[i] \in Event
        BY <2>1, CallFacts
      <4>2. e.kind \in Kinds /\ e.due \in Nat
        BY <4>1 DEF Event
      <4>3. q.remaining = 0 /\ q.reset # None /\ q.reset > start
        BY <2>3 DEF Exhausted
      <4> QED
        BY <4>2, <4>3 DEF TypeOK, Quota, QuotaSoon, Soon
    <3>2. q.reset <= DueNow(i) /\ DueNow(i) \in Nat
      BY <3>1 DEF DueNow, Due
    <3>3. start >= DueNow(i)
      BY <2>2, <3>1, <3>2, OutboxAssumption DEF StartTimes
    <3> QED
      BY <2>2, <3>1, <3>2, <3>3
  <2>4. ASSUME NEW j \in Pending, outbox[j].due <= now, ~Exhausted(outbox[j].kind, now)
        PROVE  start = now
    BY <2>2, <2>4, DueNotWaited
  <2> QED
    BY <2>2, <2>3, <2>4
<1> QED
  BY <1>1, QuotaAlwaysSoon, TypeCorrect, PTL DEF Spec, QuotaRespected

\* Every pending event is due within one of the delays.
DueSoon(e, t) == e.status = "pending" => \E d \in Delays : e.due <= t + d

AllDueSoon == \A i \in Ids : DueSoon(outbox[i], now)

LEMMA DueStep ==
  ASSUME NEW e \in Event, NEW new \in Event, NEW t \in Nat, NEW u \in Nat, t <= u,
         DueSoon(e, t), EventStep(e, new, u)
  PROVE  DueSoon(new, u)
<1>1. Delays \subseteq Nat /\ MaxDelay \in Delays /\ e.due \in Nat /\ new.due \in Nat
  BY DelayRanges DEF Event
<1>2. CASE new = e
  BY <1>1, <1>2 DEF DueSoon
<1>3. CASE new = Quarantined(e, u)
  BY <1>3 DEF Quarantined, Absent, DueSoon
<1>4. CASE Settles(e, new) \/ Fails(e, new)
  BY <1>4 DEF Settles, Fails, DueSoon
<1>5. CASE Moves(e, new, u)
  <2>1. new.due = u + Gaps[new.next] /\ Gaps[new.next] \in Delays
    BY <1>5, DelayRanges DEF Moves
  <2>2. new.due <= u + Gaps[new.next]
    BY <1>1, <2>1
  <2> QED
    BY <2>1, <2>2 DEF DueSoon
<1>6. CASE Postpones(e, new, u)
  BY <1>6 DEF Postpones, DueSoon
<1>7. CASE new.due = WholeSecond(u)
  <2>1. new.due <= u
    BY <1>7, WholeSecondNat
  <2>2. MaxDelay \in Delays /\ new.due <= u + MaxDelay
    BY <1>1, <2>1
  <2> QED
    BY <2>2 DEF DueSoon
<1> QED
  BY <1>2, <1>3, <1>4, <1>5, <1>6, <1>7 DEF EventStep, Called, Requeues, Enqueues

THEOREM DueInit == Init => AllDueSoon
BY DEF Init, AllDueSoon, DueSoon, Absent

THEOREM DueNext == TypeOK /\ TypeOK' /\ AllDueSoon /\ [Next]_vars => AllDueSoon'
<1> SUFFICES ASSUME TypeOK, TypeOK', AllDueSoon, [Next]_vars, NEW i \in Ids
             PROVE  DueSoon(outbox'[i], now')
  BY DEF AllDueSoon
<1>1. EventStep(outbox[i], outbox'[i], now') /\ now' \in Nat /\ now <= now' /\ now \in Nat
  BY StepForward DEF Steps, TypeOK
<1>2. outbox[i] \in Event /\ outbox'[i] \in Event
  BY DEF TypeOK
<1> QED
  BY <1>1, <1>2, DueStep DEF AllDueSoon

\* DeferralBounded: no header, date or quota parks an event beyond the known delays.
THEOREM DeferralsBounded == Spec => []DeferralBounded
<1>1. TypeOK /\ QuotaSoon /\ AllDueSoon => DeferralBounded
  <2> SUFFICES ASSUME TypeOK, QuotaSoon, AllDueSoon, NEW i \in Pending
               PROVE  \E d \in Delays : DueNow(i) <= now + d
    BY DEF DeferralBounded
  <2>1. i \in Ids /\ outbox[i].status = "pending" /\ outbox[i].kind \in Kinds
    BY DEF Pending, TypeOK, Event
  <2>2. PICK d \in Delays : outbox[i].due <= now + d
    BY <2>1 DEF AllDueSoon, DueSoon
  <2>3. CASE DueNow(i) = outbox[i].due
    BY <2>2, <2>3
  <2>4. CASE DueNow(i) # outbox[i].due
    <3>1. /\ DueNow(i) = pushover_quota[outbox[i].kind].reset
          /\ pushover_quota[outbox[i].kind].reset # None
      BY <2>4 DEF DueNow, Due
    <3> QED
      BY <2>1, <3>1, DelayRanges DEF QuotaSoon, Soon
  <2> QED
    BY <2>3, <2>4
<1>2. Spec => []AllDueSoon
  BY DueInit, DueNext, TypeCorrect, PTL DEF Spec
<1> QED
  BY <1>1, <1>2, QuotaAlwaysSoon, TypeCorrect, PTL

-----------------------------------------------------------------------------
(* Continuations first *)

\* An event that was overtaken once is a due continuation still, or starts over.
Overtaken(j) ==
  \/ overtaken[j] = 0
  \/ /\ overtaken[j] = 1
     /\ outbox[j].next = 0 \/ (outbox[j].status = "pending" /\ DueNow(j) <= now)

OvertakenOnce == \A j \in Ids : Overtaken(j)

\* A call leaves the other events alone, deliveries it prunes excepted.
LEMMA OthersAlone ==
  ASSUME TypeOK, NEW i \in Ids, NEW start, NEW end,
         Answered(i, start, end) \/ KilledMidCall(i, start, end), NEW j \in Ids, j # i
  PROVE  \/ outbox'[j] = outbox[j]
         \/ outbox[j].status = "delivered" /\ outbox'[j].next = outbox[j].next
<1>1. CASE PartAccepted(i, start, end)
  <2> DEFINE new == Advanced(outbox[i], end)
             ob == [outbox EXCEPT ![i] = new]
  <2>1. outbox[i] \in Event /\ outbox[i].next \in Parts /\ end \in Nat
    BY <1>1, CallFacts DEF PartAccepted
  <2>2. new \in Event
    BY <2>1, AdvancedType
  <2>3. outbox' \in Pruned(ob) /\ ob \in [Ids -> Event] /\ ob[j] = outbox[j]
    BY <1>1, <2>2 DEF PartAccepted, Advanced, TypeOK
  <2> HIDE DEF ob
  <2>4. \/ outbox'[j] = ob[j]
        \/ /\ ob[j].status = "delivered"
           /\ outbox'[j] = [ob[j] EXCEPT !.status = "pruned"]
    BY <2>3, PrunedType
  <2>5. ob[j] \in Event
    BY <2>3
  <2> QED
    BY <2>3, <2>4, <2>5 DEF Event
<1>2. CASE RateLimited(i, start, end)
  <2>1. PICK e \in Event : outbox' = [outbox EXCEPT ![i] = e]
    BY <1>2, RateLimitedForm
  <2> QED
    BY <2>1 DEF TypeOK
<1>3. CASE SendFailed(i, start, end)
  <2>1. PICK e \in Event : outbox' = [outbox EXCEPT ![i] = e]
    BY <1>3, FailedForm
  <2> QED
    BY <2>1 DEF TypeOK
<1>4. CASE SenderRaised(i, start, end)
  <2> DEFINE e == Quarantined(outbox[i], end)
  <2>1. outbox' = [outbox EXCEPT ![i] = e]
    BY <1>4 DEF SenderRaised
  <2> HIDE DEF e
  <2> QED
    BY <2>1 DEF TypeOK
<1>5. CASE KilledMidCall(i, start, end)
  BY <1>5 DEF KilledMidCall
<1> QED
  BY <1>1, <1>2, <1>3, <1>4, <1>5 DEF Answered

\* A first part is selected only when no continuation is due.
LEMMA FirstWhenNoneDue ==
  ASSUME TypeOK, NEW i \in Ids, NEW start, NEW end, Calls(i, start, end), outbox[i].next = 0,
         NEW j \in Ids, outbox[j].status = "pending", outbox[j].next > 0
  PROVE  ~(DueNow(j) <= now)
<1> DEFINE continuations == {k \in Pending : outbox[k].next > 0 /\ DueNow(k) <= now}
<1>1. i \in Candidates
  BY DEF Calls, Selected
<1>2. i \notin continuations
  OBVIOUS
<1>3. continuations = {}
  BY <1>1, <1>2, Zenon DEF Candidates
<1> QED
  BY <1>3 DEF Pending

LEMMA OvertakenCall ==
  ASSUME TypeOK, OvertakenOnce, NEW i \in Ids, NEW start, NEW end,
         Answered(i, start, end) \/ KilledMidCall(i, start, end)
  PROVE  OvertakenOnce'
<1> SUFFICES ASSUME NEW j \in Ids PROVE Overtaken(j)'
  BY DEF OvertakenOnce
<1>1. Calls(i, start, end) /\ CountOvertaking(i, start, end) /\ now' = end
  BY DEF Answered, PartAccepted, RateLimited, SendFailed, SenderRaised, KilledMidCall, Calls
<1>2. Overtaken(j)
  BY DEF OvertakenOnce
<1>3. CASE j = i \/ Due(outbox'[j], pushover_quota', end) > end
  BY <1>1, <1>3 DEF CountOvertaking, Overtaken
<1>4. CASE j # i /\ ~(Due(outbox'[j], pushover_quota', end) > end)
  <2>1. DueNow(j)' <= now'
    <3>1. end \in Nat
      BY <1>1, CallFacts
    <3>2. DueNow(j)' = Due(outbox'[j], pushover_quota', end)
      BY <1>1 DEF DueNow
    <3>3. TypeOK'
      BY TypeAnswered, TypeKilled
    <3>4. outbox'[j] \in Event /\ pushover_quota' \in [Kinds -> Quota]
      BY <3>3 DEF TypeOK
    <3>5. Due(outbox'[j], pushover_quota', end) \in Nat
      BY <3>4, DueNat
    <3> QED
      BY <1>1, <1>4, <3>1, <3>2, <3>5
  <2>2. \/ outbox'[j] = outbox[j]
        \/ outbox[j].status = "delivered" /\ outbox'[j].next = outbox[j].next
    BY <1>4, OthersAlone
  <2> DEFINE passed == /\ outbox[i].next = 0
                       /\ j \in Pending /\ outbox[j].next > 0
                       /\ Due(outbox[j], pushover_quota, start) <= start
  <2>3. overtaken'[j] = IF passed THEN overtaken[j] + 1 ELSE overtaken[j]
    BY <1>1, <1>4 DEF CountOvertaking
  <2>4. CASE ~passed
    <3>1. overtaken'[j] = overtaken[j]
      BY <2>3, <2>4
    <3> QED
      BY <1>2, <2>1, <2>2, <3>1 DEF Overtaken
  <2>5. CASE passed
    <3>1. outbox[j].status = "pending" /\ outbox[j].next > 0 /\ outbox[j].next # 0
      BY <2>5 DEF Pending, TypeOK, Event
    <3>2. ~(DueNow(j) <= now)
      BY <1>1, <2>5, <3>1, FirstWhenNoneDue
    <3>3. overtaken[j] = 0
      BY <1>2, <3>1, <3>2 DEF Overtaken
    <3>4. outbox'[j] = outbox[j] /\ overtaken'[j] = 1
      BY <2>2, <2>3, <2>5, <3>1, <3>3
    <3> QED
      BY <2>1, <3>1, <3>4 DEF Overtaken
  <2> QED
    BY <2>4, <2>5
<1> QED
  BY <1>3, <1>4

\* What is due stays due while time passes: a gate recorded later would be news.
LEMMA DueStaysDue ==
  ASSUME TypeOK, QuotaSoon, NEW j \in Ids, DueNow(j) <= now
  PROVE  Due(outbox[j], pushover_quota, now + 1) <= now + 1
<1> DEFINE q == pushover_quota[outbox[j].kind]
<1>1. /\ outbox[j].due \in Nat /\ outbox[j].kind \in Kinds /\ now \in Nat /\ MaxDelay \in Nat
  BY Constants DEF TypeOK, Event
<1>2. q.reset \in Nat \cup {None} /\ (q.reset # None => q.reset <= now + MaxDelay)
  BY <1>1 DEF TypeOK, Quota, QuotaSoon, Soon
<1> QED
  BY <1>1, <1>2 DEF DueNow, Due

\* A step that takes no time and rewrites one event keeps the rest as it is.
LEMMA OvertakenRewrite ==
  ASSUME TypeOK, OvertakenOnce, NEW i \in Ids, NEW e, outbox' = [outbox EXCEPT ![i] = e],
         UNCHANGED <<now, pushover_quota, overtaken>>,
         overtaken[i] = 0 \/ e.next = 0
  PROVE  OvertakenOnce'
<1> SUFFICES ASSUME NEW j \in Ids PROVE Overtaken(j)'
  BY DEF OvertakenOnce
<1>1. Overtaken(j)
  BY DEF OvertakenOnce
<1>2. now' = now /\ pushover_quota' = pushover_quota /\ overtaken' = overtaken
  OBVIOUS
<1>3. CASE j = i
  <2>1. outbox'[j] = e
    BY <1>3 DEF TypeOK
  <2> QED
    BY <1>1, <1>2, <1>3, <2>1 DEF Overtaken
<1>4. CASE j # i
  <2>1. outbox'[j] = outbox[j]
    BY <1>4 DEF TypeOK
  <2>2. DueNow(j)' = DueNow(j)
    BY <1>2, <2>1 DEF DueNow
  <2> QED
    BY <1>1, <1>2, <2>1, <2>2 DEF Overtaken
<1> QED
  BY <1>3, <1>4

THEOREM OvertakenInit == Init => OvertakenOnce
BY DEF Init, OvertakenOnce, Overtaken

THEOREM OvertakenNext ==
  TypeOK /\ QuotaSoon /\ OvertakenOnce /\ [Next]_vars => OvertakenOnce'
<1> SUFFICES ASSUME TypeOK, QuotaSoon, OvertakenOnce, [Next]_vars PROVE OvertakenOnce'
  OBVIOUS
<1>1. ASSUME UNCHANGED <<now, outbox, pushover_quota, overtaken>> PROVE OvertakenOnce'
  BY <1>1 DEF OvertakenOnce, Overtaken, DueNow
<1>2. CASE UNCHANGED vars
  BY <1>1, <1>2 DEF vars
<1>3. CASE \E i \in Ids : QuarantinePoison(i)
  <2>1. PICK i \in Ids : QuarantinePoison(i)
    BY <1>3
  <2> DEFINE e == Quarantined(outbox[i], now)
  <2>2. e.next = 0
    BY DEF Quarantined, Absent
  <2>3. outbox' = [outbox EXCEPT ![i] = e] /\ UNCHANGED <<now, pushover_quota, overtaken>>
    BY <2>1 DEF QuarantinePoison
  <2> HIDE DEF e
  <2> QED
    BY <2>2, <2>3, OvertakenRewrite
<1>4. CASE \E i \in Ids, kind \in Kinds, tent \in Tents, burst \in BOOLEAN :
             Enqueue(i, kind, tent, burst)
  <2>1. PICK i \in Ids, kind \in Kinds, tent \in Tents, burst \in BOOLEAN :
          Enqueue(i, kind, tent, burst)
    BY <1>4
  <2> DEFINE e == [Absent EXCEPT !.status = "pending", !.kind = kind, !.tent = tent,
                                 !.burst = burst, !.created = WholeSecond(now),
                                 !.due = WholeSecond(now)]
  <2>2. e.next = 0
    BY DEF Absent
  <2>3. outbox' = [outbox EXCEPT ![i] = e] /\ UNCHANGED <<now, pushover_quota, overtaken>>
    BY <2>1 DEF Enqueue
  <2> HIDE DEF e
  <2> QED
    BY <2>2, <2>3, OvertakenRewrite
<1>5. CASE \E i \in Ids : Requeue(i)
  <2>1. PICK i \in Ids : Requeue(i)
    BY <1>5
  <2> DEFINE e == outbox[i]
             new == [e EXCEPT !.status = "pending", !.completed = None, !.due = WholeSecond(now),
                              !.attempts[e.next] = 0, !.deferrals[e.next] = 0]
  <2>2. e \in Event /\ e.status = "dead_letter"
    BY <2>1 DEF TypeOK, Requeue
  <2>3. new.next = e.next
    BY <2>2 DEF Event
  <2>4. outbox' = [outbox EXCEPT ![i] = new] /\ UNCHANGED <<now, pushover_quota, overtaken>>
    BY <2>1 DEF Requeue
  <2>5. overtaken[i] = 0 \/ e.next = 0
    BY <2>2 DEF OvertakenOnce, Overtaken
  <2> HIDE DEF new
  <2> QED
    BY <2>3, <2>4, <2>5, OvertakenRewrite
<1>6. CASE \E tents \in SUBSET Tents : Deploy(tents)
  BY <1>1, <1>6 DEF Deploy
<1>7. CASE Tick
  <2>1. now' = now + 1 /\ UNCHANGED <<outbox, pushover_quota, overtaken>>
    BY <1>7 DEF Tick
  <2> SUFFICES ASSUME NEW j \in Ids PROVE Overtaken(j)'
    BY DEF OvertakenOnce
  <2>2. Overtaken(j)
    BY DEF OvertakenOnce
  <2>3. DueNow(j)' = Due(outbox[j], pushover_quota, now + 1)
    BY <2>1 DEF DueNow
  <2> QED
    BY <2>1, <2>2, <2>3, DueStaysDue DEF Overtaken
<1> QED
  BY <1>2, <1>3, <1>4, <1>5, <1>6, <1>7, OvertakenCall
  DEF Next, Deliver, Selected, Candidates, Pending

\* ContinuationFirst: a due continuation is overtaken by one first part at most.
THEOREM ContinuationsFirst == Spec => []ContinuationFirst
<1>1. OvertakenOnce => ContinuationFirst
  BY DEF OvertakenOnce, Overtaken, ContinuationFirst
<1> QED
  BY <1>1, OvertakenInit, OvertakenNext, QuotaAlwaysSoon, TypeCorrect, PTL DEF Spec

-----------------------------------------------------------------------------
(* The life of an event *)

\* A quarantined event is a monitor error, of one part.
Plain == \A i \in Ids : outbox[i].sanitized => ~outbox[i].burst

LEMMA PlainNext ==
  ASSUME TypeOK, Plain, [Next]_vars
  PROVE  Plain'
<1> SUFFICES ASSUME NEW i \in Ids, outbox'[i].sanitized PROVE ~outbox'[i].burst
  BY DEF Plain
<1>1. EventStep(outbox[i], outbox'[i], now')
  BY StepForward DEF Steps
<1>2. CASE outbox'[i] = Quarantined(outbox[i], now')
  BY <1>2 DEF Quarantined, Absent
<1>3. CASE Enqueues(outbox'[i], now')
  BY <1>3 DEF Enqueues
<1>4. CASE outbox'[i] = outbox[i]
  BY <1>4 DEF Plain
<1>5. CASE SameEvent(outbox[i], outbox'[i])
  BY <1>5 DEF Plain, SameEvent
<1> QED
  BY <1>1, <1>2, <1>3, <1>4, <1>5 DEF EventStep, Settles, Called, Moves, Fails, Postpones, Requeues

\* What a step leaves of the events it is not about.
Stays(e, new) ==
  \/ new = e
  \/ /\ e.status = "delivered" /\ new.status = "pruned"
     /\ new.next = e.next /\ new.sanitized = e.sanitized /\ new.burst = e.burst

\* What it can make of the one it is about, when the provider then has the parts given.
Turns(e, new) ==
  /\ new.next = e.next /\ new.sanitized = e.sanitized /\ new.burst = e.burst
  /\ \/ new.status = e.status
     \/ e.status = "pending" /\ new.status = "dead_letter"
     \/ e.status = "dead_letter" /\ new.status = "pending"

Starts(e, new) ==
  e.status = "absent" /\ new.status = "pending" /\ new.next = 0 /\ ~new.sanitized

Replaced(e, new) == e.status = "pending" /\ new.sanitized /\ ~new.burst

Advances(e, new, parts) ==
  /\ new.next = e.next + 1 /\ new.sanitized = e.sanitized /\ new.burst = e.burst
  /\ e.status = "pending" /\ e.next \in Range(parts)
  /\ new.status \in IF new.next = Total(e) THEN {"delivered", "pruned"} ELSE {"pending"}

\* A step is about one event, and the provider then has at most one part more.
About(i) ==
  /\ \A j \in Ids \ {i} : Stays(outbox[j], outbox'[j]) /\ acked'[j] = acked[j]
  /\ \/ Turns(outbox[i], outbox'[i]) \/ Starts(outbox[i], outbox'[i])
     \/ Replaced(outbox[i], outbox'[i]) \/ Advances(outbox[i], outbox'[i], acked'[i])
  /\ \/ acked'[i] = acked[i]
     \/ /\ outbox[i].status = "pending" /\ outbox[i].next \in Parts
        /\ acked'[i] = Append(acked[i], outbox[i].next)

LEMMA AppendRange ==
  ASSUME NEW s \in Seq(Parts), NEW p \in Parts
  PROVE  Range(Append(s, p)) = Range(s) \cup {p}
<1> DEFINE t == Append(s, p)
<1>1. /\ t \in Seq(Parts) /\ Len(t) = Len(s) + 1 /\ t[Len(s) + 1] = p
      /\ \A k \in 1..Len(s) : t[k] = s[k]
  OBVIOUS
<1>2. DOMAIN s = 1..Len(s) /\ DOMAIN t = 1..Len(t) /\ Len(s) \in Nat
  BY <1>1
<1> HIDE DEF t
<1>3. ASSUME NEW x \in Range(t) PROVE x \in Range(s) \cup {p}
  BY <1>1, <1>2, <1>3 DEF Range
<1>4. ASSUME NEW x \in Range(s) PROVE x \in Range(t)
  BY <1>1, <1>2, <1>4 DEF Range
<1>5. p \in Range(t)
  BY <1>1, <1>2 DEF Range
<1>6. Range(t) = Range(s) \cup {p}
  BY <1>3, <1>4, <1>5
<1> QED
  BY <1>6 DEF t

\* The parts the provider has of the event, and of no other, grow by the next one.
LEMMA AboutAccepts ==
  ASSUME TypeOK, NEW i \in Ids, About(i)
  PROVE  Life!AcceptsOne
<1>1. SUFFICES
        /\ \A j \in Ids : Range(acked[j]) \subseteq Range(acked'[j])
        /\ \A j \in Ids : Range(acked'[j]) # Range(acked[j]) => Told(outbox[j]) # "absent"
        /\ \A j, k \in Ids : \A p \in Range(acked'[j]) \ Range(acked[j]),
                                q \in Range(acked'[k]) \ Range(acked[k]) : j = k /\ p = q
  BY DEF Life!AcceptsOne
<1>2. \A j \in Ids \ {i} : acked'[j] = acked[j]
  BY DEF About
<1>3. CASE acked'[i] = acked[i]
  <2>1. \A j \in Ids : acked'[j] = acked[j]
    BY <1>2, <1>3
  <2> QED
    BY <2>1
<1>4. CASE /\ outbox[i].status = "pending" /\ outbox[i].next \in Parts
           /\ acked'[i] = Append(acked[i], outbox[i].next)
  <2>1. Range(acked'[i]) = Range(acked[i]) \cup {outbox[i].next}
    BY <1>4, AppendRange DEF TypeOK
  <2>2. Told(outbox[i]) # "absent"
    BY <1>4 DEF Told
  <2>3. \A j \in Ids \ {i} : Range(acked'[j]) = Range(acked[j])
    BY <1>2
  <2> QED
    BY <2>1, <2>2, <2>3
<1> QED
  BY <1>3, <1>4 DEF About

LEMMA AboutLives ==
  ASSUME TypeOK, TypeOK', Agreement, Plain, NEW i \in Ids, About(i)
  PROVE  (\A j \in Ids : Life!Lives(j)) /\ Life!OnePasses
<1>0. \A j \in Ids : outbox[j] \in Event /\ outbox'[j] \in Event
  BY DEF TypeOK
<1>1. ASSUME NEW j \in Ids, Stays(outbox[j], outbox'[j])
      PROVE  Life!Kept(j) /\ Total(outbox'[j]) = Total(outbox[j])
  BY <1>1 DEF Stays, Life!Kept, Life!Becomes, Told, Total
<1>2. ASSUME Turns(outbox[i], outbox'[i])
      PROVE  Life!Lives(i)
  <2>1. Total(outbox'[i]) = Total(outbox[i])
    BY <1>2 DEF Turns, Total
  <2>2. Life!Kept(i) \/ Life!GivenUp(i) \/ Life!Requeued(i)
    BY <1>2 DEF Turns, Told, Life!Kept, Life!GivenUp, Life!Requeued, Life!Becomes
  <2> QED
    BY <2>1, <2>2 DEF Life!Lives
<1>3. ASSUME Starts(outbox[i], outbox'[i])
      PROVE  Life!Lives(i)
  <2>1. outbox[i].next = 0 /\ ~outbox[i].sanitized
    BY <1>3 DEF Agreement, Agree, Starts
  <2>2. Life!Enqueued(i)
    BY <1>3, <2>1 DEF Starts, Told, Life!Enqueued, Life!Becomes
  <2> QED
    BY <2>2 DEF Life!Lives
<1>4. ASSUME Replaced(outbox[i], outbox'[i])
      PROVE  Life!Lives(i)
  <2>1. CASE outbox[i].sanitized
    <3>1. Total(outbox'[i]) = Total(outbox[i])
      BY <1>4, <2>1 DEF Plain, Replaced, Total
    <3>2. Life!Kept(i)
      BY <1>4, <2>1 DEF Replaced, Told, Life!Kept, Life!Becomes
    <3> QED
      BY <3>1, <3>2 DEF Life!Lives
  <2>2. CASE ~outbox[i].sanitized
    <3>1. Life!Quarantined(i)
      BY <1>4, <2>2 DEF Replaced, Told, Life!Quarantined
    <3> QED
      BY <3>1 DEF Life!Lives
  <2> QED
    BY <2>1, <2>2
<1>5. ASSUME Advances(outbox[i], outbox'[i], acked'[i])
      PROVE  Life!Lives(i)
  <2>1. Total(outbox'[i]) = Total(outbox[i])
    BY <1>5 DEF Advances, Total
  <2>2. CASE outbox[i].sanitized
    <3>1. Life!Kept(i)
      BY <1>5, <2>2 DEF Advances, Told, Life!Kept, Life!Becomes
    <3> QED
      BY <2>1, <3>1 DEF Life!Lives
  <2>3. CASE ~outbox[i].sanitized
    <3>1. Life!Passed(i)
      BY <1>5, <2>3 DEF Advances, Told, Life!Passed
    <3> QED
      BY <2>1, <3>1 DEF Life!Lives
  <2> QED
    BY <2>2, <2>3
<1>6. \A j \in Ids \ {i} : Life!Kept(j) /\ Total(outbox'[j]) = Total(outbox[j])
  BY <1>1 DEF About
<1>7. ASSUME NEW j \in Ids PROVE Life!Lives(j)
  <2>1. CASE j = i
    BY <1>2, <1>3, <1>4, <1>5, <2>1 DEF About
  <2>2. CASE j # i
    BY <1>6, <2>2 DEF Life!Lives
  <2> QED
    BY <2>1, <2>2
<1>8. ASSUME NEW j \in Ids, Life!Passed(j) PROVE j = i
  <2> SUFFICES ASSUME j # i PROVE FALSE
    OBVIOUS
  <2>1. outbox'[j].next = outbox[j].next /\ outbox'[j].sanitized = outbox[j].sanitized
    BY DEF About, Stays
  <2>2. outbox[j].next \in Nat
    BY <1>0 DEF Event
  <2> QED
    BY <1>8, <2>1, <2>2 DEF Life!Passed
<1> QED
  BY <1>7, <1>8 DEF Life!OnePasses

\* A step that rewrites one event, and no other, is about it.
\* The provider may have taken the part that comes next.
MayTake(i) ==
  \/ acked' = acked
  \/ outbox[i].status = "pending" /\ outbox[i].next \in Parts /\ Accepts(i)

LEMMA RewriteIsAbout ==
  ASSUME TypeOK, NEW i \in Ids, NEW e, outbox' = [outbox EXCEPT ![i] = e], MayTake(i),
         Turns(outbox[i], e) \/ Starts(outbox[i], e) \/ Replaced(outbox[i], e)
  PROVE  About(i)
<1>1. outbox'[i] = e /\ \A j \in Ids \ {i} : outbox'[j] = outbox[j]
  BY DEF TypeOK
<1>2. /\ \A j \in Ids \ {i} : acked'[j] = acked[j]
      /\ \/ acked'[i] = acked[i]
         \/ /\ outbox[i].status = "pending" /\ outbox[i].next \in Parts
            /\ acked'[i] = Append(acked[i], outbox[i].next)
  BY DEF MayTake, Accepts, TypeOK
<1> QED
  BY <1>1, <1>2 DEF About, Stays

LEMMA AcceptedIsAbout ==
  ASSUME TypeOK, NEW i \in Ids, NEW start, NEW end, PartAccepted(i, start, end)
  PROVE  About(i)
<1> DEFINE e == outbox[i]
           new == Advanced(e, end)
           ob == [outbox EXCEPT ![i] = new]
<1>1. /\ e \in Event /\ e.next \in Parts /\ e.next < Total(e) /\ e.next \in Nat
      /\ e.status = "pending" /\ Valid(e) /\ end \in Nat
  BY CallFacts DEF PartAccepted, Event
<1>2. /\ new \in Event
      /\ new.next = e.next + 1 /\ new.sanitized = e.sanitized /\ new.burst = e.burst
      /\ (new.status = "delivered" /\ new.next = Total(e)) \/ new.status = e.status
  BY <1>1, AdvancedType, AdvancedFields
<1>3. Called(e, new, end)
  BY <1>1, AdvancedCalled
<1>4. acked'[i] = Append(acked[i], e.next) /\ \A j \in Ids \ {i} : acked'[j] = acked[j]
  BY DEF PartAccepted, TypeOK
<1>5. ob \in [Ids -> Event] /\ ob[i] = new /\ \A j \in Ids \ {i} : ob[j] = outbox[j]
  BY <1>2 DEF TypeOK
<1>6. outbox' \in Pruned(ob)
  BY DEF PartAccepted, Advanced
<1> HIDE DEF ob, new
<1>7. new.status = IF new.next = Total(e) THEN "delivered" ELSE "pending"
  <2>1. CASE new.status = "pending"
    BY <1>1, <1>2, <1>3, <2>1 DEF Called, Settles, Moves, Fails, Postpones
  <2> QED
    BY <1>1, <1>2, <2>1
<1>8. e.next \in Range(acked'[i])
  BY <1>1, <1>4, AppendRange DEF TypeOK
<1>9. ASSUME NEW j \in Ids PROVE Stays(ob[j], outbox'[j])
  <2>1. \/ outbox'[j] = ob[j]
        \/ /\ ob[j].status = "delivered"
           /\ outbox'[j] = [ob[j] EXCEPT !.status = "pruned"]
    BY <1>5, <1>6, PrunedType
  <2>2. ob[j] \in Event
    BY <1>5
  <2> QED
    BY <2>1, <2>2 DEF Stays, Event
<1>10. Advances(e, outbox'[i], acked'[i])
  <2>1. Stays(new, outbox'[i])
    BY <1>5, <1>9
  <2> QED
    BY <1>1, <1>2, <1>7, <1>8, <2>1 DEF Advances, Stays
<1> QED
  BY <1>1, <1>4, <1>5, <1>9, <1>10 DEF About

LEMMA AnswerIsAbout ==
  ASSUME TypeOK, NEW i \in Ids, NEW start, NEW end, Answered(i, start, end)
  PROVE  About(i)
<1>1. ASSUME outbox[i].status = "pending", MayTake(i),
             \E e \in Event : outbox' = [outbox EXCEPT ![i] = e] /\ Unsettled(outbox[i], e)
      PROVE  About(i)
  <2>1. PICK e \in Event : outbox' = [outbox EXCEPT ![i] = e] /\ Unsettled(outbox[i], e)
    BY <1>1
  <2>2. Turns(outbox[i], e)
    BY <1>1, <2>1 DEF Turns, Unsettled
  <2> QED
    BY <1>1, <2>1, <2>2, RewriteIsAbout
<1>2. CASE PartAccepted(i, start, end)
  BY <1>2, AcceptedIsAbout
<1>3. CASE RateLimited(i, start, end)
  <2>1. outbox[i].status = "pending" /\ MayTake(i)
    BY <1>3, CallFacts DEF RateLimited, MayTake
  <2> QED
    BY <1>1, <1>3, <2>1, RateLimitedForm
<1>4. CASE SendFailed(i, start, end)
  <2>1. outbox[i].status = "pending" /\ MayTake(i)
    BY <1>4, CallFacts DEF SendFailed, MaybeAccepts, MayTake
  <2> QED
    BY <1>1, <1>4, <2>1, FailedForm
<1>5. CASE SenderRaised(i, start, end)
  <2>1. /\ outbox[i].status = "pending" /\ MayTake(i)
        /\ outbox' = [outbox EXCEPT ![i] = Quarantined(outbox[i], end)]
    BY <1>5, CallFacts DEF SenderRaised, MaybeAccepts, MayTake
  <2>2. Replaced(outbox[i], Quarantined(outbox[i], end))
    BY <2>1 DEF Replaced, Quarantined, Absent
  <2> QED
    BY <2>1, <2>2, RewriteIsAbout
<1> QED
  BY <1>2, <1>3, <1>4, <1>5 DEF Answered

\* Every step that touches an event is about one.
LEMMA NextIsAbout ==
  ASSUME TypeOK, Next
  PROVE  UNCHANGED <<outbox, acked>> \/ \E i \in Ids : About(i)
<1>1. CASE \E i \in Ids : QuarantinePoison(i)
  <2>1. PICK i \in Ids : QuarantinePoison(i)
    BY <1>1
  <2>2. /\ outbox[i].status = "pending" /\ MayTake(i)
        /\ outbox' = [outbox EXCEPT ![i] = Quarantined(outbox[i], now)]
    BY <2>1 DEF QuarantinePoison, Poison, Pending, MayTake
  <2>3. Replaced(outbox[i], Quarantined(outbox[i], now))
    BY <2>2 DEF Replaced, Quarantined, Absent
  <2> QED
    BY <2>2, <2>3, RewriteIsAbout
<1>2. CASE \E i \in Selected : \E start \in StartTimes(i) : \E end \in EndTimes(start) :
             Answered(i, start, end)
  BY <1>2, AnswerIsAbout DEF Selected, Candidates, Pending
<1>3. CASE \E i \in Selected : \E start \in StartTimes(i) : \E end \in EndTimes(start) :
             KilledMidCall(i, start, end)
  <2>0. PICK i \in Ids : \E start, end : KilledMidCall(i, start, end)
    BY <1>3 DEF Selected, Candidates, Pending
  <2>1. PICK start, end : KilledMidCall(i, start, end)
    BY <2>0
  <2>2. MayTake(i) /\ outbox' = outbox /\ outbox[i].status = "pending"
    BY <2>1, CallFacts DEF KilledMidCall, MayTake
  <2>3. outbox' = [outbox EXCEPT ![i] = outbox[i]] /\ Turns(outbox[i], outbox[i])
    BY <2>2 DEF TypeOK, Turns
  <2> QED
    BY <2>2, <2>3, RewriteIsAbout
<1>4. ASSUME NEW i \in Ids, NEW kind \in Kinds, NEW tent \in Tents, NEW burst \in BOOLEAN,
             Enqueue(i, kind, tent, burst)
      PROVE  About(i)
  <2> DEFINE e == [Absent EXCEPT !.status = "pending", !.kind = kind, !.tent = tent,
                                 !.burst = burst, !.created = WholeSecond(now),
                                 !.due = WholeSecond(now)]
  <2>1. /\ e.status = "pending" /\ e.next = 0 /\ ~e.sanitized
        /\ outbox[i].status = "absent"
    BY <1>4 DEF Absent, Enqueue
  <2>2. outbox' = [outbox EXCEPT ![i] = e] /\ MayTake(i)
    BY <1>4 DEF Enqueue, MayTake
  <2> HIDE DEF e
  <2> QED
    BY <2>1, <2>2, RewriteIsAbout DEF Starts
<1>5. ASSUME NEW i \in Ids, Requeue(i)
      PROVE  About(i)
  <2> DEFINE e == outbox[i]
             new == [e EXCEPT !.status = "pending", !.completed = None,
                              !.due = WholeSecond(now),
                              !.attempts[e.next] = 0, !.deferrals[e.next] = 0]
  <2>1. e \in Event /\ e.status = "dead_letter"
    BY <1>5 DEF TypeOK, Requeue
  <2>2. /\ new.status = "pending" /\ new.next = e.next /\ new.sanitized = e.sanitized
        /\ new.burst = e.burst
    BY <2>1 DEF Event
  <2>3. outbox' = [outbox EXCEPT ![i] = new] /\ MayTake(i)
    BY <1>5 DEF Requeue, MayTake
  <2> HIDE DEF new
  <2>4. Turns(e, new)
    BY <2>1, <2>2 DEF Turns
  <2> QED
    BY <2>3, <2>4, RewriteIsAbout
<1>6. CASE \E tents \in SUBSET Tents : Deploy(tents)
  BY <1>6 DEF Deploy
<1>7. CASE Tick
  BY <1>7 DEF Tick
<1> QED
  BY <1>1, <1>2, <1>3, <1>4, <1>5, <1>6, <1>7 DEF Next, Deliver

\* Through every answer, kill, requeue, quarantine and pruning the events of a file live
\* as EventLife says.
THEOREM LifeRefined == Spec => ImplementsLife
<1>1. Init => Life!LInit
  <2> SUFFICES ASSUME Init PROVE Life!LInit
    OBVIOUS
  <2>1. ASSUME NEW i \in Ids
        PROVE  /\ Told(outbox[i]) = "absent" /\ outbox[i].next = 0 /\ ~outbox[i].sanitized
               /\ Range(acked[i]) = {}
    BY DEF Init, Told, Absent, Range
  <2> QED
    BY <2>1 DEF Life!LInit
<1>2. Init => Plain
  BY DEF Init, Plain, Absent
<1>3. TypeOK /\ TypeOK' /\ Agreement /\ Plain /\ [Next]_vars
        => [Life!LNext]_(Life!lvars) /\ Plain'
  <2> SUFFICES ASSUME TypeOK, TypeOK', Agreement, Plain, [Next]_vars
               PROVE  [Life!LNext]_(Life!lvars) /\ Plain'
    OBVIOUS
  <2>1. Plain'
    BY PlainNext
  <2>2. CASE UNCHANGED <<outbox, acked>>
    BY <2>1, <2>2 DEF Life!lvars, Told, Total
  <2>3. ASSUME NEW i \in Ids, About(i)
        PROVE  Life!LNext
    BY <2>3, AboutAccepts, AboutLives DEF Life!LNext
  <2>4. CASE UNCHANGED vars
    BY <2>2, <2>4 DEF vars
  <2> QED
    BY <2>1, <2>2, <2>3, <2>4, NextIsAbout
<1> QED
  BY <1>1, <1>2, <1>3, TypeCorrect, AgreementHolds, PTL
     DEF Spec, ImplementsLife, Life!LSpec
====
