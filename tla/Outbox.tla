---- MODULE Outbox ----
(***************************************************************************)
(* The durable notification outbox of one state file: outbox.deliver_next, *)
(* which sends at most one message part per process and saves its cursor,  *)
(* requeue_dead_letter, and the provider's answers as notify.send_event_   *)
(* part classifies them.                                                   *)
(*                                                                         *)
(* Time is counted in ticks, TicksPerSecond of them to a second: the code  *)
(* keeps sub-second times for acknowledgements and whole seconds for       *)
(* now_iso() and for the provider's epochs.  An event id is a digest, so   *)
(* the order of ids is arbitrary; a re-keyed quarantined event keeps its   *)
(* id here.  Message texts, request ids and error texts are left out.      *)
(***************************************************************************)
EXTENDS Integers, Sequences, FiniteSets, Functions

CONSTANTS
  Ids,                   \* event ids
  Tents,                 \* tent slugs
  None,                  \* absent header or field
  Gaps,                  \* BURST_DELAYS in ticks
  MaxAttempts,           \* MAX_ATTEMPTS_PER_PART
  MaxDeferrals,          \* MAX_RATE_LIMIT_DEFERRALS_PER_PART
  MinDelay, DefaultDelay, MaxDelay,   \* *_RATE_LIMIT_DELAY_SECONDS in ticks
  Backoff,               \* retry_delay_seconds: [1..MaxAttempts -> ticks]
  MaxWait,               \* --max-wait-seconds in ticks
  Keep,                  \* prune_delivered's keep
  TicksPerSecond,
  \* inputs and bounds of a model
  Oversleep,             \* ticks by which a sleep may end late
  CallTime,              \* ticks a provider call may take
  Remainings,            \* values of X-Limit-App-Remaining
  ResetOffsets,          \* X-Limit-App-Reset relative to the next full second
  RetryAfters,           \* Retry-After as seconds, in ticks
  RetryDates,            \* Retry-After as a date, relative to the call
  MaxTime,               \* the clock stops here
  LastEnqueue,           \* and events are enqueued until then
  MaxKills, MaxUnread, MaxRequeues, MaxDeployments

ASSUME OutboxAssumption ==
  /\ None \notin Int
  /\ Tents # {}
  /\ Gaps \in Seq(Nat)
  /\ MaxAttempts \in Nat \ {0} /\ MaxDeferrals \in Nat \ {0}
  /\ MinDelay \in Nat /\ DefaultDelay \in Nat /\ MaxDelay \in Nat
  /\ MinDelay <= DefaultDelay /\ DefaultDelay + TicksPerSecond - 1 <= MaxDelay
  /\ Backoff \in [1..MaxAttempts -> Nat]
  /\ MaxWait \in Nat /\ Keep \in Nat
  /\ TicksPerSecond \in Nat \ {0}
  /\ Oversleep \subseteq Nat /\ CallTime \subseteq Nat
  /\ Remainings \subseteq Nat /\ ResetOffsets \subseteq Nat
  /\ RetryAfters \subseteq Nat /\ RetryDates \subseteq Nat
  /\ MaxTime \in Nat /\ LastEnqueue \in Nat /\ MaxKills \in Nat
  /\ MaxUnread \in Nat /\ MaxRequeues \in Nat /\ MaxDeployments \in Nat

VARIABLES
  now,                   \* the wall clock
  outbox,                \* state.outbox, one record per id
  pushover_quota,        \* state.pushover_quota, one entry per kind
  enabled,               \* slugs of the enabled tents in the deployed config
  kills, requeues, deployments,       \* counters of the bounded events
  unread,                \* and of the acceptances whose answer could not be read
  acked,                 \* history: per event the parts that the provider accepted,
                         \* in order, whether the program came to know of it or not
  last_ack,              \* history: when the event's last recorded acceptance came
  overtaken,             \* history: first parts started while the event was due
  call                   \* history: the provider call of the last step, if any

vars == <<now, outbox, pushover_quota, enabled, kills, requeues, deployments, unread,
          acked, last_ack, overtaken, call>>
env == <<enabled, kills, requeues, deployments, unread>>

-----------------------------------------------------------------------------
(* The state *)

Kinds == {"availability", "monitor_error"}
Parts == 0..Len(Gaps)
Total(e) == IF e.burst THEN Len(Gaps) + 1 ELSE 1

Event == [status: {"absent", "pending", "delivered", "dead_letter", "pruned"},
          kind: Kinds, tent: Tents, burst: BOOLEAN,
          created: Nat, due: Nat, completed: Nat \cup {None},
          next: Nat,
          attempts: [Parts -> Nat], deferrals: [Parts -> Nat],
          sanitized: BOOLEAN]

Quota == [remaining: Nat \cup {None}, reset: Nat \cup {None}]

Pending == {i \in Ids : outbox[i].status = "pending"}

\* now_iso() drops the fraction of a second; epochs are rounded up.
WholeSecond(t) == t - (t % TicksPerSecond)
NextSecond(t) == WholeSecond(t + TicksPerSecond - 1)

Larger(a, b) == IF a >= b THEN a ELSE b
Smaller(a, b) == IF a <= b THEN a ELSE b

NoCounts == [p \in Parts |-> 0]

Absent == [status |-> "absent", kind |-> "availability", tent |-> CHOOSE t \in Tents : TRUE,
           burst |-> FALSE, created |-> 0, due |-> 0, completed |-> None, next |-> 0,
           attempts |-> NoCounts, deferrals |-> NoCounts, sanitized |-> FALSE]

Init ==
  /\ now = 0
  /\ outbox = [i \in Ids |-> Absent]
  /\ pushover_quota = [k \in Kinds |-> [remaining |-> None, reset |-> None]]
  /\ enabled = Tents
  /\ kills = 0 /\ requeues = 0 /\ deployments = 0 /\ unread = 0
  /\ acked = [i \in Ids |-> <<>>] /\ last_ack = [i \in Ids |-> 0]
  /\ overtaken = [i \in Ids |-> 0]
  /\ call = None

-----------------------------------------------------------------------------
(* Validation and selection *)

\* _validate_attempts: no count ahead of the cursor, budget left at the cursor.
CountsValid(counts, e, maximum) ==
  \A p \in Parts : /\ counts[p] <= maximum
                   /\ p = e.next => counts[p] < maximum
                   /\ p > e.next => counts[p] = 0

\* _validate_event, as far as a state written by this program can violate it.
Valid(e) ==
  /\ e.next < Total(e)
  /\ e.due >= e.created
  /\ e.completed = None
  /\ CountsValid(e.attempts, e, MaxAttempts)
  /\ CountsValid(e.deferrals, e, MaxDeferrals)
  /\ e.kind = "availability" => e.tent \in enabled

Poison == {i \in Pending : ~Valid(outbox[i])}

\* Seeded fault: one exhausted channel gates the events of both.
DueGatedTogether(e, quota, t) ==
  LET resets == {q \in Range(quota) : q.remaining = 0 /\ q.reset # None /\ q.reset > e.due}
  IN  IF resets = {} THEN e.due ELSE (CHOOSE q \in resets : TRUE).reset

\* _event_due: an exhausted quota of the event's channel gates it until reset.
Due(e, quota, t) ==
  LET q == quota[e.kind]
  IN  IF /\ q.remaining = 0 /\ q.reset # None
         /\ q.reset <= t + MaxDelay /\ q.reset > e.due
      THEN q.reset ELSE e.due

DueNow(i) == Due(outbox[i], pushover_quota, now)

\* Seeded fault: due continuations have no priority.
CandidatesUnordered == Pending

\* _next_event: due continuations first, else everything pending.
Candidates ==
  LET continuations == {i \in Pending : outbox[i].next > 0 /\ DueNow(i) <= now}
  IN  IF continuations # {} THEN continuations ELSE Pending

Earlier(i, j) == \/ DueNow(i) < DueNow(j)
                 \/ DueNow(i) = DueNow(j) /\ outbox[i].created < outbox[j].created

Selected == {i \in Candidates : \A j \in Candidates : ~Earlier(j, i)}

-----------------------------------------------------------------------------
(* Quota and retry times *)

\* The quota headers of an answer to a call started at t; _quota_metadata drops
\* a reset that lies beyond the longest accepted delay.
Headers(t) ==
  [remaining: Remainings \cup {None},
   reset: {None} \cup {r \in {NextSecond(t) + o : o \in ResetOffsets} : r <= t + MaxDelay}]

\* _quota_reset_at with a usable, future reset.
FutureReset(reset, t) == IF reset # None /\ reset > t /\ reset <= t + MaxDelay
                         THEN reset ELSE None

\* _record_quota: an exhausted quota without a usable reset gets a default one.
RecordQuota(kind, remaining, reset, t) ==
  LET old == pushover_quota[kind]
      future == FutureReset(IF reset # None THEN reset ELSE old.reset, t)
  IN  IF remaining = None /\ reset = None THEN pushover_quota
      ELSE [pushover_quota EXCEPT ![kind] =
              [remaining |-> IF remaining # None THEN remaining ELSE old.remaining,
               reset |-> IF remaining = 0 /\ future = None
                         THEN NextSecond(t + DefaultDelay) ELSE future]]

\* notify._retry_at for an answer without Retry-After seconds.
RetryAt(start, date, h) ==
  LET dated == IF date = None THEN start ELSE Smaller(start + MaxDelay, date)
      gated == IF h.remaining = 0 /\ h.reset # None THEN h.reset ELSE start
  IN  IF date = None /\ ~(h.remaining = 0 /\ h.reset # None)
      THEN start + DefaultDelay
      ELSE Larger(start + MinDelay, Larger(dated, gated))

\* Seeded fault: Retry-After is taken at its word.
RetryTimeUncapped(start, t, after, date, h) ==
  LET hint == IF after # None THEN t + after ELSE RetryAt(start, date, h)
  IN  Larger(hint, t + MinDelay)

\* When deliver_next tries again after a 429 received at t.
RetryTime(start, t, after, date, h) ==
  LET hint == IF after # None THEN t + Smaller(after, MaxDelay) ELSE RetryAt(start, date, h)
      bounded == Smaller(Larger(hint, t + MinDelay), t + MaxDelay)
  IN  IF h.remaining = 0 /\ h.reset # None THEN Larger(bounded, h.reset) ELSE bounded

\* Seeded fault: times are written in whole seconds.
IsoSeconds(t) == WholeSecond(t)

\* _iso() keeps the fraction of a second.
Iso(t) == t

-----------------------------------------------------------------------------
(* deliver_next *)

DeadLetter(e, t) == [e EXCEPT !.status = "dead_letter", !.completed = Iso(t), !.due = 0]

\* _quarantine: nothing of a poison event survives but a safe skeleton.
Quarantined(e, t) ==
  [Absent EXCEPT !.status = "dead_letter", !.kind = "monitor_error",
                 !.created = Iso(t), !.completed = Iso(t), !.sanitized = TRUE]

\* The pre-flight validation quarantines one poison event and ends the process.
QuarantinePoison(i) ==
  /\ i \in Poison
  /\ outbox' = [outbox EXCEPT ![i] = Quarantined(outbox[i], now)]
  /\ UNCHANGED <<now, pushover_quota, env, acked, last_ack, overtaken>>
  /\ call' = None

\* A sleep may last longer than asked for, and a call takes its time.
StartTimes(i) == IF DueNow(i) <= now THEN {now} ELSE {DueNow(i) + d : d \in Oversleep}
EndTimes(start) == {start + d : d \in CallTime} \cap 0..MaxTime

\* A process selects an event, sleeps until it is due if that is near enough,
\* calls the provider at start and has its answer at end.
Calls(i, start, end) ==
  /\ Poison = {}
  /\ i \in Selected
  /\ DueNow(i) - now <= MaxWait
  /\ start \in StartTimes(i)
  /\ end \in EndTimes(start)
  /\ now' = end
  /\ call' = [id |-> i, part |-> outbox[i].next, start |-> start]

\* History: a due continuation counts the first parts started before it.
CountOvertaking(i, start, end) ==
  overtaken' =
    [j \in Ids |->
       IF j = i \/ Due(outbox'[j], pushover_quota', end) > end THEN 0
       ELSE IF /\ outbox[i].next = 0
               /\ j \in Pending /\ outbox[j].next > 0
               /\ Due(outbox[j], pushover_quota, start) <= start
            THEN overtaken[j] + 1 ELSE overtaken[j]]

\* prune_delivered keeps the most recently completed deliveries.
Pruned(ob) ==
  LET delivered == {j \in Ids : ob[j].status = "delivered"}
      Newest(kept) == \A j \in kept, k \in delivered \ kept : ob[j].completed >= ob[k].completed
  IN  {[j \in Ids |-> IF j \in delivered \ kept THEN [ob[j] EXCEPT !.status = "pruned"]
                      ELSE ob[j]] :
         kept \in {K \in SUBSET delivered :
                     /\ Cardinality(K) = Smaller(Keep, Cardinality(delivered))
                     /\ Newest(K)}}

\* Seeded fault: a part that is due again is acknowledged without moving the cursor.
PartAcceptedNoCursor(i, start, end) ==
  LET e == outbox[i]
  IN  /\ Calls(i, start, end)
      /\ outbox' = [outbox EXCEPT ![i] = [e EXCEPT !.attempts[e.next] = @ + 1]]
      /\ acked' = [acked EXCEPT ![i] = Append(@, e.next)]
      /\ last_ack' = [last_ack EXCEPT ![i] = end]
      /\ UNCHANGED <<env, pushover_quota>>
      /\ CountOvertaking(i, start, end)

\* Seeded fault: the last part is taken for the one before it.
PartAcceptedTooEarly(i, start, end) ==
  LET e == outbox[i]
      counted == [e EXCEPT !.attempts[e.next] = @ + 1, !.next = @ + 1]
      advanced == IF counted.next + 1 >= Total(e)
                  THEN [counted EXCEPT !.status = "delivered", !.completed = end, !.due = 0]
                  ELSE [counted EXCEPT !.due = Iso(end + Gaps[counted.next])]
  IN  /\ Calls(i, start, end)
      /\ outbox' = [outbox EXCEPT ![i] = advanced]
      /\ acked' = [acked EXCEPT ![i] = Append(@, e.next)]
      /\ last_ack' = [last_ack EXCEPT ![i] = end]
      /\ UNCHANGED <<env, pushover_quota>>
      /\ CountOvertaking(i, start, end)

\* The provider accepted the part: the next one is scheduled from the answer.
PartAccepted(i, start, end) ==
  LET e == outbox[i]
      counted == [e EXCEPT !.attempts[e.next] = @ + 1, !.next = @ + 1]
      advanced == IF counted.next >= Total(e)
                  THEN [counted EXCEPT !.status = "delivered", !.completed = Iso(end), !.due = 0]
                  ELSE [counted EXCEPT !.due = Iso(end + Gaps[counted.next])]
  IN  /\ Calls(i, start, end)
      /\ \E h \in Headers(start) :
           pushover_quota' = RecordQuota(e.kind, h.remaining, h.reset, end)
      /\ outbox' \in Pruned([outbox EXCEPT ![i] = advanced])
      /\ acked' = [acked EXCEPT ![i] = Append(@, e.next)]
      /\ last_ack' = [last_ack EXCEPT ![i] = end]
      /\ UNCHANGED env
      /\ CountOvertaking(i, start, end)

\* A 429: the part is deferred on its own budget, or given up without alarm.
RateLimited(i, start, end) ==
  LET e == outbox[i]
      counted == [e EXCEPT !.deferrals[e.next] = @ + 1]
  IN  /\ Calls(i, start, end)
      /\ \E h \in Headers(start), after \in RetryAfters \cup {None},
            date \in {start + d : d \in RetryDates} \cup {None} :
           LET retry == RetryTime(start, end, after, date, h)
               reset == IF h.remaining = 0 /\ FutureReset(h.reset, end) = None
                        THEN NextSecond(retry) ELSE h.reset
           IN  /\ outbox' = [outbox EXCEPT ![i] =
                               IF counted.deferrals[e.next] >= MaxDeferrals
                               THEN DeadLetter(counted, end)
                               ELSE [counted EXCEPT !.due = Iso(retry)]]
               /\ pushover_quota' = IF h.remaining = None THEN pushover_quota
                                    ELSE RecordQuota(e.kind, h.remaining, reset, end)
      /\ UNCHANGED <<env, acked, last_ack>>
      /\ CountOvertaking(i, start, end)

\* A call that did not end in an acknowledgement leaves open whether the provider
\* took the part: the connection may break after it did, a gateway may answer for
\* it, or its answer may be unreadable.
Accepts(i) == acked' = [acked EXCEPT ![i] = Append(@, outbox[i].next)]

MaybeAccepts(i) ==
  \/ UNCHANGED <<acked, unread>>
  \/ unread < MaxUnread /\ unread' = unread + 1 /\ Accepts(i)

\* Seeded fault: ordinary failures are not counted, so they never exhaust.
SendFailedUncounted(i, start, end) ==
  /\ Calls(i, start, end)
  /\ outbox' = [outbox EXCEPT ![i].due = end]
  /\ UNCHANGED <<env, pushover_quota, acked, last_ack>>
  /\ CountOvertaking(i, start, end)

\* Any other failure: retried with backoff until the budget of the part is spent;
\* a terminal one is not retried.
SendFailed(i, start, end) ==
  LET e == outbox[i]
      counted == [e EXCEPT !.attempts[e.next] = @ + 1]
      attempt == counted.attempts[e.next]
  IN  /\ Calls(i, start, end)
      /\ \E terminal \in BOOLEAN :
           outbox' = [outbox EXCEPT ![i] =
                        IF terminal \/ attempt >= MaxAttempts
                        THEN DeadLetter(counted, end)
                        ELSE [counted EXCEPT !.due = Iso(end + Backoff[attempt])]]
      /\ MaybeAccepts(i)
      /\ UNCHANGED <<enabled, kills, requeues, deployments, pushover_quota, last_ack>>
      /\ CountOvertaking(i, start, end)

\* An unexpected exception, an answer of another form, or an invalid sender result
\* quarantines the event.
SenderRaised(i, start, end) ==
  /\ Calls(i, start, end)
  /\ outbox' = [outbox EXCEPT ![i] = Quarantined(outbox[i], end)]
  /\ MaybeAccepts(i)
  /\ UNCHANGED <<enabled, kills, requeues, deployments, pushover_quota, last_ack>>
  /\ CountOvertaking(i, start, end)

\* The process dies between the call and save(): the file keeps the old cursor,
\* whatever the provider did.
KilledMidCall(i, start, end) ==
  /\ kills < MaxKills
  /\ Calls(i, start, end)
  /\ kills' = kills + 1
  /\ Accepts(i) \/ UNCHANGED acked
  /\ UNCHANGED <<outbox, pushover_quota, enabled, requeues, deployments, unread, last_ack>>
  /\ CountOvertaking(i, start, end)

-----------------------------------------------------------------------------
(* The rest of the program and its environment *)

\* A probe enqueues an event of an enabled tent, or a monitor error.
Enqueue(i, kind, tent, burst) ==
  /\ now <= LastEnqueue
  /\ outbox[i].status = "absent"
  /\ tent \in enabled
  /\ burst => kind = "availability"
  /\ outbox' = [outbox EXCEPT ![i] =
                  [Absent EXCEPT !.status = "pending", !.kind = kind, !.tent = tent,
                                 !.burst = burst, !.created = WholeSecond(now),
                                 !.due = WholeSecond(now)]]
  /\ UNCHANGED <<now, pushover_quota, env, acked, last_ack, overtaken>>
  /\ call' = None

\* Seeded fault: a requeued part keeps its exhausted budget.
RequeueStale(i) ==
  /\ requeues < MaxRequeues
  /\ outbox[i].status = "dead_letter"
  /\ outbox[i].next < Total(outbox[i])
  /\ outbox' = [outbox EXCEPT ![i] = [@ EXCEPT !.status = "pending", !.completed = None,
                                              !.due = WholeSecond(now)]]
  /\ requeues' = requeues + 1
  /\ UNCHANGED <<now, pushover_quota, enabled, kills, deployments, unread, acked,
                 last_ack, overtaken>>
  /\ call' = None

\* requeue_dead_letter: the unresolved part gets a fresh budget.
Requeue(i) ==
  LET e == outbox[i]
  IN  /\ requeues < MaxRequeues
      /\ e.status = "dead_letter"
      /\ e.next < Total(e)
      /\ outbox' = [outbox EXCEPT ![i] =
                      [e EXCEPT !.status = "pending", !.completed = None,
                                !.due = WholeSecond(now),
                                !.attempts[e.next] = 0, !.deferrals[e.next] = 0]]
      /\ requeues' = requeues + 1
      /\ UNCHANGED <<now, pushover_quota, enabled, kills, deployments, unread, acked,
                     last_ack, overtaken>>
      /\ call' = None

\* A deployment changes which tents are enabled.
Deploy(tents) ==
  /\ deployments < MaxDeployments
  /\ tents # enabled
  /\ enabled' = tents
  /\ deployments' = deployments + 1
  /\ UNCHANGED <<now, outbox, pushover_quota, kills, requeues, unread, acked,
                 last_ack, overtaken>>
  /\ call' = None

Tick ==
  /\ now < MaxTime
  /\ now' = now + 1
  /\ UNCHANGED <<outbox, pushover_quota, env, acked, last_ack, overtaken>>
  /\ call' = None

\* One provider call: every answer it can have.
Answered(i, start, end) == \/ PartAccepted(i, start, end)
                           \/ RateLimited(i, start, end)
                           \/ SendFailed(i, start, end)
                           \/ SenderRaised(i, start, end)

Deliver ==
  \/ \E i \in Ids : QuarantinePoison(i)
  \/ \E i \in Selected : \E start \in StartTimes(i) : \E end \in EndTimes(start) :
       Answered(i, start, end)

Next ==
  \/ Deliver
  \/ \E i \in Selected : \E start \in StartTimes(i) : \E end \in EndTimes(start) :
       KilledMidCall(i, start, end)
  \/ \E i \in Ids, kind \in Kinds, tent \in Tents, burst \in BOOLEAN :
       Enqueue(i, kind, tent, burst)
  \/ \E i \in Ids : Requeue(i)
  \/ \E tents \in SUBSET Tents : Deploy(tents)
  \/ Tick

Spec == Init /\ [][Next]_vars

\* Within a run the workflow calls deliver_next until it is idle or deferred, so
\* time passes unused only when nothing is due within reach of a process.
Idle == Poison = {} /\ \A i \in Selected : DueNow(i) - now > MaxWait

PromptSpec == Init /\ [][Next /\ (now' # now /\ call' = None => Idle)]_vars
                   /\ WF_vars(Deliver) /\ WF_vars(Idle /\ Tick)

-----------------------------------------------------------------------------
(* Properties *)

TypeOK ==
  /\ now \in Nat
  /\ outbox \in [Ids -> Event]
  /\ pushover_quota \in [Kinds -> Quota]
  /\ enabled \in SUBSET Tents
  /\ kills \in Nat /\ requeues \in Nat /\ deployments \in Nat /\ unread \in Nat
  /\ acked \in [Ids -> Seq(Parts)] /\ last_ack \in [Ids -> Nat]
  /\ overtaken \in [Ids -> Nat]
  /\ call \in [id: Ids, part: Parts, start: Nat] \cup {None}

\* The provider gets the parts of an event in order: all of those below the cursor,
\* and no part beyond the one at the cursor.  No retry, deferral or requeue repeats
\* one; a repetition takes a killed process or an answer that could not be read, and
\* each of these repeats at most one part.
PartsInOrder ==
  \A i \in Ids : ~outbox[i].sanitized =>
    LET parts == acked[i]
        next == outbox[i].next
    IN  /\ 0..(next - 1) \subseteq Range(parts)
        /\ \A k \in 1..Len(parts) : parts[k] <= next /\ parts[k] < Total(outbox[i])
        /\ \A k, l \in 1..Len(parts) : k <= l => parts[k] <= parts[l]
        /\ Len(parts) <= next + kills + unread

\* README "Burst gaps are scheduled from provider-call completion": a part is
\* never started before the gap after the previous acknowledgement has passed,
\* sub-second times, requeues and quota gates included.
BurstCadence ==
  [][(call' # None /\ call'.part > 0)
       => call'.start >= last_ack[call'.id] + Gaps[call'.part]]_vars

\* No sequence of legal steps makes the program quarantine an event of its own
\* making: an event that was never quarantined and whose tent is enabled always
\* passes the next process's validation, budgets and timestamps included.
NeverPoisonsOwn ==
  \A i \in Pending :
    (~outbox[i].sanitized /\ (outbox[i].kind = "availability" => outbox[i].tent \in enabled))
      => i \notin Poison

\* Nothing is lost silently: what is reported delivered, or was pruned from the
\* file as such, had every part accepted by the provider.
DeliveredCompletely ==
  \A i \in Ids :
    (outbox[i].status \in {"delivered", "pruned"} /\ ~outbox[i].sanitized)
      => Range(acked[i]) = 0..(Total(outbox[i]) - 1)

\* No provider header can park an event: it is due again within the longest accepted
\* rate-limit delay, a gap of the burst, or a backoff.
Delays == {MaxDelay} \cup Range(Gaps) \cup Range(Backoff)
DeferralBounded == \A i \in Pending : \E d \in Delays : DueNow(i) <= now + d

\* Once a burst continuation is due, at most one first message (the one already
\* selected when its process went to sleep) is started before it.
ContinuationFirst == \A i \in Ids : overtaken[i] <= 1

\* A channel whose quota is known to be exhausted, at time t.
Exhausted(kind, t) ==
  LET q == pushover_quota[kind] IN q.remaining = 0 /\ q.reset # None /\ q.reset > t

\* No call is made on a channel whose quota is known to be exhausted, and an
\* exhausted channel never holds back the other one: while an event of a channel
\* that is not exhausted is due, no process sleeps before its call.
QuotaRespected ==
  [][call' # None =>
       /\ ~Exhausted(outbox[call'.id].kind, call'.start)
       /\ (\E j \in Pending : outbox[j].due <= now /\ ~Exhausted(outbox[j].kind, now))
            => call'.start = now]_vars

\* An event is settled, its cursor advances, or a budget of the unresolved part
\* shrinks.
Progress(old, new) ==
  \/ new.status # "pending"
  \/ new.next = old.next + 1
  \/ /\ new.next = old.next
     /\ new.attempts[old.next] \in old.attempts[old.next]..(MaxAttempts - 1)
     /\ new.deferrals[old.next] \in old.deferrals[old.next]..(MaxDeferrals - 1)
     /\ <<new.attempts, new.deferrals>> # <<old.attempts, old.deferrals>>

\* Every answered call moves its event towards an end: no answer of the provider
\* can keep an event in the queue for ever.
EveryCallProgresses ==
  [][(call' # None /\ kills' = kills)
       => Progress(outbox[call'.id], outbox'[call'.id])]_vars

\* Every event is eventually settled, by complete delivery or visibly as a dead
\* letter: retries, deferrals, quota gates and poison neighbours end.
EventuallySettled ==
  \A i \in Ids : outbox[i].status = "pending"
                   ~> outbox[i].status \in {"delivered", "dead_letter", "pruned"}

\* The events as EventLife tells them: a quarantined one is only a placeholder, and a
\* pruned one was delivered.
Told(e) == IF e.sanitized THEN "quarantined"
           ELSE IF e.status = "pruned" THEN "delivered" ELSE e.status

Life == INSTANCE EventLife WITH
          status <- [i \in Ids |-> Told(outbox[i])],
          next <- [i \in Ids |-> IF outbox[i].sanitized THEN 0 ELSE outbox[i].next],
          total <- [i \in Ids |-> Total(outbox[i])],
          accepted <- [i \in Ids |-> Range(acked[i])]

\* Through every answer, kill, requeue, quarantine and pruning an event lives as
\* EventLife says: its cursor passes one acknowledged part at a time, the last one
\* delivers it, and nothing that was settled comes back but by a requeue.
ImplementsLife == Life!LSpec
====
