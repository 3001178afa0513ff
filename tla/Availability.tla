---- MODULE Availability ----
(***************************************************************************)
(* events.apply_probe_result for one tent on one date: the verified        *)
(* baseline, the latched loss of shift evidence and the events it enqueues *)
(* in the outbox.                                                          *)
(*                                                                         *)
(* Shift labels are model values and ShiftKey is canonical_shift_key on    *)
(* them; after canonicalize_shifts labels and keys correspond one to one,  *)
(* so the baseline and the events keep the keys.  Timestamps, diagnostics  *)
(* text and the per-date counters (which nothing reads back) are left out. *)
(***************************************************************************)
EXTENDS Migration

CONSTANTS Labels,        \* the labels a page may show; Keys are their canonical keys
          NoKey,         \* the key of a label that canonicalises to ""
          ShiftKey,      \* [Labels -> Keys \cup {NoKey}]
          Quiet,         \* the keys that need no burst: "mittag" on a Saturday
          BurstParts,    \* messages of a burst, 8 in the code
          MaxAlerts      \* bound on alert_sequence

ASSUME AvailabilityAssumption ==
  /\ NoKey \notin Keys
  /\ ShiftKey \in [Labels -> Keys \cup {NoKey}]
  /\ Quiet \subseteq Keys
  /\ BurstParts \in Nat \ {0, 1}
  /\ MaxAlerts \in Nat

VARIABLES
  status,                \* "unknown", "available", "unavailable": the baseline
  shift_keys,            \* keys of the baseline
  baseline_verified,
  availability_evidence_lost,
  observed_status,       \* the last observation, reliable or not
  alert_sequence,
  outbox,                \* the events enqueued for this tent and date
  announced,             \* history: keys alerted since their last reliable absence
  unread                 \* history: the shifts were unreadable since last proved

vars == <<status, shift_keys, baseline_verified, availability_evidence_lost,
          observed_status, alert_sequence, outbox, announced, unread>>
baseline == <<status, shift_keys, baseline_verified>>

Reasons == {"available", "availability_reconfirmed", "shifts_added"}

Event == [seq: Nat, reason: Reasons, shifts: SUBSET Keys, new: SUBSET Keys,
          burst: BOOLEAN, total: {1, BurstParts}]

\* canonicalize_shifts: labels that differ in wording only collapse into one key.
Canonical(labels) == {ShiftKey[l] : l \in labels} \ {NoKey}

\* What a fetcher may hand over.  "malformed" is any other status string;
\* consistent is the verdict of _structured_reliable_error, and loss tells
\* whether error_class is one of _SHIFT_EVIDENCE_LOSS_CLASSES.
Observation ==
  [status: {"available"}, labels: SUBSET Labels, consistent: BOOLEAN, loss: {FALSE}]
  \cup [status: {"unavailable"}, labels: {{}}, consistent: BOOLEAN, loss: {FALSE}]
  \cup [status: {"unknown"}, labels: {{}}, consistent: {TRUE}, loss: BOOLEAN]
  \cup [status: {"error", "malformed"}, labels: {{}}, consistent: {TRUE}, loss: {FALSE}]

\* Available without a single usable shift label.
Shiftless(o) == o.status = "available" /\ Canonical(o.labels) = {}

\* The status the observation counts as, after the defensive downgrades and
\* after _apply_observation has replaced a malformed result by an error.
Effective(o) ==
  IF \/ Shiftless(o)
     \/ (o.status \in {"available", "unavailable"} /\ ~o.consistent)
  THEN "unknown"
  ELSE IF o.status = "malformed" THEN "error" ELSE o.status

\* available_without_shifts is a loss of shift evidence, inconsistent_* is not.
LosesEvidence(o) == Shiftless(o) \/ o.loss

\* notification_policy.needs_notification_burst on a Saturday.
NeedsBurst(new) == new \ Quiet # {}

\* The baseline as save() writes it.
Saved == [version |-> 3, status |-> status, observed |-> observed_status,
          shifts |-> shift_keys, shift_keys |-> shift_keys, evidence |-> "none",
          dated |-> baseline_verified, baseline_verified |-> baseline_verified,
          availability_evidence_lost |-> availability_evidence_lost]

\* A tent that is new to the state file, or one of an earlier schema that load()
\* migrates and accepts (on a file it refuses, the monitor stops).  The canonical
\* keys of an earlier file are the shifts it had announced.
Init ==
  /\ alert_sequence \in 0..MaxAlerts
  /\ outbox = {}
  /\ unread = FALSE
  /\ \/ /\ status = "unknown" /\ shift_keys = {} /\ baseline_verified = FALSE
        /\ availability_evidence_lost = FALSE /\ observed_status = "unknown"
        /\ announced = {}
     \/ \E raw \in RawV1 \cup RawV2 :
          /\ Loads(Migrate(raw))
          /\ status = Migrate(raw).status
          /\ shift_keys = Migrate(raw).shift_keys
          /\ baseline_verified = Migrate(raw).baseline_verified
          /\ availability_evidence_lost = Migrate(raw).availability_evidence_lost
          /\ observed_status = Migrate(raw).observed
          /\ announced = raw.shift_keys

\* Seeded fault: the burst policy is asked about all shifts, not the new ones.
EnqueueBurstFromAll(reason, shifts, new) ==
  /\ alert_sequence' = alert_sequence + 1
  /\ outbox' = outbox \cup
       {[seq |-> alert_sequence + 1, reason |-> reason, shifts |-> shifts, new |-> new,
         burst |-> NeedsBurst(shifts), total |-> IF NeedsBurst(shifts) THEN BurstParts ELSE 1]}

\* _enqueue_availability: the sequence number is part of the event id, and
\* setdefault keeps an event that already has the same id.
Enqueue(reason, shifts, new) ==
  LET event == [seq |-> alert_sequence + 1, reason |-> reason, shifts |-> shifts,
                new |-> new, burst |-> NeedsBurst(new),
                total |-> IF NeedsBurst(new) THEN BurstParts ELSE 1]
      Same(e) == e.seq = event.seq /\ e.reason = event.reason /\ e.new = event.new
  IN  /\ alert_sequence' = event.seq
      /\ outbox' = IF \E e \in outbox : Same(e) THEN outbox ELSE outbox \cup {event}

\* status "unknown": the baseline stays, a loss of shift evidence is latched.
Unknown(o) ==
  /\ Effective(o) = "unknown"
  /\ observed_status' = "unknown"
  /\ availability_evidence_lost' =
       \/ availability_evidence_lost
       \/ (baseline_verified /\ status = "available" /\ LosesEvidence(o))
  /\ unread' = (unread \/ (LosesEvidence(o) /\ shift_keys # {}))
  /\ UNCHANGED <<baseline, alert_sequence, outbox, announced>>

\* Seeded fault: an error forgets the latched loss of evidence.
FailedUnlatches(o) ==
  /\ Effective(o) = "error"
  /\ observed_status' = "error"
  /\ availability_evidence_lost' = FALSE
  /\ UNCHANGED <<baseline, alert_sequence, outbox, announced, unread>>

\* status "error": only the counters move.
Failed(o) ==
  /\ Effective(o) = "error"
  /\ observed_status' = "error"
  /\ UNCHANGED <<baseline, availability_evidence_lost, alert_sequence, outbox,
                 announced, unread>>

\* The keys an available observation announces, and why.
AlertReason ==
  IF ~baseline_verified \/ status # "available" THEN "available"
  ELSE IF availability_evidence_lost THEN "availability_reconfirmed"
  ELSE "shifts_added"

\* Seeded faults: the first baseline is taken silently; every shift is re-announced.
AlertKeysSilentFirst(keys) == IF baseline_verified THEN keys \ shift_keys ELSE {}
AlertKeysAll(keys) == keys

AlertKeys(keys) == IF AlertReason = "shifts_added" THEN keys \ shift_keys ELSE keys

\* Seeded fault: a new baseline does not reset the latch.
ReliableKeepsLatch(o) ==
  LET keys == IF Effective(o) = "available" THEN Canonical(o.labels) ELSE {}
      new == IF Effective(o) = "available" THEN AlertKeys(keys) ELSE {}
  IN  /\ Effective(o) \in {"available", "unavailable"}
      /\ IF new = {} THEN UNCHANGED <<alert_sequence, outbox>>
                     ELSE Enqueue(AlertReason, keys, new)
      /\ observed_status' = Effective(o)
      /\ status' = Effective(o)
      /\ shift_keys' = keys
      /\ baseline_verified' = TRUE
      /\ UNCHANGED availability_evidence_lost
      /\ announced' = (announced \cap keys) \cup new
      /\ unread' = FALSE

\* A reliable observation alerts if there is news and becomes the new baseline.
Reliable(o) ==
  LET keys == IF Effective(o) = "available" THEN Canonical(o.labels) ELSE {}
      new == IF Effective(o) = "available" THEN AlertKeys(keys) ELSE {}
  IN  /\ Effective(o) \in {"available", "unavailable"}
      /\ IF new = {} THEN UNCHANGED <<alert_sequence, outbox>>
                     ELSE Enqueue(AlertReason, keys, new)
      /\ observed_status' = Effective(o)
      /\ status' = Effective(o)
      /\ shift_keys' = keys
      /\ baseline_verified' = TRUE
      /\ availability_evidence_lost' = FALSE
      /\ announced' = (announced \cap keys) \cup new
      /\ unread' = FALSE

Next == \E o \in Observation :
          /\ alert_sequence < MaxAlerts
          /\ Unknown(o) \/ Failed(o) \/ Reliable(o)

Spec == Init /\ [][Next]_vars

-----------------------------------------------------------------------------
TypeOK ==
  /\ status \in {"unknown", "available", "unavailable"}
  /\ shift_keys \in SUBSET Keys
  /\ baseline_verified \in BOOLEAN
  /\ availability_evidence_lost \in BOOLEAN
  /\ observed_status \in {"unknown", "available", "unavailable", "error"}
  /\ alert_sequence \in 0..MaxAlerts
  /\ outbox \in SUBSET Event
  /\ announced \in SUBSET Keys
  /\ unread \in BOOLEAN

\* save() revalidates the state and the next run's load() migrates and validates it
\* again: every reachable state passes both, unchanged.  One that did not would
\* abort the run and lose the whole batch, or silently lose the baseline.
Savable == Loads(Saved) /\ Migrate(Saved) = Saved

\* Every shift of the baseline has been announced since it was last reliably
\* absent: no sequence of unreadable pages, errors and contradictory results
\* between two reliable observations swallows a shift.
BaselineAnnounced == shift_keys \subseteq announced

\* Whatever is enqueued passes _validate_event in deliver_next (so the producer
\* never creates a poison event), and no two events share a sequence number (so
\* setdefault never drops one).
EventsDeliverable ==
  /\ \A e \in outbox : /\ e.new # {} /\ e.new \subseteq e.shifts
                       /\ e.burst = NeedsBurst(e.new)
                       /\ e.total = IF e.burst THEN BurstParts ELSE 1
  /\ \A e, f \in outbox : e.seq = f.seq => e = f

\* A shift already announced, and not reliably absent since, is announced again
\* only if the page was unreadable in between in the sense of the loss classes:
\* bot pages, errors and contradictory results create no duplicate.
NoRepeatedAlert ==
  [][\A e \in outbox' \ outbox : e.new \cap announced # {} => unread]_vars

\* The code implements the promise of AlertPolicy.
Promise == INSTANCE AlertPolicy WITH
             shown  <- shift_keys,
             doubt  <- unread,
             count  <- alert_sequence,
             alerts <- {<<e.seq, e.new>> : e \in outbox}
ImplementsPromise == Promise!ASpec
====
