---- MODULE Availability_proofs ----
(***************************************************************************)
(* The safety of apply_probe_result for any labels, keys and burst policy, *)
(* and its refinement of AlertPolicy.                                      *)
(***************************************************************************)
EXTENDS Availability, TLAPS

LEMMA CanonicalKeys == \A labels \in SUBSET Labels : Canonical(labels) \in SUBSET Keys
BY AvailabilityAssumption DEF Canonical

\* What an observation can carry, as far as the steps depend on it.
LEMMA Observed ==
  ASSUME NEW o \in Observation
  PROVE  /\ Canonical(o.labels) \in SUBSET Keys
         /\ Effective(o) \in {"unknown", "error", "available", "unavailable"}
         /\ Effective(o) = "available" => Canonical(o.labels) # {}
BY CanonicalKeys DEF Observation, Effective, Shiftless

\* What the validator demands, for a baseline in memory.
Validated ==
  /\ status = "available" <=> shift_keys # {}
  /\ baseline_verified <=> status # "unknown"
  /\ availability_evidence_lost => baseline_verified /\ status = "available"

\* The state between two observations: the baseline is valid, and the histories
\* (what was announced, was the page unreadable) are what the code keeps.
IInv ==
  /\ TypeOK
  /\ Validated
  /\ announced = shift_keys
  /\ unread <=> availability_evidence_lost
  /\ \A e \in outbox : e.seq <= alert_sequence
  /\ EventsDeliverable

\* A valid baseline passes the validator, and the migration leaves it alone.
LEMMA ValidatedIsSavable == TypeOK /\ Validated => Savable
<1> SUFFICES ASSUME TypeOK, Validated PROVE Loads(Saved) /\ Migrate(Saved) = Saved
  BY DEF Savable
<1>1. Loads(Saved)
  BY DEF Loads, Saved, Validated, TypeOK, Reliable2
<1>2. Proven(Saved) = Saved
  BY DEF Proven, Destroyed, Saved, TypeOK
<1>3. EmptyRejected(Saved) = Saved
  BY DEF EmptyRejected, Saved, Validated, TypeOK
<1>4. Demoted(Saved) = Saved
  BY DEF Demoted, Saved, Validated, TypeOK, Reliable2
<1> QED
  BY <1>1, <1>2, <1>3, <1>4 DEF Migrate

\* What load() accepts of a migrated file is a valid baseline whose latch is open,
\* and its keys are those the file had.
LEMMA MigratedBaseline ==
  ASSUME NEW raw \in RawV1 \cup RawV2, Loads(Migrate(raw))
  PROVE  LET m == Migrate(raw)
         IN  /\ m.status \in Baseline
             /\ m.observed \in Baseline \cup {"error"}
             /\ m.shift_keys = raw.shift_keys /\ raw.shift_keys \in SUBSET Keys
             /\ m.baseline_verified \in BOOLEAN
             /\ m.availability_evidence_lost = FALSE
             /\ m.status = "available" <=> m.shift_keys # {}
             /\ m.baseline_verified <=> m.status # "unknown"
<1> DEFINE Rec == [version: {1, 2, 3}, status: Baseline \cup {"error"},
                   observed: Baseline \cup {"error"},
                   shifts: SUBSET Keys, shift_keys: SUBSET Keys,
                   evidence: {"none"} \cup Reliable2, dated: BOOLEAN,
                   baseline_verified: BOOLEAN, availability_evidence_lost: BOOLEAN]
           p == Proven(raw)
           e == EmptyRejected(p)
           m == Demoted(e)
<1>1. /\ raw \in Rec /\ raw.version # 3
      /\ raw.version = 1 => raw.shift_keys = {}
      /\ raw.version = 2 => raw.status # "error"
      /\ raw.shift_keys # {} => /\ raw.status = "available" /\ raw.dated
                                /\ raw.shifts = raw.shift_keys
  <2>1. CASE raw \in RawV1
    <3>1. raw \in Rec
      BY <2>1 DEF RawV1, Baseline, Reliable2
    <3>2. raw.version = 1 /\ raw.shift_keys = {}
      BY <2>1 DEF RawV1
    <3> QED
      BY <3>1, <3>2
  <2>2. CASE raw \in RawV2
    <3>1. raw \in Rec
      BY <2>2 DEF RawV2, Baseline, Reliable2
    <3>2. /\ raw.version = 2 /\ raw.status # "error"
          /\ raw.shift_keys # {} => /\ raw.status = "available" /\ raw.dated
                                    /\ raw.shifts = raw.shift_keys
      BY <2>2 DEF RawV2, Baseline, Reliable2
    <3> QED
      BY <3>1, <3>2
  <2> QED
    BY <2>1, <2>2
<1>2. /\ p \in Rec /\ p.status \in Baseline
      /\ p.shifts = raw.shifts /\ p.shift_keys = raw.shift_keys
      /\ p.availability_evidence_lost = FALSE
      /\ raw.shift_keys # {} => p.baseline_verified /\ p.status = "available"
      /\ p.baseline_verified => p.status \in Reliable2
  BY <1>1 DEF Proven, Destroyed, LooksVerifiedV2, Baseline, Reliable2
<1>3. /\ e \in Rec
      /\ e.status = p.status
      /\ e.shifts = p.shifts /\ e.shift_keys = p.shift_keys
      /\ e.availability_evidence_lost = FALSE
      /\ e.baseline_verified = (p.baseline_verified /\ ~(p.status = "available" /\ p.shifts = {}))
  BY <1>2 DEF EmptyRejected
<1>4. /\ e.baseline_verified => e.status \in Reliable2
      /\ e.shift_keys # {} => e.baseline_verified /\ e.status = "available"
      /\ e.status \in Baseline
  <2>1. e.shift_keys # {} => e.shifts # {}
    BY <1>1, <1>2, <1>3
  <2> HIDE DEF e, p, Rec
  <2> QED
    BY <1>2, <1>3, <2>1
<1>5. m = Migrate(raw) /\ Loads(m)
  BY DEF Migrate
<1>6. raw.shift_keys = e.shift_keys /\ raw.shift_keys \in SUBSET Keys
  BY <1>1, <1>2, <1>3
<1> SUFFICES /\ m.status \in Baseline
             /\ m.observed \in Baseline \cup {"error"}
             /\ m.shift_keys = e.shift_keys
             /\ m.baseline_verified \in BOOLEAN
             /\ m.availability_evidence_lost = FALSE
             /\ m.status = "available" <=> m.shift_keys # {}
             /\ m.baseline_verified <=> m.status # "unknown"
  BY <1>5, <1>6
<1> HIDE DEF p, e
<1>7. CASE ~e.baseline_verified /\ e.status \in Reliable2
  BY <1>3, <1>4, <1>7 DEF Demoted, Baseline, Reliable2
<1>8. CASE ~e.baseline_verified /\ e.status \notin Reliable2
  BY <1>3, <1>4, <1>8 DEF Demoted, Baseline, Reliable2
<1>9. CASE e.baseline_verified
  <2>1. m = e /\ e.status \in Reliable2 /\ e \in Rec
    BY <1>3, <1>4, <1>9 DEF Demoted, Reliable2
  <2> QED
    BY <1>3, <1>4, <1>5, <1>9, <2>1 DEF Loads, Baseline, Reliable2
<1> QED
  BY <1>3, <1>7, <1>8, <1>9

THEOREM InitInv == Init => IInv
<1> SUFFICES ASSUME Init PROVE IInv
  OBVIOUS
<1>1. /\ outbox = {} /\ unread = FALSE /\ alert_sequence \in 0..MaxAlerts
      /\ MaxAlerts \in Nat
  BY AvailabilityAssumption DEF Init
<1>2. /\ status \in Baseline /\ observed_status \in Baseline \cup {"error"}
      /\ shift_keys \in SUBSET Keys /\ announced = shift_keys
      /\ baseline_verified \in BOOLEAN /\ availability_evidence_lost = FALSE
      /\ status = "available" <=> shift_keys # {}
      /\ baseline_verified <=> status # "unknown"
  <2>1. CASE /\ status = "unknown" /\ shift_keys = {} /\ baseline_verified = FALSE
             /\ availability_evidence_lost = FALSE /\ observed_status = "unknown"
             /\ announced = {}
    BY <2>1 DEF Baseline
  <2>2. ASSUME NEW raw \in RawV1 \cup RawV2,
               Loads(Migrate(raw)),
               status = Migrate(raw).status, shift_keys = Migrate(raw).shift_keys,
               baseline_verified = Migrate(raw).baseline_verified,
               availability_evidence_lost = Migrate(raw).availability_evidence_lost,
               observed_status = Migrate(raw).observed, announced = raw.shift_keys
        PROVE  <1>2
    BY <2>2, MigratedBaseline
  <2> QED
    BY <2>1, <2>2 DEF Init
<1> QED
  BY <1>1, <1>2 DEF IInv, TypeOK, Validated, EventsDeliverable, Baseline, Reliable2

\* An alert that is enqueued is well-formed, and its number is new.
LEMMA EnqueueStep ==
  ASSUME IInv, alert_sequence < MaxAlerts,
         NEW reason \in Reasons, NEW shifts \in SUBSET Keys,
         NEW new \in SUBSET shifts, new # {},
         Enqueue(reason, shifts, new)
  PROVE  /\ alert_sequence' \in 0..MaxAlerts
         /\ outbox' \in SUBSET Event
         /\ \A e \in outbox' : e.seq <= alert_sequence'
         /\ EventsDeliverable'
         /\ outbox' \ outbox = {[seq |-> alert_sequence + 1, reason |-> reason,
                                 shifts |-> shifts, new |-> new, burst |-> NeedsBurst(new),
                                 total |-> IF NeedsBurst(new) THEN BurstParts ELSE 1]}
         /\ outbox \subseteq outbox'
<1> DEFINE event == [seq |-> alert_sequence + 1, reason |-> reason,
                     shifts |-> shifts, new |-> new, burst |-> NeedsBurst(new),
                     total |-> IF NeedsBurst(new) THEN BurstParts ELSE 1]
<1>1. /\ alert_sequence \in Nat /\ MaxAlerts \in Nat
      /\ outbox \in SUBSET Event
      /\ \A e \in outbox : e.seq \in Nat /\ e.seq <= alert_sequence
  BY AvailabilityAssumption DEF IInv, TypeOK, Event
<1>2. event \in Event
  BY <1>1, AvailabilityAssumption DEF Event, NeedsBurst
<1>3. alert_sequence' = alert_sequence + 1 /\ outbox' = outbox \cup {event}
  BY <1>1 DEF Enqueue
<1>4. event \notin outbox
  BY <1>1
<1>5. \A e \in outbox' : e.seq <= alert_sequence'
  BY <1>1, <1>3
<1>6. EventsDeliverable'
  <2>1. \A e \in outbox' : /\ e.new # {} /\ e.new \subseteq e.shifts
                            /\ e.burst = NeedsBurst(e.new)
                            /\ e.total = IF e.burst THEN BurstParts ELSE 1
    BY <1>3 DEF EventsDeliverable, IInv
  <2>2. \A e, f \in outbox' : e.seq = f.seq => e = f
    BY <1>1, <1>3 DEF EventsDeliverable, IInv
  <2> QED
    BY <2>1, <2>2 DEF EventsDeliverable
<1> QED
  BY <1>1, <1>2, <1>3, <1>4, <1>5, <1>6, AvailabilityAssumption

-----------------------------------------------------------------------------
(* The steps *)

\* What a reliable observation announces: nothing beyond what it shows, and all of
\* it unless the baseline already stands for the rest.
LEMMA AlertKeysFacts ==
  ASSUME IInv, NEW keys \in SUBSET Keys
  PROVE  /\ AlertKeys(keys) \in SUBSET keys
         /\ keys \ shift_keys \subseteq AlertKeys(keys)
         /\ AlertReason \in Reasons
         /\ AlertKeys(keys) = IF unread THEN keys ELSE keys \ shift_keys
BY DEF AlertKeys, AlertReason, Reasons, IInv, TypeOK, Validated

LEMMA ReliableInv ==
  ASSUME IInv, alert_sequence < MaxAlerts, NEW o \in Observation, Reliable(o)
  PROVE  IInv'
<1> DEFINE keys == IF Effective(o) = "available" THEN Canonical(o.labels) ELSE {}
           new == IF Effective(o) = "available" THEN AlertKeys(keys) ELSE {}
<1>1. /\ keys \in SUBSET Keys
      /\ Effective(o) = "available" <=> keys # {}
      /\ Effective(o) \in {"available", "unavailable"}
  BY Observed DEF Reliable
<1>2. /\ new \in SUBSET keys /\ keys \ shift_keys \subseteq new
      /\ AlertReason \in Reasons
  BY <1>1, AlertKeysFacts
<1>3. /\ status' = Effective(o) /\ shift_keys' = keys /\ baseline_verified' = TRUE
      /\ availability_evidence_lost' = FALSE /\ observed_status' = Effective(o)
      /\ announced' = (announced \cap keys) \cup new /\ unread' = FALSE
      /\ IF new = {} THEN UNCHANGED <<alert_sequence, outbox>>
                     ELSE Enqueue(AlertReason, keys, new)
  BY DEF Reliable
<1>4. /\ alert_sequence' \in 0..MaxAlerts
      /\ outbox' \in SUBSET Event
      /\ \A e \in outbox' : e.seq <= alert_sequence'
      /\ EventsDeliverable'
  <2>1. CASE new = {}
    BY <2>1, <1>3 DEF IInv, TypeOK, EventsDeliverable
  <2>2. CASE new # {}
    <3> HIDE DEF keys, new
    <3> QED
      BY <2>2, <1>1, <1>2, <1>3, EnqueueStep
  <2> QED
    BY <2>1, <2>2
<1>5. announced' = keys /\ announced = shift_keys
  BY <1>1, <1>2, <1>3, AlertKeysFacts DEF IInv
<1> HIDE DEF keys, new
<1> QED
  BY <1>1, <1>2, <1>3, <1>4, <1>5
  DEF IInv, TypeOK, Validated, BaselineAnnounced

LEMMA UnreadableInv ==
  ASSUME IInv, NEW o \in Observation, Unknown(o) \/ Failed(o)
  PROVE  IInv'
<1>1. LosesEvidence(o) \in BOOLEAN
  BY DEF LosesEvidence, Shiftless, Observation
<1>2. CASE Unknown(o)
  BY <1>1, <1>2
  DEF Unknown, baseline, IInv, TypeOK, Validated, BaselineAnnounced, EventsDeliverable
<1>3. CASE Failed(o)
  BY <1>3
  DEF Failed, baseline, IInv, TypeOK, Validated, BaselineAnnounced, EventsDeliverable
<1> QED
  BY <1>2, <1>3

THEOREM NextInv == IInv /\ [Next]_vars => IInv'
<1> SUFFICES ASSUME IInv, [Next]_vars PROVE IInv'
  OBVIOUS
<1>1. CASE UNCHANGED vars
  BY <1>1 DEF vars, IInv, TypeOK, Validated, BaselineAnnounced, EventsDeliverable
<1>2. CASE Next
  <2>1. PICK o \in Observation :
          alert_sequence < MaxAlerts /\ (Unknown(o) \/ Failed(o) \/ Reliable(o))
    BY <1>2 DEF Next
  <2> QED
    BY <2>1, ReliableInv, UnreadableInv
<1> QED
  BY <1>1, <1>2

THEOREM Invariance == Spec => []IInv
BY InitInv, NextInv, PTL DEF Spec

\* TypeOK: apply_probe_result keeps its fields in their types.
THEOREM TypeCorrect == Spec => []TypeOK
BY Invariance, PTL DEF IInv

\* Savable: save() never rejects the state apply_probe_result leaves, and the next
\* load() reads it back unchanged.
THEOREM AlwaysSavable == Spec => []Savable
<1>1. IInv => Savable
  BY ValidatedIsSavable DEF IInv
<1> QED
  BY <1>1, Invariance, PTL

\* BaselineAnnounced: no sequence of observations swallows a shift.
THEOREM AlwaysAnnounced == Spec => []BaselineAnnounced
<1>1. IInv => BaselineAnnounced
  BY DEF IInv, BaselineAnnounced
<1> QED
  BY <1>1, Invariance, PTL

\* EventsDeliverable: no event is poison when it is enqueued, none is dropped.
THEOREM AlwaysDeliverable == Spec => []EventsDeliverable
BY Invariance, PTL DEF IInv

-----------------------------------------------------------------------------
(* Action property and refinement *)

\* What a reliable observation adds to the outbox.
LEMMA ReliableAlert ==
  ASSUME IInv, alert_sequence < MaxAlerts, NEW o \in Observation, Reliable(o)
  PROVE  LET news == IF unread THEN shift_keys' ELSE shift_keys' \ shift_keys
         IN  /\ shift_keys' \in SUBSET Keys
             /\ unread' = FALSE
             /\ IF news = {} THEN UNCHANGED <<alert_sequence, outbox>>
                ELSE /\ alert_sequence' = alert_sequence + 1
                     /\ \E e : /\ outbox' = outbox \cup {e}
                              /\ e.seq = alert_sequence + 1 /\ e.new = news
<1> DEFINE keys == IF Effective(o) = "available" THEN Canonical(o.labels) ELSE {}
           new == IF Effective(o) = "available" THEN AlertKeys(keys) ELSE {}
<1>1. /\ keys \in SUBSET Keys
      /\ Effective(o) = "available" <=> keys # {}
  BY Observed DEF Reliable
<1>2. /\ new = IF unread THEN keys ELSE keys \ shift_keys
      /\ new \in SUBSET keys /\ AlertReason \in Reasons
  <2>1. /\ AlertKeys(keys) \in SUBSET keys /\ AlertReason \in Reasons
        /\ AlertKeys(keys) = IF unread THEN keys ELSE keys \ shift_keys
    <3> HIDE DEF keys
    <3> QED
      BY <1>1, AlertKeysFacts
  <2>2. new = AlertKeys(keys)
    <3>1. Effective(o) # "available" => keys = {} /\ new = {}
      OBVIOUS
    <3>2. Effective(o) = "available" => new = AlertKeys(keys)
      OBVIOUS
    <3> HIDE DEF keys, new
    <3> QED
      BY <2>1, <3>1, <3>2
  <2> HIDE DEF keys, new
  <2> QED
    BY <2>1, <2>2
<1>3. /\ shift_keys' = keys /\ unread' = FALSE
      /\ IF new = {} THEN UNCHANGED <<alert_sequence, outbox>>
                     ELSE Enqueue(AlertReason, keys, new)
  BY DEF Reliable
<1>4. CASE new = {}
  <2> HIDE DEF keys, new
  <2> QED
    BY <1>1, <1>2, <1>3, <1>4
<1>5. CASE new # {}
  <2> DEFINE event == [seq |-> alert_sequence + 1, reason |-> AlertReason,
                       shifts |-> keys, new |-> new, burst |-> NeedsBurst(new),
                       total |-> IF NeedsBurst(new) THEN BurstParts ELSE 1]
  <2> HIDE DEF keys, new
  <2>1. outbox' = outbox \cup {event} /\ alert_sequence' = alert_sequence + 1
    <3>1. Enqueue(AlertReason, keys, new)
      BY <1>3, <1>5
    <3>2. outbox' \ outbox = {event} /\ outbox \subseteq outbox'
      BY <1>1, <1>2, <1>5, <3>1, EnqueueStep
    <3> QED
      BY <3>1, <3>2 DEF Enqueue
  <2>2. event.seq = alert_sequence + 1 /\ event.new = new
    OBVIOUS
  <2> QED
    BY <1>1, <1>2, <1>3, <1>5, <2>1, <2>2
<1> QED
  BY <1>4, <1>5

\* NoRepeatedAlert: a shift is announced twice only across unreadable pages.
THEOREM NeverRepeated == Spec => NoRepeatedAlert
<1>1. IInv /\ [Next]_vars
        => [\A e \in outbox' \ outbox : e.new \cap announced # {} => unread]_vars
  <2> SUFFICES ASSUME IInv, [Next]_vars, ~ UNCHANGED vars,
                      NEW e \in outbox' \ outbox, e.new \cap announced # {}
               PROVE  unread
    OBVIOUS
  <2>1. PICK o \in Observation :
          alert_sequence < MaxAlerts /\ (Unknown(o) \/ Failed(o) \/ Reliable(o))
    BY DEF Next
  <2>2. Reliable(o)
    BY <2>1 DEF Unknown, Failed
  <2>3. /\ shift_keys' \in SUBSET Keys
        /\ e.new = IF unread THEN shift_keys' ELSE shift_keys' \ shift_keys
    BY <2>1, <2>2, ReliableAlert
  <2> QED
    BY <2>3 DEF IInv
<1> QED
  BY <1>1, Invariance, PTL DEF Spec, NoRepeatedAlert

\* ImplementsPromise: the bookkeeping of apply_probe_result keeps the simple promise.
THEOREM Refinement == Spec => ImplementsPromise
<1>1. Init => Promise!AInit
  BY AvailabilityAssumption, InitInv DEF Init, IInv, TypeOK, Promise!AInit
<1>2. IInv /\ [Next]_vars => [Promise!ANext]_(Promise!avars)
  <2> SUFFICES ASSUME IInv, [Next]_vars PROVE [Promise!ANext]_(Promise!avars)
    OBVIOUS
  <2>1. CASE UNCHANGED vars
    BY <2>1 DEF vars, Promise!avars
  <2>2. ASSUME NEW o \in Observation, Unknown(o) PROVE [Promise!ANext]_(Promise!avars)
    BY <2>2 DEF Unknown, baseline, Promise!ANext, Promise!Cloud, Promise!avars, IInv, TypeOK
  <2>3. ASSUME NEW o \in Observation, Failed(o) PROVE [Promise!ANext]_(Promise!avars)
    BY <2>3 DEF Failed, baseline, Promise!avars
  <2>4. ASSUME NEW o \in Observation, alert_sequence < MaxAlerts, Reliable(o)
        PROVE  Promise!ANext
    <3>1. PICK K \in SUBSET Keys : K = shift_keys'
      BY <2>4, ReliableAlert
    <3>2. Promise!Reveal(K)
      BY <2>4, <3>1, ReliableAlert DEF Promise!Reveal
    <3> QED
      BY <3>2 DEF Promise!ANext
  <2> QED
    BY <2>1, <2>2, <2>3, <2>4 DEF Next
<1> QED
  BY <1>1, <1>2, Invariance, PTL DEF Spec, ImplementsPromise, Promise!ASpec
====
