---- MODULE TentHealth ----
(***************************************************************************)
(* main._record_tent_health: one tent's health over successive probe runs  *)
(* and the monitor-error incidents it enqueues (events.enqueue_monitor_    *)
(* error), for a new tent and for one whose counters and open incident     *)
(* state._migrate takes over from a snapshot of before the combined        *)
(* counter.  A run hands over the observed statuses of the tent's dates;   *)
(* the code only asks which of them occur, so the input is a set.          *)
(***************************************************************************)
EXTENDS Naturals, Sequences, FiniteSets

CONSTANTS Threshold,     \* FAILURE_THRESHOLD, 3 in the code
          MaxRuns,       \* bound on the number of probe runs of the tent
          MaxOld,        \* bound on the counters of an older snapshot
          MaxOldNumber   \* bound on the incidents it has numbered

ASSUME TentHealthAssumption ==
  Threshold \in Nat \ {0} /\ MaxRuns \in Nat /\ MaxOld \in Nat /\ MaxOldNumber \in Nat

VARIABLES
  consecutive_unhealthy, consecutive_failures, consecutive_degraded,
  failure_incident_open, failure_incident_sequence, failure_incident_kind,
  incidents,             \* monitor_error events: [number, kind]
  inherited,             \* history: the tent as the older snapshot has it
  history                \* history: per run its verdict and the alarm it raised

vars == <<consecutive_unhealthy, consecutive_failures, consecutive_degraded,
          failure_incident_open, failure_incident_sequence,
          failure_incident_kind, incidents, inherited, history>>

Kinds == {"degraded", "error"}
Observed == {"available", "unavailable", "unknown", "error"}

\* error outranks degraded when the dates of one run disagree.
Verdict(statuses) ==
  IF "error" \in statuses THEN "error"
  ELSE IF "unknown" \in statuses THEN "degraded" ELSE "healthy"

Larger(a, b) == IF a >= b THEN a ELSE b

\* Seeded fault: the combined counter of an old snapshot starts at zero.
MigratedUnhealthyZero(failures, degraded) == 0

\* state._migrate: snapshots before the combined counter have the two others only.
MigratedUnhealthy(failures, degraded) == Larger(failures, degraded)

\* ... and an open incident has no kind.
MigratedKind(open, failures, degraded) ==
  IF open /\ failures > 0 THEN "error"
  ELSE IF open /\ degraded > 0 THEN "degraded" ELSE "none"

\* Any counters beside any open flag: nothing relates them to each other or to the
\* incidents the older program reported.  A new tent is the one with nothing in it.
OldTents == [failures: 0..MaxOld, degraded: 0..MaxOld, open: BOOLEAN, number: 0..MaxOldNumber]

\* The events of the incidents numbered before; setdefault does not look at their kind.
OldIncidents == {[number |-> n, kind |-> "error"] : n \in 1..inherited.number}

Init ==
  /\ inherited \in OldTents
  /\ consecutive_unhealthy = MigratedUnhealthy(inherited.failures, inherited.degraded)
  /\ consecutive_failures = inherited.failures
  /\ consecutive_degraded = inherited.degraded
  /\ failure_incident_open = inherited.open
  /\ failure_incident_kind =
       MigratedKind(inherited.open, inherited.failures, inherited.degraded)
  /\ failure_incident_sequence = inherited.number
  /\ incidents = OldIncidents
  /\ history = <<>>

\* The incident number is the event's identity: setdefault keeps an old event.
EnqueueIncident(kind) ==
  LET number == failure_incident_sequence + 1
  IN  /\ failure_incident_sequence' = number
      /\ incidents' = IF \E e \in incidents : e.number = number THEN incidents
                      ELSE incidents \cup {[number |-> number, kind |-> kind]}

Opens == consecutive_unhealthy + 1 >= Threshold /\ ~failure_incident_open

\* Seeded fault: every change of kind escalates.
EscalatesOnAnyChange(kind) == failure_incident_open /\ failure_incident_kind # kind

Escalates(kind) == /\ failure_incident_open
                   /\ kind = "error" /\ failure_incident_kind # "error"

\* Seeded faults: a healthy run keeps the streak; it restarts the numbering.
HealthyKeepsStreak(statuses) ==
  /\ Verdict(statuses) = "healthy"
  /\ consecutive_failures' = 0 /\ consecutive_degraded' = 0
  /\ failure_incident_open' = FALSE /\ failure_incident_kind' = "none"
  /\ history' = Append(history, [verdict |-> "healthy", alarm |-> "none"])
  /\ UNCHANGED <<consecutive_unhealthy, failure_incident_sequence, incidents, inherited>>

HealthyRestartsNumbers(statuses) ==
  /\ Verdict(statuses) = "healthy"
  /\ consecutive_unhealthy' = 0 /\ consecutive_failures' = 0 /\ consecutive_degraded' = 0
  /\ failure_incident_open' = FALSE /\ failure_incident_kind' = "none"
  /\ failure_incident_sequence' = 0
  /\ history' = Append(history, [verdict |-> "healthy", alarm |-> "none"])
  /\ UNCHANGED <<incidents, inherited>>

Healthy(statuses) ==
  /\ Verdict(statuses) = "healthy"
  /\ consecutive_unhealthy' = 0
  /\ consecutive_failures' = 0
  /\ consecutive_degraded' = 0
  /\ failure_incident_open' = FALSE
  /\ failure_incident_kind' = "none"
  /\ history' = Append(history, [verdict |-> "healthy", alarm |-> "none"])
  /\ UNCHANGED <<failure_incident_sequence, incidents, inherited>>

Unhealthy(statuses) ==
  LET kind == Verdict(statuses)
      alarm == Opens \/ Escalates(kind)
  IN  /\ kind # "healthy"
      /\ consecutive_unhealthy' = consecutive_unhealthy + 1
      /\ consecutive_failures' = IF kind = "error" THEN consecutive_failures + 1 ELSE 0
      /\ consecutive_degraded' = IF "unknown" \in statuses
                                   THEN consecutive_degraded + 1 ELSE 0
      /\ IF alarm
           THEN /\ EnqueueIncident(kind)
                /\ failure_incident_open' = TRUE
                /\ failure_incident_kind' = kind
           ELSE UNCHANGED <<failure_incident_sequence, incidents,
                            failure_incident_open, failure_incident_kind>>
      /\ history' = Append(history, [verdict |-> kind,
                                     alarm |-> IF alarm THEN kind ELSE "none"])
      /\ UNCHANGED inherited

Next == \E statuses \in SUBSET Observed :
          /\ Len(history) < MaxRuns
          /\ Healthy(statuses) \/ Unhealthy(statuses)

Spec == Init /\ [][Next]_vars

-----------------------------------------------------------------------------
TypeOK ==
  /\ consecutive_unhealthy \in Nat /\ consecutive_failures \in Nat
  /\ consecutive_degraded \in Nat
  /\ failure_incident_open \in BOOLEAN
  /\ failure_incident_kind \in Kinds \cup {"none"}
  /\ failure_incident_sequence \in Nat
  /\ incidents \in SUBSET [number: Nat, kind: Kinds]
  /\ inherited \in OldTents
  /\ history \in Seq([verdict: Kinds \cup {"healthy"}, alarm: Kinds \cup {"none"}])

\* The runs i..j are unhealthy without interruption.
Streak(i, j) == \A k \in i..j : history[k].verdict # "healthy"

\* Run j is at least the Threshold-th unhealthy one in a row, counting those the longer
\* counter of the older snapshot stands for.
Reached(j) ==
  \/ j >= Threshold /\ Streak(j - Threshold + 1, j)
  \/ j + Larger(inherited.failures, inherited.degraded) >= Threshold /\ Streak(1, j)

\* The incident open in the older snapshot has not ended at run j.
StillOpen(j) == inherited.open /\ Streak(1, j)

\* No alarm before the tent was unhealthy in Threshold runs in a row, whatever mix of
\* errors and degraded runs those were, but the error alarm of an incident that was
\* open already.
NoEarlyAlarm ==
  \A j \in 1..Len(history) :
    history[j].alarm # "none" =>
      Reached(j) \/ (StillOpen(j) /\ history[j].alarm = "error")

\* In one unhealthy episode every kind is reported at most once, and a degraded
\* alarm never follows an error alarm: flapping between the two kinds does not
\* produce a stream of notifications.  An episode that was open before the migration
\* has no second degraded alarm either, and no error alarm if it was open in error.
OneAlarmPerKind ==
  /\ \A i, j \in 1..Len(history) :
       (i < j /\ Streak(i, j) /\ history[i].alarm # "none" /\ history[j].alarm # "none")
         => history[i].alarm = "degraded" /\ history[j].alarm = "error"
  /\ \A j \in 1..Len(history) :
       (StillOpen(j) /\ history[j].alarm # "none")
         => history[j].alarm = "error" /\ inherited.failures = 0

\* An outage is never silent: once Threshold runs in a row were unhealthy some alarm of
\* that episode exists, and once such a run was an error, an error alarm.  An incident
\* taken over as open counts as that alarm, as an error alarm if the last run before
\* the migration was an error; the older snapshot does not say which alarm it raised.
AlarmNotMissed ==
  \A j \in 1..Len(history) :
    Reached(j) \/ StillOpen(j) =>
      \/ \E i \in 1..j : /\ Streak(i, j)
                         /\ history[i].alarm # "none"
                         /\ history[j].verdict = "error" => history[i].alarm = "error"
      \/ /\ StillOpen(j)
         /\ history[j].verdict = "error" => inherited.failures > 0

\* Each alarm is an event of its own: no incident number is used twice, also none of
\* before the migration, so setdefault swallows none.
AlarmsEnqueued ==
  /\ OldIncidents \subseteq incidents
  /\ Cardinality(incidents \ OldIncidents)
       = Cardinality({i \in 1..Len(history) : history[i].alarm # "none"})
====
