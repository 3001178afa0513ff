---- MODULE TentHealth_proofs ----
(***************************************************************************)
(* Proofs about TentHealth, for every threshold, every migrated tent and   *)
(* any number of runs: the counters and the open incident summarise the    *)
(* unbroken run of unhealthy verdicts at the end of the history, together  *)
(* with what the older snapshot says while that run reaches back to it,    *)
(* and from that follows what the alarms in the history are.               *)
(***************************************************************************)
EXTENDS TentHealth, FiniteSetTheorems, TLAPS

Entries == [verdict: Kinds \cup {"healthy"}, alarm: Kinds \cup {"none"}]

Runs == Len(history)
OldStreak == Larger(inherited.failures, inherited.degraded)

\* The tent was unhealthy in every run since the migration.
Unbroken == Streak(1, Runs)

\* The current streak: it goes back to the older snapshot and its counters, or it is
\* consecutive_unhealthy runs long and maximal.
StreakInv ==
  /\ Unbroken => consecutive_unhealthy = Runs + OldStreak
  /\ ~Unbroken =>
       /\ consecutive_unhealthy \in 0..(Runs - 1)
       /\ history[Runs - consecutive_unhealthy].verdict = "healthy"
       /\ \A i \in 1..Runs :
            i + consecutive_unhealthy > Runs => history[i].verdict # "healthy"

\* From Threshold runs on the incident is open, and earlier only if it was taken over.
OpenInv ==
  /\ failure_incident_open => consecutive_unhealthy >= Threshold \/ StillOpen(Runs)
  /\ StillOpen(Runs) => failure_incident_open
  /\ consecutive_unhealthy >= Threshold /\ Runs >= 1 => failure_incident_open

\* Its kind is the gravest alarm of the streak, or what the snapshot makes of it.
KindInv ==
  /\ failure_incident_open =>
       \/ /\ failure_incident_kind \in Kinds
          /\ \E i \in 1..Runs : Streak(i, Runs) /\ history[i].alarm = failure_incident_kind
       \/ /\ StillOpen(Runs)
          /\ failure_incident_kind = "error" <=> inherited.failures > 0
  /\ \A i \in 1..Runs : Streak(i, Runs) =>
       /\ history[i].alarm # "none" => failure_incident_open
       /\ history[i].alarm = "error" => failure_incident_kind = "error"
  /\ StillOpen(Runs) /\ inherited.failures > 0 => failure_incident_kind = "error"

IncidentInv == OpenInv /\ KindInv

\* What NoEarlyAlarm, OneAlarmPerKind and AlarmNotMissed say of run j.
NotEarly(j) ==
  history[j].alarm # "none" =>
    Reached(j) \/ (StillOpen(j) /\ history[j].alarm = "error")

Once(j) ==
  history[j].alarm # "none" =>
    /\ \A i \in 1..(j - 1) :
         Streak(i, j) /\ history[i].alarm # "none"
           => history[i].alarm = "degraded" /\ history[j].alarm = "error"
    /\ StillOpen(j) => history[j].alarm = "error" /\ inherited.failures = 0

Reported(j) ==
  Reached(j) \/ StillOpen(j) =>
    \/ \E i \in 1..j : /\ Streak(i, j)
                       /\ history[i].alarm # "none"
                       /\ history[j].verdict = "error" => history[i].alarm = "error"
    \/ /\ StillOpen(j)
       /\ history[j].verdict = "error" => inherited.failures > 0

AlarmsInv == \A j \in 1..Runs : NotEarly(j) /\ Once(j) /\ Reported(j)

Inv == TypeOK /\ StreakInv /\ IncidentInv /\ AlarmsInv

LEMMA TypeFacts == TypeOK => history \in Seq(Entries)
BY DEF TypeOK, Entries

\* What a run leaves behind, whatever it observed.
LEMMA StepFacts ==
  ASSUME TypeOK, NEW statuses, Healthy(statuses) \/ Unhealthy(statuses)
  PROVE  /\ Runs \in Nat /\ history' \in Seq(Entries)
         /\ Runs' = Runs + 1
         /\ \A i \in 1..Runs : history'[i] = history[i]
         /\ inherited' = inherited
<1>1. history \in Seq(Entries)
  BY TypeFacts
<1>2. PICK entry \in Entries : history' = Append(history, entry)
  <2>1. CASE Healthy(statuses)
    BY <2>1 DEF Healthy, Entries
  <2>2. CASE Unhealthy(statuses)
    <3>1. Verdict(statuses) \in Kinds
      BY <2>2 DEF Unhealthy, Verdict, Kinds
    <3> QED
      BY <2>2, <3>1 DEF Unhealthy, Entries, Kinds
  <2> QED
    BY <2>1, <2>2
<1>3. inherited' = inherited
  BY DEF Healthy, Unhealthy
<1> QED
  BY <1>1, <1>2, <1>3 DEF Runs

LEMMA HealthyType ==
  ASSUME TypeOK, NEW statuses, Healthy(statuses)
  PROVE  TypeOK'
<1>1. history' \in Seq(Entries)
  BY StepFacts
<1>2. failure_incident_open' \in BOOLEAN
  BY Zenon DEF Healthy
<1>3. inherited' \in OldTents
  BY StepFacts DEF TypeOK, OldTents
<1> QED
  BY <1>1, <1>2, <1>3 DEF TypeOK, Healthy, Entries

LEMMA UnhealthyType ==
  ASSUME TypeOK, NEW statuses, Unhealthy(statuses)
  PROVE  TypeOK'
<1>1. history' \in Seq(Entries)
  BY StepFacts
<1>2. Verdict(statuses) \in Kinds
  BY DEF Unhealthy, Verdict, Kinds
<1>3. /\ consecutive_unhealthy' \in Nat /\ consecutive_failures' \in Nat
      /\ consecutive_degraded' \in Nat
  BY SMT DEF Unhealthy, TypeOK
<1>4. /\ failure_incident_sequence' \in Nat
      /\ incidents' \in SUBSET [number: Nat, kind: Kinds]
      /\ failure_incident_kind' \in Kinds \cup {"none"}
  BY <1>2, SMT DEF Unhealthy, EnqueueIncident, TypeOK
<1>5. failure_incident_open' \in BOOLEAN
  BY Zenon DEF Unhealthy, TypeOK
<1>6. inherited' \in OldTents
  BY StepFacts DEF TypeOK, OldTents
<1> QED
  BY <1>1, <1>3, <1>4, <1>5, <1>6 DEF TypeOK, Entries

\* What the properties say of the runs so far is not changed by another one.
LEMMA Extended ==
  ASSUME TypeOK, NEW statuses, Healthy(statuses) \/ Unhealthy(statuses), NEW j \in 1..Runs
  PROVE  /\ history'[j] = history[j]
         /\ \A i \in 1..j : Streak(i, j)' <=> Streak(i, j)
         /\ Reached(j)' <=> Reached(j)
         /\ StillOpen(j)' <=> StillOpen(j)
<1>1. /\ Runs \in Nat /\ \A i \in 1..Runs : history'[i] = history[i]
      /\ inherited' = inherited
  BY StepFacts
<1>2. ASSUME NEW i \in 1..j
      PROVE  Streak(i, j)' <=> Streak(i, j)
  <2>1. \A k \in i..j : k \in 1..Runs
    BY <1>1, SMT
  <2> QED
    BY <1>1, <2>1 DEF Streak
<1>3. Streak(1, j)' <=> Streak(1, j)
  <2>1. 1 \in 1..j
    BY <1>1, SMT
  <2> QED
    BY <1>2, <2>1
<1>4. j >= Threshold =>
        (Streak(j - Threshold + 1, j)' <=> Streak(j - Threshold + 1, j))
  <2>1. j >= Threshold => j - Threshold + 1 \in 1..j
    BY <1>1, TentHealthAssumption, SMT
  <2> QED
    BY <1>2, <2>1
<1>5. Reached(j)' <=> Reached(j)
  BY <1>1, <1>3, <1>4 DEF Reached
<1> QED
  BY <1>1, <1>2, <1>3, <1>5 DEF StillOpen

\* The streak goes on through an unhealthy run and ends with a healthy one.
LEMMA Prolonged ==
  ASSUME TypeOK, NEW statuses, Healthy(statuses) \/ Unhealthy(statuses)
  PROVE  /\ \A i \in 1..Runs :
              Streak(i, Runs)' <=>
                Streak(i, Runs) /\ history'[Runs + 1].verdict # "healthy"
         /\ Unbroken' <=> Unbroken /\ history'[Runs + 1].verdict # "healthy"
         /\ StillOpen(Runs)' <=>
              StillOpen(Runs) /\ history'[Runs + 1].verdict # "healthy"
<1>1. /\ Runs \in Nat /\ Runs' = Runs + 1 /\ inherited' = inherited
      /\ \A i \in 1..Runs : history'[i] = history[i]
  BY StepFacts
<1>2. ASSUME NEW i \in 1..(Runs + 1)
      PROVE  Streak(i, Runs)' <=>
               Streak(i, Runs) /\ history'[Runs + 1].verdict # "healthy"
  <2>1. \A k : k \in i..(Runs + 1) <=> k \in i..Runs \/ k = Runs + 1
    BY <1>1, SMT
  <2>2. \A k \in i..Runs : k \in 1..Runs
    BY <1>1, SMT
  <2>3. Streak(i, Runs)' <=> \A k \in i..(Runs + 1) : history'[k].verdict # "healthy"
    BY <1>1 DEF Streak
  <2>4. Streak(i, Runs) <=> \A k \in i..Runs : history'[k].verdict # "healthy"
    BY <1>1, <2>2 DEF Streak
  <2> QED
    BY <2>1, <2>3, <2>4
<1>3. 1 \in 1..(Runs + 1) /\ \A i \in 1..Runs : i \in 1..(Runs + 1)
  BY <1>1, SMT
<1>4. Unbroken' <=> Unbroken /\ history'[Runs + 1].verdict # "healthy"
  BY <1>1, <1>2, <1>3 DEF Unbroken
<1>5. StillOpen(Runs)' <=> StillOpen(Runs) /\ history'[Runs + 1].verdict # "healthy"
  BY <1>1, <1>2, <1>3 DEF StillOpen
<1> QED
  BY <1>2, <1>3, <1>4, <1>5

-----------------------------------------------------------------------------
(* One unhealthy run *)

Raised(kind) == Opens \/ Escalates(kind)

\* The run, next to the history it extends.
LEMMA UnhealthyFacts ==
  ASSUME TypeOK, NEW statuses, Unhealthy(statuses)
  PROVE  LET kind == Verdict(statuses)
         IN  /\ kind \in Kinds
             /\ history'[Runs + 1].verdict = kind
             /\ history'[Runs + 1].alarm = IF Raised(kind) THEN kind ELSE "none"
             /\ consecutive_unhealthy' = consecutive_unhealthy + 1
             /\ failure_incident_open' = (failure_incident_open \/ Raised(kind))
             /\ failure_incident_kind' = IF Raised(kind) THEN kind ELSE failure_incident_kind
<1> DEFINE kind == Verdict(statuses)
           entry == [verdict |-> kind, alarm |-> IF Raised(kind) THEN kind ELSE "none"]
<1>1. kind \in Kinds
  BY DEF Unhealthy, Verdict, Kinds
<1>2. history' = Append(history, entry)
  BY DEF Unhealthy, Raised
<1>3. history \in Seq(Entries) /\ entry \in Entries
  BY <1>1, TypeFacts DEF Entries
<1>4. history'[Runs + 1] = entry
  <2> HIDE DEF entry
  <2> QED
    BY <1>2, <1>3 DEF Runs
<1>5. consecutive_unhealthy' = consecutive_unhealthy + 1
  BY DEF Unhealthy
<1>6. failure_incident_open' = (failure_incident_open \/ Raised(kind))
  BY Zenon DEF Unhealthy, Raised, TypeOK
<1>7. failure_incident_kind' = IF Raised(kind) THEN kind ELSE failure_incident_kind
  BY Zenon DEF Unhealthy, Raised
<1> QED
  BY <1>1, <1>4, <1>5, <1>6, <1>7

LEMMA UnhealthyStreak ==
  ASSUME TypeOK, StreakInv, NEW statuses, Unhealthy(statuses)
  PROVE  StreakInv'
<1>1. /\ Runs \in Nat /\ Runs' = Runs + 1 /\ inherited' = inherited
      /\ \A i \in 1..Runs : history'[i] = history[i]
  BY StepFacts
<1>2. /\ history'[Runs + 1].verdict # "healthy"
      /\ consecutive_unhealthy' = consecutive_unhealthy + 1
  BY UnhealthyFacts DEF Kinds
<1>3. Unbroken' <=> Unbroken
  BY <1>2, Prolonged
<1>4. OldStreak \in Nat /\ OldStreak' = OldStreak
  BY <1>1, SMT DEF TypeOK, OldTents, TentHealthAssumption, OldStreak, Larger
<1>5. CASE Unbroken
  <2>1. consecutive_unhealthy' = Runs' + OldStreak'
    BY <1>1, <1>2, <1>4, <1>5, SMT DEF StreakInv
  <2> QED
    BY <1>3, <1>5, <2>1 DEF StreakInv
<1>6. CASE ~Unbroken
  <2> DEFINE u == consecutive_unhealthy
  <2>1. /\ u \in 0..(Runs - 1)
        /\ history[Runs - u].verdict = "healthy"
        /\ \A i \in 1..Runs : i + u > Runs => history[i].verdict # "healthy"
    BY <1>6 DEF StreakInv
  <2>2. consecutive_unhealthy' = u + 1
    BY <1>2
  <2> HIDE DEF u
  <2>3. /\ consecutive_unhealthy' \in 0..(Runs' - 1)
        /\ Runs - u \in 1..Runs /\ Runs' - consecutive_unhealthy' = Runs - u
    BY <1>1, <2>1, <2>2, SMT
  <2>4. ASSUME NEW i \in 1..Runs', i + consecutive_unhealthy' > Runs'
        PROVE  history'[i].verdict # "healthy"
    <3>1. i = Runs + 1 \/ (i \in 1..Runs /\ i + u > Runs)
      BY <1>1, <2>1, <2>2, <2>4, SMT
    <3> QED
      BY <1>1, <1>2, <2>1, <3>1
  <2>5. history'[Runs' - consecutive_unhealthy'].verdict = "healthy"
    BY <1>1, <2>1, <2>3
  <2> QED
    BY <1>3, <1>6, <2>3, <2>4, <2>5 DEF StreakInv
<1> QED
  BY <1>5, <1>6

\* The streak, and how long it is, once an unhealthy run has prolonged it.
LEMMA StreakLength ==
  ASSUME TypeOK, StreakInv
  PROVE  /\ Runs \in Nat /\ consecutive_unhealthy \in Nat /\ OldStreak \in Nat
         /\ Unbroken => consecutive_unhealthy = Runs + OldStreak
         /\ ~Unbroken => consecutive_unhealthy < Runs
         /\ \A i \in 1..Runs : i + consecutive_unhealthy > Runs <=> Streak(i, Runs)
<1>1. Runs \in Nat /\ consecutive_unhealthy \in Nat
  BY TypeFacts DEF TypeOK, Runs
<1>2. OldStreak \in Nat
  BY SMT, TentHealthAssumption DEF TypeOK, OldTents, OldStreak, Larger
<1>3. /\ Unbroken => consecutive_unhealthy = Runs + OldStreak
      /\ ~Unbroken => consecutive_unhealthy < Runs
  BY <1>1, SMT DEF StreakInv
<1>4. ASSUME NEW i \in 1..Runs
      PROVE  i + consecutive_unhealthy > Runs <=> Streak(i, Runs)
  <2>1. CASE Unbroken
    <3>1. i + consecutive_unhealthy > Runs
      BY <1>1, <1>2, <1>3, <2>1, SMT
    <3>2. \A k \in i..Runs : k \in 1..Runs
      BY <1>1, SMT
    <3> QED
      BY <2>1, <3>1, <3>2 DEF Unbroken, Streak
  <2>2. CASE ~Unbroken
    <3>1. CASE i + consecutive_unhealthy > Runs
      <4>1. \A k \in i..Runs : k \in 1..Runs /\ k + consecutive_unhealthy > Runs
        BY <1>1, <3>1, SMT
      <4> QED
        BY <2>2, <3>1, <4>1 DEF StreakInv, Streak
    <3>2. CASE ~(i + consecutive_unhealthy > Runs)
      <4>1. Runs - consecutive_unhealthy \in i..Runs
        BY <1>1, <3>2, SMT
      <4> QED
        BY <2>2, <3>2, <4>1 DEF StreakInv, Streak
    <3> QED
      BY <3>1, <3>2
  <2> QED
    BY <2>1, <2>2
<1> QED
  BY <1>1, <1>2, <1>3, <1>4

LEMMA ReachedLength ==
  TypeOK /\ StreakInv /\ Runs >= 1 => (Reached(Runs) <=> consecutive_unhealthy >= Threshold)
<1> SUFFICES ASSUME TypeOK, StreakInv, Runs >= 1
             PROVE  Reached(Runs) <=> consecutive_unhealthy >= Threshold
  OBVIOUS
<1>1. /\ Runs \in Nat /\ consecutive_unhealthy \in Nat /\ OldStreak \in Nat
      /\ Unbroken => consecutive_unhealthy = Runs + OldStreak
      /\ ~Unbroken => consecutive_unhealthy < Runs
      /\ \A i \in 1..Runs : i + consecutive_unhealthy > Runs <=> Streak(i, Runs)
  BY StreakLength
<1>2. Threshold \in Nat \ {0}
  BY TentHealthAssumption
<1>3. Reached(Runs) <=> \/ Runs >= Threshold /\ Streak(Runs - Threshold + 1, Runs)
                        \/ Runs + OldStreak >= Threshold /\ Unbroken
  BY Zenon DEF Reached, OldStreak, Unbroken
<1>4. Runs >= Threshold =>
        (Streak(Runs - Threshold + 1, Runs) <=> consecutive_unhealthy >= Threshold)
  <2>1. ASSUME Runs >= Threshold
        PROVE  Runs - Threshold + 1 \in 1..Runs
    BY <1>1, <1>2, <2>1, SMT
  <2>2. Runs >= Threshold =>
          (Streak(Runs - Threshold + 1, Runs)
             <=> (Runs - Threshold + 1) + consecutive_unhealthy > Runs)
    BY <1>1, <2>1
  <2>3. (Runs - Threshold + 1) + consecutive_unhealthy > Runs
          <=> consecutive_unhealthy >= Threshold
    BY <1>1, <1>2, SMT
  <2> QED
    BY <2>2, <2>3
<1>5. /\ Unbroken => /\ Runs >= Threshold => consecutive_unhealthy >= Threshold
                     /\ Runs + OldStreak >= Threshold <=> consecutive_unhealthy >= Threshold
      /\ ~Unbroken => (consecutive_unhealthy >= Threshold => Runs >= Threshold)
  <2>1. Runs >= Threshold => Runs + OldStreak >= Threshold
    BY <1>1, <1>2, SMT
  <2>2. consecutive_unhealthy < Runs /\ consecutive_unhealthy >= Threshold => Runs >= Threshold
    BY <1>1, <1>2, SMT
  <2> QED
    BY <1>1, <2>1, <2>2
<1> QED
  BY <1>3, <1>4, <1>5, Zenon

\* An unhealthy run reaches the threshold exactly if the counter then does.
LEMMA UnhealthyReaches ==
  ASSUME TypeOK, StreakInv, NEW statuses, Unhealthy(statuses)
  PROVE  /\ Reached(Runs)' <=> consecutive_unhealthy + 1 >= Threshold
         /\ StillOpen(Runs)' <=> StillOpen(Runs)
<1>1. TypeOK' /\ StreakInv'
  BY UnhealthyType, UnhealthyStreak
<1>2. TypeOK' /\ StreakInv' /\ (Runs >= 1)' =>
        (Reached(Runs)' <=> (consecutive_unhealthy >= Threshold)')
  BY ReachedLength, PTL
<1>3. Runs' >= 1
  BY StepFacts, SMT
<1>4. consecutive_unhealthy' = consecutive_unhealthy + 1
  BY UnhealthyFacts
<1>5. StillOpen(Runs)' <=> StillOpen(Runs)
  BY Prolonged, UnhealthyFacts DEF Kinds
<1> QED
  BY <1>1, <1>2, <1>3, <1>4, <1>5

LEMMA UnhealthyOpen ==
  ASSUME TypeOK, StreakInv, OpenInv, NEW statuses, Unhealthy(statuses)
  PROVE  OpenInv'
<1>1. /\ consecutive_unhealthy' = consecutive_unhealthy + 1
      /\ failure_incident_open' <=> (failure_incident_open \/ Raised(Verdict(statuses)))
  BY UnhealthyFacts
<1>2. /\ Raised(Verdict(statuses)) =>
           consecutive_unhealthy + 1 >= Threshold \/ failure_incident_open
      /\ consecutive_unhealthy + 1 >= Threshold =>
           failure_incident_open \/ Raised(Verdict(statuses))
  BY DEF Raised, Opens, Escalates
<1>3. StillOpen(Runs)' <=> StillOpen(Runs)
  BY UnhealthyReaches
<1>4. consecutive_unhealthy \in Nat /\ Threshold \in Nat
  BY TentHealthAssumption DEF TypeOK
<1>5. /\ failure_incident_open => consecutive_unhealthy >= Threshold \/ StillOpen(Runs)
      /\ StillOpen(Runs) => failure_incident_open
  BY DEF OpenInv
<1>6. consecutive_unhealthy >= Threshold => consecutive_unhealthy' >= Threshold
  BY <1>1, <1>4, SMT
<1> QED
  BY <1>1, <1>2, <1>3, <1>5, <1>6 DEF OpenInv

LEMMA UnhealthyKind ==
  ASSUME Inv, NEW statuses, Unhealthy(statuses)
  PROVE  KindInv'
<1> DEFINE kind == Verdict(statuses)
<1>1. /\ Runs \in Nat /\ Runs' = Runs + 1 /\ inherited' = inherited
      /\ \A i \in 1..Runs : history'[i] = history[i]
  BY StepFacts DEF Inv
<1>2. /\ kind \in Kinds
      /\ history'[Runs + 1].verdict = kind
      /\ history'[Runs + 1].alarm = IF Raised(kind) THEN kind ELSE "none"
      /\ failure_incident_open' <=> (failure_incident_open \/ Raised(kind))
      /\ failure_incident_kind' = IF Raised(kind) THEN kind ELSE failure_incident_kind
  BY UnhealthyFacts DEF Inv
<1>3. kind # "healthy"
  BY <1>2 DEF Kinds
<1>4. /\ \A i \in 1..Runs : Streak(i, Runs)' <=> Streak(i, Runs)
      /\ StillOpen(Runs)' <=> StillOpen(Runs)
  BY <1>2, <1>3, Prolonged DEF Inv
<1>5. Streak(Runs, Runs)'
  BY <1>1, <1>2, <1>3, SMT DEF Streak
<1>6. /\ failure_incident_open =>
           \/ /\ failure_incident_kind \in Kinds
              /\ \E i \in 1..Runs : Streak(i, Runs) /\ history[i].alarm = failure_incident_kind
           \/ /\ StillOpen(Runs)
              /\ failure_incident_kind = "error" <=> inherited.failures > 0
      /\ \A i \in 1..Runs : Streak(i, Runs) =>
           /\ history[i].alarm # "none" => failure_incident_open
           /\ history[i].alarm = "error" => failure_incident_kind = "error"
      /\ StillOpen(Runs) /\ inherited.failures > 0 => failure_incident_kind = "error"
      /\ StillOpen(Runs) => failure_incident_open
  BY DEF Inv, IncidentInv, KindInv, OpenInv
<1>7. Raised(kind) /\ failure_incident_open => kind = "error" /\ failure_incident_kind # "error"
  BY DEF Raised, Opens, Escalates
<1>8. \A i \in 1..Runs' : i \in 1..Runs \/ i = Runs + 1
  BY <1>1, SMT
<1>9. Runs + 1 \in 1..Runs' /\ \A i \in 1..Runs : i \in 1..Runs'
  BY <1>1, SMT
<1> HIDE DEF kind
<1>10. ASSUME failure_incident_open'
       PROVE  \/ /\ failure_incident_kind' \in Kinds
                 /\ \E i \in 1..Runs' : /\ Streak(i, Runs)'
                                        /\ history'[i].alarm = failure_incident_kind'
              \/ /\ StillOpen(Runs)'
                 /\ failure_incident_kind' = "error" <=> inherited'.failures > 0
  <2>1. CASE Raised(kind)
    BY <1>1, <1>2, <1>5, <1>9, <2>1
  <2>2. CASE ~Raised(kind)
    <3>1. failure_incident_open /\ failure_incident_kind' = failure_incident_kind
      BY <1>2, <1>10, <2>2
    <3> QED
      BY <1>1, <1>4, <1>6, <1>9, <3>1
  <2> QED
    BY <2>1, <2>2
<1>11. ASSUME NEW i \in 1..Runs', Streak(i, Runs)'
       PROVE  /\ history'[i].alarm # "none" => failure_incident_open'
              /\ history'[i].alarm = "error" => failure_incident_kind' = "error"
  <2>1. CASE i = Runs + 1
    BY <1>2, <2>1
  <2>2. CASE i \in 1..Runs
    <3>1. history'[i] = history[i] /\ Streak(i, Runs)
      BY <1>1, <1>4, <1>11, <2>2
    <3>2. history[i].alarm = "error" => failure_incident_open
      BY <1>6, <2>2, <3>1
    <3> QED
      BY <1>2, <1>6, <1>7, <2>2, <3>1, <3>2
  <2> QED
    BY <1>8, <2>1, <2>2
<1>12. StillOpen(Runs)' /\ inherited'.failures > 0 => failure_incident_kind' = "error"
  BY <1>1, <1>2, <1>4, <1>6, <1>7
<1> QED
  BY <1>10, <1>11, <1>12, Zenon DEF KindInv

\* The alarm of an unhealthy run, and what it leaves unreported.
LEMMA UnhealthyRun ==
  ASSUME Inv, NEW statuses, Unhealthy(statuses), OpenInv', KindInv'
  PROVE  NotEarly(Runs)' /\ Once(Runs)' /\ Reported(Runs)'
<1> DEFINE kind == Verdict(statuses)
<1>1. /\ Runs \in Nat /\ Runs' = Runs + 1 /\ inherited' = inherited
      /\ \A i \in 1..Runs : history'[i] = history[i]
  BY StepFacts DEF Inv
<1>2. /\ kind \in Kinds
      /\ history'[Runs'].verdict = kind
      /\ history'[Runs'].alarm = IF Raised(kind) THEN kind ELSE "none"
      /\ failure_incident_open' <=> (failure_incident_open \/ Raised(kind))
      /\ failure_incident_kind' = IF Raised(kind) THEN kind ELSE failure_incident_kind
  BY <1>1, UnhealthyFacts DEF Inv
<1>3. /\ Reached(Runs)' <=> consecutive_unhealthy + 1 >= Threshold
      /\ StillOpen(Runs)' <=> StillOpen(Runs)
  BY UnhealthyReaches DEF Inv
<1>4. \A i \in 1..Runs : Streak(i, Runs)' => Streak(i, Runs)
  BY Prolonged DEF Inv
<1>5. /\ failure_incident_open => consecutive_unhealthy >= Threshold \/ StillOpen(Runs)
      /\ StillOpen(Runs) => failure_incident_open
      /\ \A i \in 1..Runs : Streak(i, Runs) =>
           /\ history[i].alarm # "none" => failure_incident_open
           /\ history[i].alarm = "error" => failure_incident_kind = "error"
      /\ StillOpen(Runs) /\ inherited.failures > 0 => failure_incident_kind = "error"
  BY DEF Inv, IncidentInv, OpenInv, KindInv
<1>6. Raised(kind) =>
        \/ consecutive_unhealthy + 1 >= Threshold /\ ~failure_incident_open
        \/ failure_incident_open /\ kind = "error" /\ failure_incident_kind # "error"
  BY DEF Raised, Opens, Escalates
<1>7. consecutive_unhealthy >= Threshold => consecutive_unhealthy + 1 >= Threshold
  BY TentHealthAssumption, SMT DEF Inv, TypeOK
<1>8. inherited.failures \in Nat
  BY TentHealthAssumption, SMT DEF Inv, TypeOK, OldTents
<1>9. \A i \in 1..Runs : history[i].alarm \in {"degraded", "error", "none"}
  <2>1. history \in Seq(Entries)
    BY TypeFacts DEF Inv
  <2>2. \A i \in 1..Runs : history[i] \in Entries
    BY <2>1, SMT DEF Runs
  <2> QED
    BY <2>2 DEF Entries, Kinds
<1>10. kind # "none"
  BY <1>2 DEF Kinds
<1> HIDE DEF kind
<1>11. NotEarly(Runs)'
  BY <1>2, <1>3, <1>5, <1>6, <1>7, Zenon DEF NotEarly
<1>12. Once(Runs)'
  <2>1. ASSUME history'[Runs'].alarm # "none"
        PROVE  Raised(kind) /\ history'[Runs'].alarm = kind
    BY <1>2, <2>1
  <2>2. ASSUME NEW i \in 1..(Runs' - 1), Streak(i, Runs)', history'[i].alarm # "none",
               history'[Runs'].alarm # "none"
        PROVE  history'[i].alarm = "degraded" /\ history'[Runs'].alarm = "error"
    <3>1. i \in 1..Runs
      BY <1>1, SMT
    <3>2. history'[i] = history[i] /\ Streak(i, Runs)
      BY <1>1, <1>4, <2>2, <3>1
    <3>3. failure_incident_open
      BY <1>5, <2>2, <3>1, <3>2
    <3>4. kind = "error" /\ failure_incident_kind # "error"
      BY <1>6, <2>1, <2>2, <3>3
    <3> QED
      BY <1>5, <1>9, <2>1, <2>2, <3>1, <3>2, <3>4
  <2>3. ASSUME StillOpen(Runs)', history'[Runs'].alarm # "none"
        PROVE  history'[Runs'].alarm = "error" /\ inherited'.failures = 0
    <3>1. StillOpen(Runs) /\ failure_incident_open
      BY <1>3, <1>5, <2>3
    <3>2. kind = "error" /\ failure_incident_kind # "error"
      BY <1>6, <2>1, <2>3, <3>1
    <3>3. ~(inherited.failures > 0)
      BY <1>5, <3>1, <3>2
    <3>4. inherited.failures = 0
      BY <1>8, <3>3, SMT
    <3> QED
      BY <1>1, <2>1, <2>3, <3>2, <3>4
  <2> QED
    BY <2>2, <2>3, Zenon DEF Once
<1>13. Reported(Runs)'
  <2>1. SUFFICES ASSUME Reached(Runs)' \/ StillOpen(Runs)'
                 PROVE  \/ \E i \in 1..Runs' :
                             /\ Streak(i, Runs)'
                             /\ history'[i].alarm # "none"
                             /\ history'[Runs'].verdict = "error"
                                  => history'[i].alarm = "error"
                        \/ /\ StillOpen(Runs)'
                           /\ history'[Runs'].verdict = "error" => inherited'.failures > 0
    BY Zenon DEF Reported
  <2>2. failure_incident_open'
    <3>1. consecutive_unhealthy + 1 >= Threshold => failure_incident_open \/ Raised(kind)
      BY Zenon DEF Raised, Opens
    <3> QED
      BY <1>2, <1>3, <1>5, <2>1, <3>1
  <2>3. \/ /\ failure_incident_kind' \in Kinds
           /\ \E i \in 1..Runs' : Streak(i, Runs)' /\ history'[i].alarm = failure_incident_kind'
        \/ /\ StillOpen(Runs)'
           /\ failure_incident_kind' = "error" <=> inherited'.failures > 0
    BY <2>2, Zenon DEF KindInv
  <2>4. kind = "error" => failure_incident_kind' = "error"
    <3>1. kind = "error" /\ ~Raised(kind) => ~failure_incident_open \/ failure_incident_kind = "error"
      BY Zenon DEF Raised, Escalates
    <3> QED
      BY <1>2, <2>2, <3>1
  <2>5. \A k \in Kinds : k # "none"
    BY DEF Kinds
  <2> QED
    BY <1>2, <2>3, <2>4, <2>5
<1> QED
  BY <1>11, <1>12, <1>13

\* What was said of the runs so far still holds.
LEMMA EarlierRuns ==
  ASSUME Inv, NEW statuses, Healthy(statuses) \/ Unhealthy(statuses), NEW j \in 1..Runs
  PROVE  NotEarly(j)' /\ Once(j)' /\ Reported(j)'
<1>1. /\ history'[j] = history[j]
      /\ \A i \in 1..j : Streak(i, j)' <=> Streak(i, j)
      /\ Reached(j)' <=> Reached(j)
      /\ StillOpen(j)' <=> StillOpen(j)
  BY Extended DEF Inv
<1>2. /\ Runs \in Nat /\ inherited' = inherited
      /\ \A i \in 1..Runs : history'[i] = history[i]
  BY StepFacts DEF Inv
<1>3. \A i \in 1..j : i \in 1..Runs
  BY <1>2, SMT
<1>4. \A i \in 1..(j - 1) : i \in 1..j
  BY <1>2, SMT
<1>5. NotEarly(j) /\ Once(j) /\ Reported(j)
  BY DEF Inv, AlarmsInv
<1>6. NotEarly(j)'
  BY <1>1, <1>5, Zenon DEF NotEarly
<1>7. Once(j)'
  BY <1>1, <1>2, <1>3, <1>4, <1>5, Zenon DEF Once
<1>8. Reported(j)'
  BY <1>1, <1>2, <1>3, <1>5, Zenon DEF Reported
<1> QED
  BY <1>6, <1>7, <1>8

-----------------------------------------------------------------------------
(* One healthy run *)

LEMMA HealthyFacts ==
  ASSUME TypeOK, NEW statuses, Healthy(statuses)
  PROVE  /\ history'[Runs + 1] = [verdict |-> "healthy", alarm |-> "none"]
         /\ consecutive_unhealthy' = 0
         /\ ~failure_incident_open'
<1>1. history \in Seq(Entries) /\ [verdict |-> "healthy", alarm |-> "none"] \in Entries
  BY TypeFacts DEF Entries
<1> QED
  BY <1>1 DEF Healthy, Runs

\* It ends the streak and raises nothing.
LEMMA HealthyRun ==
  ASSUME Inv, NEW statuses, Healthy(statuses)
  PROVE  /\ StreakInv' /\ IncidentInv'
         /\ NotEarly(Runs)' /\ Once(Runs)' /\ Reported(Runs)'
<1>1. Runs \in Nat /\ Runs' = Runs + 1 /\ inherited' = inherited
  BY StepFacts DEF Inv
<1>2. /\ history'[Runs'].verdict = "healthy" /\ history'[Runs'].alarm = "none"
      /\ consecutive_unhealthy' = 0
      /\ ~failure_incident_open'
  BY <1>1, HealthyFacts DEF Inv
<1>3. Threshold \in Nat \ {0}
  BY TentHealthAssumption
<1>4. ASSUME NEW i \in 1..Runs' PROVE ~Streak(i, Runs)'
  <2>1. Runs' \in i..Runs'
    BY <1>1, SMT
  <2> QED
    BY <1>2, <2>1 DEF Streak
<1>5. ~Unbroken' /\ ~StillOpen(Runs)'
  <2>1. 1 \in 1..Runs'
    BY <1>1, SMT
  <2> QED
    BY <1>4, <2>1 DEF Unbroken, StillOpen
<1>6. StreakInv'
  <2>1. /\ consecutive_unhealthy' \in 0..(Runs' - 1)
        /\ Runs' - consecutive_unhealthy' = Runs'
        /\ \A i \in 1..Runs' : ~(i + consecutive_unhealthy' > Runs')
    BY <1>1, <1>2, SMT
  <2> QED
    BY <1>2, <1>5, <2>1 DEF StreakInv
<1>7. ~(consecutive_unhealthy' >= Threshold)
  BY <1>2, <1>3, SMT
<1>8. OpenInv' /\ KindInv'
  BY <1>2, <1>4, <1>5, <1>7, Zenon DEF OpenInv, KindInv
<1>9. NotEarly(Runs)' /\ Once(Runs)'
  BY <1>2, Zenon DEF NotEarly, Once
<1>10. ~Reached(Runs)'
  <2>1. Runs' >= Threshold => Runs' - Threshold + 1 \in 1..Runs'
    BY <1>1, <1>3, SMT
  <2>2. Runs' >= Threshold => ~Streak(Runs - Threshold + 1, Runs)'
    <3>1. ASSUME Runs' >= Threshold
          PROVE  Runs' \in (Runs' - Threshold + 1)..Runs'
      BY <1>1, <1>3, <3>1, SMT
    <3> QED
      BY <1>2, <3>1 DEF Streak
  <2>3. ~Streak(1, Runs)'
    BY <1>5 DEF Unbroken
  <2> QED
    BY <2>2, <2>3, Zenon DEF Reached
<1>11. Reported(Runs)'
  BY <1>5, <1>10, Zenon DEF Reported
<1> QED
  BY <1>6, <1>8, <1>9, <1>11 DEF IncidentInv

-----------------------------------------------------------------------------
(* New tents, tents of an older snapshot, and their runs *)

LEMMA InitType == Init => TypeOK
<1> SUFFICES ASSUME Init PROVE TypeOK
  OBVIOUS
<1>1. inherited \in OldTents /\ inherited.open \in BOOLEAN
  BY DEF Init, OldTents
<1>2. inherited.failures \in Nat /\ inherited.degraded \in Nat /\ inherited.number \in Nat
  BY <1>1, TentHealthAssumption, SMT DEF OldTents
<1>3. consecutive_unhealthy \in Nat /\ consecutive_failures \in Nat
      /\ consecutive_degraded \in Nat /\ failure_incident_sequence \in Nat
  BY <1>2, SMT DEF Init, MigratedUnhealthy, Larger
<1>4. failure_incident_open \in BOOLEAN
  BY <1>1, Zenon DEF Init
<1>5. failure_incident_kind \in Kinds \cup {"none"}
  BY DEF Init, MigratedKind, Kinds
<1>6. incidents \in SUBSET [number: Nat, kind: Kinds]
  <2>1. \A i \in 1..inherited.number : i \in Nat
    BY <1>2, SMT
  <2> QED
    BY <2>1 DEF Init, OldIncidents, Kinds
<1>7. history \in Seq([verdict: Kinds \cup {"healthy"}, alarm: Kinds \cup {"none"}])
  BY DEF Init
<1> QED
  BY <1>1, <1>3, <1>4, <1>5, <1>6, <1>7 DEF TypeOK

LEMMA InitInv == Init => Inv
<1> SUFFICES ASSUME Init PROVE Inv
  OBVIOUS
<1>1. TypeOK
  BY InitType
<1>2. Runs = 0 /\ \A i \in 1..Runs : FALSE
  BY SMT DEF Init, Runs
<1>3. Unbroken /\ (StillOpen(Runs) <=> inherited.open)
  BY <1>2, Zenon DEF Unbroken, StillOpen, Streak
<1>4. StreakInv
  <2>1. consecutive_unhealthy = OldStreak /\ OldStreak \in Nat
    BY TentHealthAssumption, SMT
       DEF Init, MigratedUnhealthy, OldStreak, OldTents, Larger
  <2>2. consecutive_unhealthy = Runs + OldStreak
    BY <1>2, <2>1, SMT
  <2> QED
    BY <1>3, <2>2, Zenon DEF StreakInv
<1>5. OpenInv
  <2>1. failure_incident_open <=> inherited.open
    BY Zenon DEF Init
  <2>2. ~(Runs >= 1)
    BY <1>2, SMT
  <2> QED
    BY <1>3, <2>1, <2>2, Zenon DEF OpenInv
<1>6. KindInv
  <2>1. failure_incident_open <=> inherited.open
    BY Zenon DEF Init
  <2>2. inherited.open => (failure_incident_kind = "error" <=> inherited.failures > 0)
    BY DEF Init, MigratedKind
  <2> QED
    BY <1>2, <1>3, <2>1, <2>2, Zenon DEF KindInv
<1>7. AlarmsInv
  BY <1>2, Zenon DEF AlarmsInv
<1> QED
  BY <1>1, <1>4, <1>5, <1>6, <1>7 DEF Inv, IncidentInv

LEMMA StepInv == Inv /\ [Next]_vars => Inv'
<1> SUFFICES ASSUME Inv, [Next]_vars PROVE Inv'
  OBVIOUS
<1>1. ASSUME NEW statuses, Healthy(statuses) \/ Unhealthy(statuses),
             NotEarly(Runs)' /\ Once(Runs)' /\ Reported(Runs)'
      PROVE  AlarmsInv'
  <2>1. Runs \in Nat /\ Runs' = Runs + 1
    BY <1>1, StepFacts DEF Inv
  <2>2. \A j \in 1..Runs : NotEarly(j)' /\ Once(j)' /\ Reported(j)'
    BY <1>1, EarlierRuns
  <2>3. \A j \in 1..Runs' : j \in 1..Runs \/ j = Runs'
    BY <2>1, SMT
  <2>4. ASSUME NEW j \in 1..Runs'
        PROVE  NotEarly(j)' /\ Once(j)' /\ Reported(j)'
    <3>1. CASE j \in 1..Runs
      BY <2>2, <3>1
    <3>2. CASE j = Runs'
      <4>1. NotEarly(j)'
        BY <1>1, <3>2 DEF NotEarly, Reached, StillOpen, Streak
      <4>2. Once(j)'
        BY <1>1, <3>2 DEF Once, StillOpen, Streak
      <4>3. Reported(j)'
        BY <1>1, <3>2 DEF Reported, Reached, StillOpen, Streak
      <4> QED
        BY <4>1, <4>2, <4>3
    <3> QED
      BY <2>3, <3>1, <3>2
  <2> QED
    BY <2>4, Zenon DEF AlarmsInv
<1>2. ASSUME NEW statuses \in SUBSET Observed, Healthy(statuses)
      PROVE  Inv'
  BY <1>1, <1>2, HealthyType, HealthyRun DEF Inv
<1>3. ASSUME NEW statuses \in SUBSET Observed, Unhealthy(statuses)
      PROVE  Inv'
  <2>1. TypeOK' /\ StreakInv' /\ OpenInv'
    BY <1>3, UnhealthyType, UnhealthyStreak, UnhealthyOpen DEF Inv, IncidentInv
  <2>2. KindInv'
    BY <1>3, UnhealthyKind
  <2>3. AlarmsInv'
    BY <1>1, <1>3, <2>1, <2>2, UnhealthyRun
  <2> QED
    BY <2>1, <2>2, <2>3 DEF Inv, IncidentInv
<1>4. CASE UNCHANGED vars
  <2>1. TypeOK'
    BY <1>4 DEF vars, Inv, TypeOK, OldTents
  <2>2. StreakInv' /\ OpenInv' /\ KindInv'
    BY <1>4 DEF vars, Inv, IncidentInv, StreakInv, OpenInv, KindInv, Runs, OldStreak,
                Unbroken, StillOpen, Streak
  <2>3. AlarmsInv'
    BY <1>4 DEF vars, Inv, AlarmsInv, NotEarly, Once, Reported, Runs, Reached,
                StillOpen, Streak
  <2> QED
    BY <2>1, <2>2, <2>3 DEF Inv, IncidentInv
<1> QED
  BY <1>2, <1>3, <1>4 DEF Next

\* The invariant in the form the properties are stated in.
LEMMA InvAlarms == Inv => NoEarlyAlarm /\ OneAlarmPerKind /\ AlarmNotMissed
<1> SUFFICES ASSUME Inv PROVE NoEarlyAlarm /\ OneAlarmPerKind /\ AlarmNotMissed
  OBVIOUS
<1>1. \A j \in 1..Len(history) : NotEarly(j) /\ Once(j) /\ Reported(j)
  BY DEF Inv, AlarmsInv, Runs
<1>2. Len(history) \in Nat
  BY TypeFacts DEF Inv
<1>3. NoEarlyAlarm
  BY <1>1, Zenon DEF NotEarly, NoEarlyAlarm
<1>4. OneAlarmPerKind
  <2>1. ASSUME NEW i \in 1..Len(history), NEW j \in 1..Len(history), i < j
        PROVE  i \in 1..(j - 1)
    BY <1>2, <2>1, SMT
  <2> QED
    BY <1>1, <2>1, Zenon DEF Once, OneAlarmPerKind
<1>5. AlarmNotMissed
  BY <1>1, Zenon DEF Reported, AlarmNotMissed
<1> QED
  BY <1>3, <1>4, <1>5

-----------------------------------------------------------------------------
(* The events of the alarms *)

Alarms == {i \in 1..Runs : history[i].alarm # "none"}
NewIncidents == incidents \ OldIncidents

\* No event has a number above the last one used, and there is a new one for each alarm.
NumbersInv ==
  /\ IsFiniteSet(NewIncidents)
  /\ OldIncidents \subseteq incidents
  /\ \A e \in incidents : e.number <= failure_incident_sequence
  /\ Cardinality(NewIncidents) = Cardinality(Alarms)

LEMMA AlarmsFinite ==
  ASSUME TypeOK
  PROVE  IsFiniteSet(Alarms)
<1>1. Runs \in Nat
  BY TypeFacts DEF Runs
<1>2. IsFiniteSet(1..Runs)
  BY <1>1, FS_Interval, SMT
<1> QED
  BY <1>2, FS_Subset DEF Alarms

LEMMA InitNumbers == Init => NumbersInv
<1> SUFFICES ASSUME Init PROVE NumbersInv
  OBVIOUS
<1>1. NewIncidents = {} /\ OldIncidents \subseteq incidents
  BY DEF Init, NewIncidents
<1>2. Alarms = {}
  <2>1. \A i \in 1..Runs : FALSE
    BY SMT DEF Init, Runs
  <2> QED
    BY <2>1 DEF Alarms
<1>3. \A e \in incidents : e.number <= failure_incident_sequence
  BY TentHealthAssumption, SMT DEF Init, OldIncidents, OldTents
<1> QED
  BY <1>1, <1>2, <1>3, FS_EmptySet DEF NumbersInv

LEMMA StepNumbers ==
  ASSUME TypeOK, NumbersInv, [Next]_vars
  PROVE  NumbersInv'
<1>1. ASSUME NEW statuses \in SUBSET Observed, Healthy(statuses) \/ Unhealthy(statuses)
      PROVE  /\ Runs \in Nat /\ Runs' = Runs + 1
             /\ \A i \in 1..Runs : history'[i] = history[i]
             /\ OldIncidents' = OldIncidents
  BY <1>1, StepFacts DEF OldIncidents
<1>2. /\ IsFiniteSet(Alarms) /\ IsFiniteSet(NewIncidents)
      /\ Cardinality(NewIncidents) = Cardinality(Alarms)
  BY AlarmsFinite DEF NumbersInv
<1>3. ASSUME NEW statuses \in SUBSET Observed, Healthy(statuses) \/ Unhealthy(statuses),
             history'[Runs + 1].alarm = "none", UNCHANGED <<incidents, failure_incident_sequence>>
      PROVE  NumbersInv'
  <2>1. Alarms' = Alarms
    <3>1. \A i : i \in 1..(Runs + 1) <=> i \in 1..Runs \/ i = Runs + 1
      BY <1>1, <1>3, SMT
    <3> QED
      BY <1>1, <1>3, <3>1 DEF Alarms
  <2>2. NewIncidents' = NewIncidents
    BY <1>1, <1>3 DEF NewIncidents
  <2> QED
    BY <1>1, <1>2, <1>3, <2>1, <2>2 DEF NumbersInv
<1>4. ASSUME NEW statuses \in SUBSET Observed, Healthy(statuses)
      PROVE  NumbersInv'
  <2>1. history'[Runs + 1].alarm = "none"
    BY <1>4, HealthyFacts
  <2>2. UNCHANGED <<incidents, failure_incident_sequence>>
    BY <1>4 DEF Healthy
  <2> QED
    BY <1>3, <1>4, <2>1, <2>2
<1>5. ASSUME NEW statuses \in SUBSET Observed, Unhealthy(statuses), ~Raised(Verdict(statuses))
      PROVE  NumbersInv'
  <2>1. history'[Runs + 1].alarm = "none"
    BY <1>5, UnhealthyFacts
  <2>2. UNCHANGED <<incidents, failure_incident_sequence>>
    BY <1>5 DEF Unhealthy, Raised
  <2> QED
    BY <1>3, <1>5, <2>1, <2>2
<1>6. ASSUME NEW statuses \in SUBSET Observed, Unhealthy(statuses), Raised(Verdict(statuses))
      PROVE  NumbersInv'
  <2> DEFINE event == [number |-> failure_incident_sequence + 1, kind |-> Verdict(statuses)]
  <2>1. failure_incident_sequence \in Nat /\ \A e \in incidents : e.number \in Nat
    BY DEF TypeOK
  <2>2. ~\E e \in incidents : e.number = failure_incident_sequence + 1
    BY <2>1, SMT DEF NumbersInv
  <2>3. EnqueueIncident(Verdict(statuses))
    BY <1>6 DEF Unhealthy, Raised
  <2>4. /\ incidents' = incidents \cup {event}
        /\ failure_incident_sequence' = failure_incident_sequence + 1
    BY <2>2, <2>3 DEF EnqueueIncident
  <2>5. event \notin incidents /\ OldIncidents \subseteq incidents
    BY <2>2 DEF NumbersInv
  <2>6. NewIncidents' = NewIncidents \cup {event} /\ event \notin NewIncidents
    <3> HIDE DEF event
    <3> QED
      BY <1>1, <1>6, <2>4, <2>5 DEF NewIncidents
  <2>7. Alarms' = Alarms \cup {Runs + 1} /\ Runs + 1 \notin Alarms
    <3>1. history'[Runs + 1].alarm # "none"
      BY <1>6, UnhealthyFacts DEF Kinds
    <3>2. /\ \A i : i \in 1..(Runs + 1) <=> i \in 1..Runs \/ i = Runs + 1
          /\ Runs + 1 \notin 1..Runs
      BY <1>1, <1>6, SMT
    <3> QED
      BY <1>1, <1>6, <3>1, <3>2 DEF Alarms
  <2>8. /\ IsFiniteSet(NewIncidents')
        /\ Cardinality(NewIncidents') = Cardinality(NewIncidents) + 1
    BY <1>2, <2>6, FS_AddElement
  <2>9. Cardinality(Alarms') = Cardinality(Alarms) + 1
    BY <1>2, <2>7, FS_AddElement
  <2>10. \A e \in incidents' : e.number <= failure_incident_sequence'
    BY <2>1, <2>4, SMT DEF NumbersInv
  <2>11. OldIncidents' \subseteq incidents'
    BY <1>1, <1>6, <2>4, <2>5
  <2> QED
    BY <1>2, <2>8, <2>9, <2>10, <2>11 DEF NumbersInv
<1>7. CASE UNCHANGED vars
  BY <1>7 DEF vars, NumbersInv, NewIncidents, OldIncidents, Alarms, Runs
<1> QED
  BY <1>4, <1>5, <1>6, <1>7 DEF Next

-----------------------------------------------------------------------------
LEMMA AlwaysInv == Spec => []Inv
BY InitInv, StepInv, PTL DEF Spec

\* Every variable has its type.
THEOREM AlwaysTypeOK == Spec => []TypeOK
BY AlwaysInv, PTL DEF Inv

\* FAILURE_THRESHOLD: an alarm comes after that many unhealthy runs in a row, those of
\* the older snapshot included, or escalates an incident that was taken over as open.
THEOREM AlwaysNoEarlyAlarm == Spec => []NoEarlyAlarm
BY AlwaysInv, InvAlarms, PTL

\* One episode is reported once, and once more when it becomes an error; one that was
\* open before the migration only then, if at all.
THEOREM AlwaysOneAlarmPerKind == Spec => []OneAlarmPerKind
BY AlwaysInv, InvAlarms, PTL

\* An outage is never silent, and an error in it is reported as one, unless it was open
\* in error before the migration.
THEOREM AlwaysAlarmNotMissed == Spec => []AlarmNotMissed
BY AlwaysInv, InvAlarms, PTL

\* Each alarm is an event of its own.
THEOREM AlwaysAlarmsEnqueued == Spec => []AlarmsEnqueued
<1>1. NumbersInv => AlarmsEnqueued
  BY DEF NumbersInv, AlarmsEnqueued, NewIncidents, Alarms, Runs
<1>2. (TypeOK /\ NumbersInv /\ [Next]_vars) => NumbersInv'
  BY StepNumbers
<1> QED
  BY <1>1, <1>2, InitNumbers, AlwaysTypeOK, PTL DEF Spec
====
