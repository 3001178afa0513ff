---- MODULE JobBudget_proofs ----
(***************************************************************************)
(* Proofs about Rotation and JobBudget: types, the time a job takes, that  *)
(* an undisturbed rotation visits every enabled tent exactly once, and how *)
(* long a tent can be passed over by a disturbed one.                      *)
(***************************************************************************)
EXTENDS JobBudget, FiniteSetTheorems, WellFoundedInduction, TLAPS

-----------------------------------------------------------------------------
(* Least and greatest slugs *)

\* What Min is chosen by, for any set of numbers that is not empty.
LEMMA MinOf ==
  ASSUME NEW S \in SUBSET Nat, S # {}
  PROVE  Min(S) \in S /\ \A y \in S : Min(S) <= y
<1>1. PICK x \in S : \A y \in S : ~(<<y, x>> \in OpToRel(<, Nat))
  BY NatLessThanWellFounded, WFMin
<1>2. \A a, b \in Nat : a < b => <<a, b>> \in OpToRel(<, Nat)
  BY Zenon DEF OpToRel
<1>3. \A y \in S : ~(y < x)
  BY <1>1, <1>2
<1>4. \A y \in S : x <= y
  BY <1>3, SMT
<1> QED
  BY <1>4 DEF Min

\* What Max is chosen by, for slugs.
LEMMA MaxOf ==
  ASSUME NEW S \in SUBSET Slugs, S # {}
  PROVE  Max(S) \in S /\ \A y \in S : y <= Max(S)
<1> USE RotationAssumption
<1> DEFINE T == {n \in 0..NSlugs : NSlugs - n \in S}
<1>1. T \in SUBSET Nat /\ T # {}
  <2>1. PICK y \in S : TRUE
    OBVIOUS
  <2>2. y \in Nat /\ 1 <= y /\ y <= NSlugs
    BY <2>1, SMT DEF Slugs
  <2>3. NSlugs - y \in 0..NSlugs /\ NSlugs - (NSlugs - y) = y
    BY <2>2, SMT
  <2> QED
    BY <2>1, <2>3, SMT
<1>2. PICK n \in T : \A m \in T : n <= m
  BY <1>1, MinOf
<1>3. NSlugs - n \in S
  OBVIOUS
<1>4. ASSUME NEW y \in S PROVE NSlugs - n >= y
  <2>1. y \in Nat /\ 1 <= y /\ y <= NSlugs
    BY SMT DEF Slugs
  <2>2. NSlugs - y \in T
    <3>1. NSlugs - y \in 0..NSlugs /\ NSlugs - (NSlugs - y) = y
      BY <2>1, SMT
    <3> QED
      BY <3>1
  <2>3. n <= NSlugs - y
    BY <1>2, <2>2
  <2> QED
    BY <2>1, <2>3, SMT
<1>5. \E x \in S : \A y \in S : x >= y
  BY <1>3, <1>4
<1>6. Max(S) \in S /\ \A y \in S : Max(S) >= y
  BY <1>5, Zenon DEF Max
<1>7. \A y \in S : y \in Nat
  BY SMT DEF Slugs
<1> QED
  BY <1>6, <1>7, SMT

-----------------------------------------------------------------------------
(* The rotation *)

EnabledOK == enabled \in SUBSET Slugs

LEMMA SlugsFinite == Slugs \subseteq Nat /\ IsFiniteSet(Slugs)
<1>1. IsFiniteSet(1..NSlugs)
  BY RotationAssumption, FS_Interval, SMT
<1> QED
  BY <1>1, SMT DEF Slugs

\* A batch is never empty, and leaves no enabled tent out between its first and its last.
LEMMA BatchShape ==
  ASSUME EnabledOK, enabled # {}
  PROVE  /\ Start \in enabled /\ Min(enabled) <= Start
         /\ Batch \subseteq enabled /\ Batch # {}
         /\ \A t \in Batch : Start <= t
         /\ \A t \in enabled, u \in Batch : Start <= t /\ t <= u => t \in Batch
<1>1. enabled \in SUBSET Nat /\ IsFiniteSet(enabled)
  BY SlugsFinite, FS_Subset DEF EnabledOK
<1>2. Min(enabled) \in enabled /\ \A y \in enabled : Min(enabled) <= y
  BY <1>1, MinOf
<1>3. Start \in enabled /\ Min(enabled) <= Start
  BY <1>2 DEF Start
<1> DEFINE Before(t) == {u \in enabled : Start <= u /\ u < t}
<1>4. Batch = {t \in enabled : t >= Start /\ Cardinality(Before(t)) < BatchSize}
  BY DEF Batch
<1>5. Start \in Batch
  <2>1. Before(Start) = {}
    <3>1. \A u \in enabled : ~(Start <= u /\ u < Start)
      BY <1>1, <1>3, SMT
    <3> QED
      BY <3>1
  <2>2. Cardinality(Before(Start)) = 0
    BY <2>1, FS_EmptySet
  <2>3. Start \in Nat /\ BatchSize \in Nat \ {0}
    BY <1>1, <1>3, RotationAssumption
  <2> HIDE DEF Before
  <2> QED
    BY <1>3, <1>4, <2>2, <2>3, SMT
<1>6. ASSUME NEW t \in enabled, NEW u \in Batch, Start <= t, t <= u
      PROVE  t \in Batch
  <2>1. u \in enabled /\ Cardinality(Before(u)) < BatchSize
    BY <1>4
  <2>2. t \in Nat /\ u \in Nat /\ Start \in Nat
    BY <1>1, <1>3, <2>1
  <2>3. Before(t) \subseteq Before(u)
    <3>1. \A v \in enabled : v < t => v < u
      BY <1>1, <1>6, <2>2, SMT
    <3> QED
      BY <3>1
  <2>4. IsFiniteSet(Before(u))
    BY <1>1, FS_Subset
  <2>5. /\ Cardinality(Before(t)) <= Cardinality(Before(u))
        /\ Cardinality(Before(t)) \in Nat /\ Cardinality(Before(u)) \in Nat
    BY <2>3, <2>4, FS_Subset, FS_CardinalityType
  <2> HIDE DEF Before
  <2> QED
    BY <1>4, <1>6, <2>1, <2>2, <2>5, RotationAssumption, SMT
<1>7. \A t \in Batch : Start <= t
  BY <1>1, <1>3, <1>4, SMT
<1> HIDE DEF Before
<1> QED
  BY <1>3, <1>4, <1>5, <1>6, <1>7

\* An undisturbed rotation has visited exactly the enabled tents before its cursor.
RoundInv ==
  (steady /\ enabled # {}) =>
    /\ probe_rotation_cursor \in enabled
    /\ round = IF probe_rotation_cursor = Min(enabled) THEN enabled
               ELSE {t \in enabled : t < probe_rotation_cursor}

LEMMA RunKeepsRound ==
  ASSUME EnabledOK, RoundInv, Run
  PROVE  RoundInv'
<1> SUFFICES ASSUME steady', enabled # {}
             PROVE  /\ probe_rotation_cursor' \in enabled
                    /\ round' = IF probe_rotation_cursor' = Min(enabled) THEN enabled
                                ELSE {t \in enabled : t < probe_rotation_cursor'}
  BY Zenon DEF RoundInv, Run
<1> DEFINE last == Max(Batch)
           later == {t \in enabled : t > last}
<1>1. /\ probe_rotation_cursor' = IF later # {} THEN Min(later) ELSE Min(enabled)
      /\ round' = IF Start = Min(enabled) THEN Batch ELSE round \cup Batch
      /\ steady \/ Start = Min(enabled)
  BY DEF Run, NextCursor
<1>2. /\ Start \in enabled /\ Min(enabled) <= Start
      /\ Batch \subseteq enabled /\ Batch # {}
      /\ \A t \in Batch : Start <= t
      /\ \A t \in enabled, u \in Batch : Start <= t /\ t <= u => t \in Batch
  BY BatchShape
<1>3. enabled \subseteq Nat /\ Batch \in SUBSET Slugs /\ later \in SUBSET Nat
  BY <1>2, SlugsFinite DEF EnabledOK
<1>4. last \in Batch /\ \A y \in Batch : y <= last
  BY <1>2, <1>3, MaxOf
<1>5. last \in Nat /\ Start \in Nat /\ Min(enabled) \in enabled
      /\ \A y \in enabled : Min(enabled) <= y
  BY <1>2, <1>3, <1>4, MinOf
<1>6. \A t \in enabled : t \in Batch <=> (Start <= t /\ t <= last)
  BY <1>2, <1>4
<1>7. round' = {t \in enabled : t <= last}
  <2>1. CASE Start = Min(enabled)
    <3>1. \A t \in enabled : Start <= t
      BY <1>5, <2>1
    <3> HIDE DEF last
    <3> QED
      BY <1>1, <1>2, <1>6, <2>1, <3>1
  <2>2. CASE Start # Min(enabled)
    <3>1. probe_rotation_cursor \in enabled /\ Start = probe_rotation_cursor
      BY <1>1, <2>2 DEF Start, RoundInv
    <3>2. round = {t \in enabled : t < Start}
      BY <1>1, <2>2, <3>1, Zenon DEF RoundInv
    <3>3. \A t \in enabled : (t < Start \/ t \in Batch) <=> t <= last
      BY <1>2, <1>3, <1>4, <1>5, <1>6, SMT
    <3>4. round' = round \cup Batch
      BY <1>1, <2>2
    <3> HIDE DEF last
    <3> QED
      BY <1>2, <3>2, <3>3, <3>4
  <2> QED
    BY <2>1, <2>2
<1>8. CASE later = {}
  <2>1. probe_rotation_cursor' = Min(enabled)
    BY <1>1, <1>8
  <2>2. \A t \in enabled : t <= last
    BY <1>3, <1>5, <1>8, SMT
  <2>3. round' = enabled
    BY <1>7, <2>2
  <2> QED
    BY <1>5, <2>1, <2>3
<1>9. CASE later # {}
  <2>1. /\ probe_rotation_cursor' \in later
        /\ \A y \in later : probe_rotation_cursor' <= y
    BY <1>1, <1>3, <1>9, MinOf
  <2>2. probe_rotation_cursor' \in enabled /\ probe_rotation_cursor' > last
    BY <2>1
  <2>3. probe_rotation_cursor' # Min(enabled)
    BY <1>2, <1>3, <1>4, <1>5, <2>2, SMT
  <2>4. \A t \in enabled : t <= last <=> t < probe_rotation_cursor'
    BY <1>3, <1>5, <2>1, <2>2, SMT
  <2>5. round' = {t \in enabled : t < probe_rotation_cursor'}
    BY <1>7, <2>4
  <2> QED
    BY <2>2, <2>3, <2>5
<1> QED
  BY <1>8, <1>9

\* What Rotation says of its own steps.
RotationInv == EnabledOK /\ RoundInv

LEMMA RotationInitInv == Init => RotationInv
BY DEF Init, RotationInv, EnabledOK, RoundInv

LEMMA RotationStepInv ==
  ASSUME RotationInv, [Next]_vars
  PROVE  RotationInv'
<1>1. CASE Run
  <2>1. EnabledOK'
    BY <1>1 DEF Run, RotationInv, EnabledOK
  <2> QED
    BY <1>1, <2>1, RunKeepsRound DEF RotationInv
<1>2. ASSUME NEW slugs \in SUBSET Slugs, Deploy(slugs)
      PROVE  RotationInv'
  BY <1>2 DEF Deploy, RotationInv, EnabledOK, RoundInv
<1>3. CASE UNCHANGED vars
  BY <1>3 DEF vars, RotationInv, EnabledOK, RoundInv
<1> QED
  BY <1>1, <1>2, <1>3 DEF Next

LEMMA RunOnce ==
  ASSUME RotationInv, Run, steady, enabled # {}
  PROVE  IF Start = Min(enabled) THEN round = enabled ELSE round \cap Batch = {}
<1>1. /\ probe_rotation_cursor \in enabled
      /\ round = IF probe_rotation_cursor = Min(enabled) THEN enabled
                 ELSE {t \in enabled : t < probe_rotation_cursor}
  BY Zenon DEF RotationInv, RoundInv
<1>2. Start = probe_rotation_cursor
  BY <1>1 DEF Start
<1>3. /\ Batch \subseteq enabled /\ enabled \subseteq Nat
      /\ Start \in enabled /\ \A t \in Batch : Start <= t
  BY BatchShape, SlugsFinite DEF RotationInv, EnabledOK
<1>4. \A t \in Batch : ~(t < Start)
  BY <1>3, SMT
<1> QED
  BY <1>1, <1>2, <1>4

-----------------------------------------------------------------------------
(* The job *)

\* The job implements the rotation: its checkpointed probes are the runs.
LEMMA JobStepIsRotationStep ==
  ASSUME [JobNext]_<<vars, job>>
  PROVE  [Next]_vars
<1>1. CASE UNCHANGED <<vars, job>>
  BY <1>1
<1>2. CASE Dispatch
  BY <1>2 DEF Dispatch
<1>3. CASE JobStep
  <2>1. ASSUME NEW d, Setup(d) \/ Probe(d)
        PROVE  UNCHANGED vars
    BY <2>1 DEF Setup, Probe
  <2>2. ASSUME NEW d \in 0..KillAfter, Terminated(d)
        PROVE  UNCHANGED vars
    BY <2>2 DEF Terminated
  <2>3. ASSUME NEW d \in 0..CheckpointTime, ProbeCheckpointed(d)
        PROVE  Run
    BY <2>3 DEF ProbeCheckpointed
  <2>4. ASSUME NEW d \in 0..CheckpointTime, CheckpointFails(d) \/ DeliveryCheckpointed(d)
        PROVE  UNCHANGED vars
    BY <2>4 DEF CheckpointFails, DeliveryCheckpointed
  <2>5. CASE LoopEnds
    BY <2>5 DEF LoopEnds
  <2>6. ASSUME NEW wait \in 0..MaxWait, NEW call \in 0..CallTime,
               NEW code \in {0, 2, 3}, Deliver(wait, call, code)
        PROVE  UNCHANGED vars
    BY <2>6 DEF Deliver
  <2> QED
    BY <1>3, <2>1, <2>2, <2>3, <2>4, <2>5, <2>6 DEF JobStep, Next
<1>4. ASSUME NEW slugs \in SUBSET Slugs, DeployDuring(slugs)
      PROVE  Next
  BY <1>4 DEF DeployDuring, Next
<1> QED
  BY <1>1, <1>2, <1>3, <1>4 DEF JobNext

\* Jobs with their budgets, aborted probes and refused checkpoints implement the
\* rotation of Rotation.
THEOREM JobsRotate == JobSpec => Spec
<1>1. JobInit => Init
  BY DEF JobInit
<1>2. [JobNext]_<<vars, job>> => [Next]_vars
  BY JobStepIsRotationStep
<1> QED
  BY <1>1, <1>2, PTL DEF JobSpec, Spec

THEOREM RotationAlways == Spec => []RotationInv
BY RotationInitInv, RotationStepInv, PTL DEF Spec

\* _select_probe_batch "every enabled tent is visited exactly once per rotation", for
\* any number of tents and any batch size.
THEOREM AlwaysExactlyOnce == JobSpec => ExactlyOnce
<1>1. (RotationInv /\ [Next]_vars) =>
         [(Run /\ steady /\ enabled # {}) =>
            IF Start = Min(enabled) THEN round = enabled ELSE round \cap Batch = {}]_vars
  BY RunOnce
<1> QED
  BY <1>1, JobsRotate, RotationAlways, PTL DEF Spec, ExactlyOnce

\* Where a job can be at a given time.
TimeInv ==
  /\ step \in Steps
  /\ elapsed \in Nat
  /\ step # "off" => elapsed <= Limit
  /\ step = "setup" => elapsed = 0
  /\ step = "probe" => elapsed < Deadline - Reserve
  /\ step = "probe_checkpoint" => elapsed <= Deadline - Reserve
  /\ step = "delivery_checkpoint" => elapsed <= (Deadline - Reserve) + CallTime

LEMMA Budget ==
  /\ Deadline \in Nat /\ Reserve \in Nat /\ MaxWait \in Nat /\ KillAfter \in Nat
  /\ Limit \in Nat /\ MaxSetup \in Nat /\ CheckpointTime \in Nat /\ CallTime \in Nat
  /\ Reserve <= Deadline
  /\ (Deadline - Reserve) + KillAfter <= Limit
  /\ (Deadline - Reserve) + CallTime + CheckpointTime <= Limit
BY JobAssumption

LEMMA InitTime == JobInit => TimeInv
BY Budget, SMT DEF JobInit, TimeInv, Steps

\* What a step of a job that has begun its probe leads to.
InTime == step \notin {"off", "setup"} => elapsed' <= Limit

LEMMA StepTime ==
  ASSUME TimeInv, [JobNext]_<<vars, job>>
  PROVE  TimeInv' /\ InTime
<1> USE Budget DEF TimeInv, InTime, Steps, Ends
<1>1. CASE UNCHANGED <<vars, job>>
  BY <1>1 DEF job
<1>2. CASE Dispatch
  BY <1>2, SMT DEF Dispatch
<1>3. ASSUME NEW d \in 0..MaxSetup, Setup(d)
      PROVE  TimeInv' /\ InTime
  BY <1>3, SMT DEF Setup
<1>4. ASSUME NEW d \in 0..Limit, Probe(d)
      PROVE  TimeInv' /\ InTime
  BY <1>4, SMT DEF Probe, Remaining
<1>5. ASSUME NEW d \in 0..KillAfter, Terminated(d)
      PROVE  TimeInv' /\ InTime
  BY <1>5, SMT DEF Terminated
<1>6. ASSUME NEW d \in 0..CheckpointTime, ProbeCheckpointed(d)
      PROVE  TimeInv' /\ InTime
  BY <1>6, SMT DEF ProbeCheckpointed
<1>7. ASSUME NEW d \in 0..CheckpointTime, CheckpointFails(d)
      PROVE  TimeInv' /\ InTime
  BY <1>7, SMT DEF CheckpointFails
<1>8. CASE LoopEnds
  BY <1>8, SMT DEF LoopEnds
<1>9. ASSUME NEW wait \in 0..MaxWait, NEW call \in 0..CallTime,
             NEW code \in {0, 2, 3}, Deliver(wait, call, code)
      PROVE  TimeInv' /\ InTime
  <2>1. wait <= (Deadline - elapsed) - Reserve
    BY <1>9, SMT DEF Deliver, WaitUpTo, Remaining
  <2>2. elapsed' = elapsed + wait + call
        /\ (step' = "off" \/ step' = "delivery_checkpoint")
    BY <1>9 DEF Deliver
  <2> QED
    BY <2>1, <2>2, SMT
<1>10. ASSUME NEW d \in 0..CheckpointTime, DeliveryCheckpointed(d)
       PROVE  TimeInv' /\ InTime
  BY <1>10, SMT DEF DeliveryCheckpointed
<1>11. ASSUME NEW slugs \in SUBSET Slugs, DeployDuring(slugs)
       PROVE  TimeInv' /\ InTime
  BY <1>11 DEF DeployDuring
<1> QED
  BY <1>1, <1>2, <1>3, <1>4, <1>5, <1>6, <1>7, <1>8, <1>9, <1>10, <1>11, Zenon
     DEF JobNext, JobStep

\* monitor.yml "The complete normal path, including setup, probe and checkpoints, must
\* fit": for all budgets that satisfy JobAssumption the platform kills no job.
THEOREM AlwaysInTime == JobSpec => JobInTime
<1>1. TimeInv /\ [JobNext]_<<vars, job>> => TimeInv'
  BY StepTime
<1>2. TimeInv /\ [JobNext]_<<vars, job>>
        => [step \notin {"off", "setup"} => elapsed' <= Limit]_<<vars, job>>
  BY StepTime DEF InTime
<1> QED
  BY <1>1, <1>2, InitTime, PTL DEF JobSpec, JobInTime

-----------------------------------------------------------------------------
(* Types *)

LEMMA RotationStepType ==
  ASSUME TypeOK, [Next]_vars
  PROVE  TypeOK'
<1> USE DEF TypeOK
<1>1. CASE Run
  <2>1. CASE enabled = {}
    BY <1>1, <2>1 DEF Run
  <2>2. CASE enabled # {}
    <3>1. /\ EnabledOK /\ enabled \in SUBSET Nat
          /\ Batch \subseteq enabled /\ Min(enabled) \in enabled
      BY <2>2, BatchShape, MinOf, SlugsFinite DEF EnabledOK
    <3>2. probe_rotation_cursor' \in enabled
      <4> DEFINE later == {t \in enabled : t > Max(Batch)}
      <4>1. probe_rotation_cursor' = IF later # {} THEN Min(later) ELSE Min(enabled)
        BY <1>1, <2>2 DEF Run, NextCursor
      <4>2. later # {} => Min(later) \in later
        BY <3>1, MinOf
      <4> QED
        BY <3>1, <4>1, <4>2
    <3>3. waits' \in [Slugs -> Nat]
      <4>1. WaitCap \in Nat
        <5>1. RoundLength \in Nat
          BY RotationAssumption, SMT DEF RoundLength
        <5> QED
          BY <5>1, RotationAssumption, SMT DEF WaitCap
      <4>2. ASSUME NEW t \in Slugs PROVE Min({waits[t] + 1, WaitCap}) \in Nat
        <5>1. {waits[t] + 1, WaitCap} \in SUBSET Nat
          BY <4>1, SMT
        <5> QED
          BY <5>1, MinOf
      <4>3. waits' = [t \in Slugs |-> IF t \in enabled \ Batch
                                     THEN Min({waits[t] + 1, WaitCap}) ELSE 0]
        BY <1>1, <2>2 DEF Run
      <4> QED
        BY <4>2, <4>3
    <3>4. moves' \in [Slugs -> Nat]
      BY <1>1, <2>2 DEF Run
    <3>5. round' \in SUBSET Slugs
      BY <1>1, <2>2, <3>1 DEF Run
    <3>6. steady' \in BOOLEAN /\ enabled' = enabled /\ deployments' = deployments
      BY <1>1, <2>2, Zenon DEF Run
    <3> QED
      BY <3>1, <3>2, <3>3, <3>4, <3>5, <3>6
  <2> QED
    BY <2>1, <2>2
<1>2. ASSUME NEW slugs \in SUBSET Slugs, Deploy(slugs)
      PROVE  TypeOK'
  <2>1. waits' \in [Slugs -> Nat] /\ moves' \in [Slugs -> Nat]
    BY <1>2, SMT DEF Deploy
  <2>2. deployments' \in 0..MaxDeployments
    BY <1>2, RotationAssumption, SMT DEF Deploy
  <2> QED
    BY <1>2, <2>1, <2>2 DEF Deploy
<1>3. CASE UNCHANGED vars
  BY <1>3 DEF vars
<1> QED
  BY <1>1, <1>2, <1>3 DEF Next

LEMMA RotationInitType == Init => TypeOK
<1> SUFFICES ASSUME Init PROVE TypeOK
  OBVIOUS
<1>1. waits \in [Slugs -> Nat] /\ moves \in [Slugs -> Nat] /\ deployments \in 0..MaxDeployments
  BY RotationAssumption, SMT DEF Init
<1>2. steady \in BOOLEAN /\ round \in SUBSET Slugs
  BY Zenon DEF Init
<1> QED
  BY <1>1, <1>2, Zenon DEF Init, TypeOK

\* Every variable of the rotation has its type.
THEOREM RotationAlwaysTypeOK == Spec => []TypeOK
BY RotationInitType, RotationStepType, PTL DEF Spec

LEMMA JobStepType ==
  ASSUME TypeOK, JobTypeOK, TimeInv', [JobNext]_<<vars, job>>
  PROVE  JobTypeOK'
<1> USE DEF JobTypeOK, Ends
<1>0. step' \in Steps /\ elapsed' \in Nat
  BY DEF TimeInv
<1>1. CASE UNCHANGED <<vars, job>>
  BY <1>1 DEF job
<1>2. CASE Dispatch
  BY <1>0, <1>2 DEF Dispatch
<1>3. ASSUME NEW d, Setup(d) \/ Probe(d)
      PROVE  JobTypeOK'
  <2>1. moved' \in BOOLEAN /\ UNCHANGED visited
    BY <1>3, Zenon DEF Setup, Probe
  <2>2. rc' \in {0, 2} /\ deliveries' \in Nat
    BY <1>3, SMT DEF Setup, Probe
  <2> QED
    BY <1>0, <2>1, <2>2, Zenon
<1>4. ASSUME NEW d \in 0..KillAfter, Terminated(d)
      PROVE  JobTypeOK'
  BY <1>0, <1>4 DEF Terminated
<1>5. ASSUME NEW d \in 0..CheckpointTime, ProbeCheckpointed(d)
      PROVE  JobTypeOK'
  BY <1>0, <1>5 DEF ProbeCheckpointed, Batch, TypeOK
<1>6. ASSUME NEW d \in 0..CheckpointTime, CheckpointFails(d) \/ DeliveryCheckpointed(d)
      PROVE  JobTypeOK'
  <2>1. moved' \in BOOLEAN /\ UNCHANGED visited
    BY <1>6, Zenon DEF CheckpointFails, DeliveryCheckpointed
  <2>2. rc' \in {0, 2} /\ deliveries' \in Nat
    BY <1>6, SMT DEF CheckpointFails, DeliveryCheckpointed
  <2> QED
    BY <1>0, <2>1, <2>2, Zenon
<1>7. CASE LoopEnds
  BY <1>0, <1>7 DEF LoopEnds
<1>8. ASSUME NEW wait \in 0..MaxWait, NEW call \in 0..CallTime,
             NEW code \in {0, 2, 3}, Deliver(wait, call, code)
      PROVE  JobTypeOK'
  <2>1. deliveries' \in Nat /\ rc' \in {0, 2}
    BY <1>8, SMT DEF Deliver
  <2> QED
    BY <1>0, <1>8, <2>1 DEF Deliver
<1>9. ASSUME NEW slugs \in SUBSET Slugs, DeployDuring(slugs)
      PROVE  JobTypeOK'
  BY <1>0, <1>9 DEF DeployDuring
<1> QED
  BY <1>1, <1>2, <1>3, <1>4, <1>5, <1>6, <1>7, <1>8, <1>9, Zenon DEF JobNext, JobStep

\* Every variable of a job has its type.
THEOREM AlwaysJobTypeOK == JobSpec => []JobTypeOK
<1>1. ASSUME JobInit PROVE JobTypeOK
  <2>1. step \in Steps /\ elapsed \in Nat /\ rc \in {0, 2} /\ deliveries \in Nat
    BY <1>1, SMT DEF JobInit, Steps
  <2>2. moved \in BOOLEAN /\ visited \in SUBSET Slugs
    BY <1>1, Zenon DEF JobInit
  <2> QED
    BY <2>1, <2>2 DEF JobTypeOK
<1>2. (TypeOK /\ TimeInv' /\ JobTypeOK /\ [JobNext]_<<vars, job>>) => JobTypeOK'
  BY JobStepType
<1>3. JobSpec => []TimeInv
  BY InitTime, StepTime, PTL DEF JobSpec
<1> QED
  BY <1>1, <1>2, <1>3, JobsRotate, RotationAlwaysTypeOK, PTL DEF JobSpec

-----------------------------------------------------------------------------
(* How long a tent waits *)

\* Of the enabled slugs E: those a rotation at s visits before t, all it visits yet,
\* and those the next one visits before t.
Between(E, s, t) == {u \in E : s <= u /\ u < t}
FromOn(E, s) == {u \in E : s <= u}
Below(E, t) == {u \in E : u < t}

\* A rotation at s visits t before it has waited for more than a runs, w of which are
\* past: BatchSize tents go with each, but those c in which it starts over may be short.
Placed(E, s, t, w, a) ==
  IF s <= t
    THEN BatchSize * w + Cardinality(Between(E, s, t)) < BatchSize * (a + 1)
    ELSE \E c \in Nat :
           /\ Cardinality(FromOn(E, s)) <= BatchSize * c
           /\ BatchSize * (w + c) + Cardinality(Below(E, t)) < BatchSize * (a + 1)

Allowed(t) == (moves[t] + 1) * RoundLength

WaitInv == \A t \in enabled : Placed(enabled, Start, t, waits[t], Allowed(t))

\* Multiples of the batch size.
LEMMA Times ==
  /\ \A m \in Nat : BatchSize * m \in Nat
  /\ \A m, n \in Nat : BatchSize * (m + n) = BatchSize * m + BatchSize * n
  /\ \A m \in Nat : BatchSize * (m + 1) = BatchSize * m + BatchSize
  /\ \A m, n \in Nat : m <= n => BatchSize * m <= BatchSize * n
  /\ \A m, n \in Nat : BatchSize * m < BatchSize * (n + 1) => m <= n
<1>0. BatchSize \in Nat /\ BatchSize >= 1
  BY RotationAssumption, SMT
<1>1. \A m \in Nat : BatchSize * m \in Nat
  BY <1>0, SMT
<1>2. \A m, n \in Nat : BatchSize * (m + n) = BatchSize * m + BatchSize * n
  BY <1>0, SMT
<1>3. \A m \in Nat : BatchSize * (m + 1) = BatchSize * m + BatchSize
  BY <1>0, SMT
<1>4. ASSUME NEW m \in Nat, NEW n \in Nat, m <= n
      PROVE  BatchSize * m <= BatchSize * n
  <2>1. n - m \in Nat /\ n = m + (n - m)
    BY <1>4, SMT
  <2>2. BatchSize * n = BatchSize * m + BatchSize * (n - m)
    BY <1>2, <2>1
  <2>3. BatchSize * (n - m) \in Nat /\ BatchSize * m \in Nat
    BY <1>1, <2>1
  <2> QED
    BY <2>2, <2>3, SMT
<1>5. ASSUME NEW m \in Nat, NEW n \in Nat, BatchSize * m < BatchSize * (n + 1)
      PROVE  m <= n
  <2> SUFFICES ASSUME ~(m <= n) PROVE FALSE
    OBVIOUS
  <2>1. n + 1 \in Nat /\ n + 1 <= m
    BY SMT
  <2>2. BatchSize * (n + 1) <= BatchSize * m
    BY <1>4, <2>1
  <2>3. BatchSize * (n + 1) \in Nat /\ BatchSize * m \in Nat
    BY <1>1, <2>1
  <2> QED
    BY <1>5, <2>2, <2>3, SMT
<1> QED
  BY <1>1, <1>2, <1>3, <1>4, <1>5

\* The batches that m tents fill.
LEMMA Batches ==
  ASSUME NEW m \in Nat
  PROVE  /\ m \div BatchSize \in Nat
         /\ BatchSize * (m \div BatchSize) <= m
         /\ m < BatchSize * (m \div BatchSize) + BatchSize
<1>0. BatchSize \in Nat /\ BatchSize >= 1
  BY RotationAssumption, SMT
<1> QED
  BY <1>0, SMT

LEMMA Ceiling ==
  ASSUME NEW m \in Nat
  PROVE  \E c \in Nat : m <= BatchSize * c /\ BatchSize * c + 1 <= m + BatchSize
<1>0. BatchSize \in Nat /\ BatchSize >= 1
  BY RotationAssumption, SMT
<1> DEFINE c == (m + BatchSize - 1) \div BatchSize
<1>1. m + BatchSize - 1 \in Nat
  BY <1>0, SMT
<1>2. /\ c \in Nat /\ BatchSize * c <= m + BatchSize - 1
      /\ m + BatchSize - 1 < BatchSize * c + BatchSize
  BY <1>1, Batches
<1>3. BatchSize * c \in Nat
  BY <1>2, Times
<1> HIDE DEF c
<1>4. m <= BatchSize * c /\ BatchSize * c + 1 <= m + BatchSize
  BY <1>0, <1>2, <1>3, SMT
<1> QED
  BY <1>2, <1>4

LEMMA RoundCovers ==
  RoundLength \in Nat /\ BatchSize * RoundLength \in Nat /\ NSlugs <= BatchSize * RoundLength
<1>0. BatchSize \in Nat /\ BatchSize >= 1 /\ NSlugs \in Nat /\ NSlugs >= 1
  BY RotationAssumption, SMT
<1>1. NSlugs + BatchSize - 1 \in Nat
  BY <1>0, SMT
<1>2. /\ RoundLength \in Nat
      /\ NSlugs + BatchSize - 1 < BatchSize * RoundLength + BatchSize
  BY <1>1, Batches DEF RoundLength
<1>3. BatchSize * RoundLength \in Nat
  BY <1>2, Times
<1> QED
  BY <1>0, <1>2, <1>3, SMT

\* How many slugs there are.
LEMMA Counts ==
  ASSUME NEW E \in SUBSET Slugs
  PROVE  IsFiniteSet(E) /\ Cardinality(E) \in Nat /\ Cardinality(E) <= NSlugs
<1>1. IsFiniteSet(Slugs) /\ Cardinality(Slugs) = NSlugs
  <2>1. NSlugs \in Int /\ 1 \in Int /\ ~(1 > NSlugs) /\ NSlugs - 1 + 1 = NSlugs
    BY RotationAssumption, SMT
  <2> QED
    BY <2>1, FS_Interval DEF Slugs
<1> QED
  BY <1>1, FS_Subset, FS_CardinalityType

LEMMA CountsWithout ==
  ASSUME NEW E \in SUBSET Slugs, NEW t \in Slugs, t \notin E
  PROVE  Cardinality(E) + 1 <= NSlugs
<1>1. E \cup {t} \in SUBSET Slugs
  OBVIOUS
<1>2. IsFiniteSet(E) /\ Cardinality(E) \in Nat
  BY Counts
<1>3. Cardinality(E \cup {t}) = Cardinality(E) + 1
  BY <1>2, FS_AddElement
<1>4. Cardinality(E \cup {t}) <= NSlugs
  BY <1>1, Counts
<1> QED
  BY <1>3, <1>4

\* With a round to spare a tent is in place, wherever the rotation is.
LEMMA Roomy ==
  ASSUME NEW E \in SUBSET Slugs, NEW s \in Slugs, NEW t \in E, NEW w \in Nat, NEW a \in Nat,
         w + RoundLength <= a
  PROVE  Placed(E, s, t, w, a)
<1>0. t \in Nat /\ s \in Nat /\ Slugs \subseteq Nat /\ BatchSize \in Nat /\ BatchSize >= 1
  BY SlugsFinite, RotationAssumption, SMT
<1>1. /\ BatchSize * w \in Nat /\ BatchSize * a \in Nat
      /\ BatchSize * w + NSlugs <= BatchSize * a
      /\ BatchSize * (a + 1) = BatchSize * a + BatchSize
  <2>1. RoundLength \in Nat /\ w + RoundLength \in Nat
    BY RoundCovers, SMT
  <2>2. BatchSize * (w + RoundLength) = BatchSize * w + BatchSize * RoundLength
    BY <2>1, Times
  <2>3. BatchSize * (w + RoundLength) <= BatchSize * a
    BY <2>1, Times
  <2>4. /\ BatchSize * w \in Nat /\ BatchSize * a \in Nat
        /\ BatchSize * (a + 1) = BatchSize * a + BatchSize
    BY Times
  <2>5. BatchSize * RoundLength \in Nat /\ NSlugs <= BatchSize * RoundLength /\ NSlugs \in Nat
    BY RoundCovers, RotationAssumption
  <2> QED
    BY <2>2, <2>3, <2>4, <2>5, SMT
<1>2. CASE s <= t
  <2> DEFINE k == Cardinality(Between(E, s, t))
  <2>1. k \in Nat /\ k + 1 <= NSlugs
    <3>1. Between(E, s, t) \in SUBSET Slugs
      BY DEF Between
    <3>2. t \notin Between(E, s, t)
      BY <1>0, SMT DEF Between
    <3> QED
      BY <3>1, <3>2, Counts, CountsWithout
  <2> HIDE DEF k
  <2>2. BatchSize * w + k < BatchSize * (a + 1)
    BY <1>0, <1>1, <2>1, RotationAssumption, SMT
  <2> QED
    BY <1>2, <2>2 DEF Placed, k
<1>3. CASE ~(s <= t)
  <2> DEFINE m == Cardinality(FromOn(E, s))
             b == Cardinality(Below(E, t))
  <2>1. m \in Nat /\ b \in Nat /\ m + b + 1 <= NSlugs
    <3>1. /\ FromOn(E, s) \in SUBSET Slugs /\ Below(E, t) \in SUBSET Slugs
          /\ FromOn(E, s) \cup Below(E, t) \in SUBSET Slugs
      BY DEF FromOn, Below
    <3>2. t \notin FromOn(E, s) \cup Below(E, t)
      BY <1>0, <1>3, SMT DEF FromOn, Below
    <3>3. FromOn(E, s) \cap Below(E, t) = {}
      <4>1. \A u \in E : ~(s <= u /\ u < t)
        BY <1>0, <1>3, SMT
      <4> QED
        BY <4>1 DEF FromOn, Below
    <3>4. IsFiniteSet(FromOn(E, s)) /\ m \in Nat /\ IsFiniteSet(Below(E, t)) /\ b \in Nat
      BY <3>1, Counts
    <3>5. Cardinality(FromOn(E, s) \cup Below(E, t)) = m + b - Cardinality({})
      BY <3>3, <3>4, FS_Union
    <3>6. Cardinality({}) = 0
      BY FS_EmptySet
    <3>7. Cardinality(FromOn(E, s) \cup Below(E, t)) + 1 <= NSlugs
      BY <3>1, <3>2, CountsWithout
    <3> HIDE DEF m, b
    <3> QED
      BY <3>4, <3>5, <3>6, <3>7, SMT
  <2> HIDE DEF m, b
  <2>2. PICK c \in Nat : m <= BatchSize * c /\ BatchSize * c + 1 <= m + BatchSize
    BY <2>1, Ceiling
  <2>3. BatchSize * (w + c) = BatchSize * w + BatchSize * c /\ BatchSize * c \in Nat
    BY Times
  <2>4. BatchSize * (w + c) + b < BatchSize * (a + 1)
    BY <1>0, <1>1, <2>1, <2>2, <2>3, RotationAssumption, SMT
  <2> QED
    BY <1>3, <2>2, <2>4 DEF Placed, m, b
<1> QED
  BY <1>2, <1>3

\* A tent in place has not waited for longer than it may.
LEMMA PlacedWait ==
  ASSUME NEW E \in SUBSET Slugs, NEW s \in Slugs, NEW t \in E, NEW w \in Nat, NEW a \in Nat,
         Placed(E, s, t, w, a)
  PROVE  w <= a
<1>1. /\ Cardinality(Between(E, s, t)) \in Nat /\ Cardinality(Below(E, t)) \in Nat
  <2>1. Between(E, s, t) \in SUBSET Slugs /\ Below(E, t) \in SUBSET Slugs
    BY DEF Between, Below
  <2> QED
    BY <2>1, Counts
<1>2. CASE s <= t
  <2>1. BatchSize * w + Cardinality(Between(E, s, t)) < BatchSize * (a + 1)
    BY <1>2 DEF Placed
  <2>2. BatchSize * w \in Nat /\ BatchSize * (a + 1) \in Nat
    BY Times, SMT
  <2>3. BatchSize * w < BatchSize * (a + 1)
    BY <1>1, <2>1, <2>2, SMT
  <2> QED
    BY <2>3, Times
<1>3. CASE ~(s <= t)
  <2>1. PICK c \in Nat : BatchSize * (w + c) + Cardinality(Below(E, t)) < BatchSize * (a + 1)
    BY <1>3 DEF Placed
  <2>2. /\ BatchSize * (w + c) = BatchSize * w + BatchSize * c
        /\ BatchSize * w \in Nat /\ BatchSize * c \in Nat
        /\ BatchSize * (a + 1) = BatchSize * a + BatchSize
        /\ BatchSize * a \in Nat /\ BatchSize \in Nat
    BY Times, RotationAssumption
  <2>3. BatchSize * w < BatchSize * (a + 1)
    BY <1>1, <2>1, <2>2, SMT
  <2> QED
    BY <2>3, Times
<1> QED
  BY <1>2, <1>3

\* The tents from s on before t, and a full batch of them before s2.
LEMMA BetweenSplit ==
  ASSUME NEW E \in SUBSET Slugs, NEW s \in Slugs, NEW s2 \in Slugs, NEW t \in Slugs,
         s <= s2, s2 <= t
  PROVE  /\ Cardinality(Between(E, s, t))
              = Cardinality(Between(E, s, s2)) + Cardinality(Between(E, s2, t))
         /\ Cardinality(Between(E, s, s2)) \in Nat /\ Cardinality(Between(E, s2, t)) \in Nat
<1> DEFINE X == Between(E, s, s2)
           Y == Between(E, s2, t)
<1>0. Slugs \subseteq Nat /\ s \in Nat /\ s2 \in Nat /\ t \in Nat
  BY SlugsFinite
<1>1. Between(E, s, t) = X \cup Y /\ X \cap Y = {}
  <2>1. \A u \in E : /\ (s <= u /\ u < t) <=> ((s <= u /\ u < s2) \/ (s2 <= u /\ u < t))
                     /\ ~((s <= u /\ u < s2) /\ (s2 <= u /\ u < t))
    BY <1>0, SMT
  <2> QED
    BY <2>1 DEF Between
<1>2. /\ IsFiniteSet(X) /\ Cardinality(X) \in Nat
      /\ IsFiniteSet(Y) /\ Cardinality(Y) \in Nat
  <2>1. X \in SUBSET Slugs /\ Y \in SUBSET Slugs
    BY DEF Between
  <2> HIDE DEF X, Y
  <2> QED
    BY <2>1, Counts
<1>3. Cardinality(Between(E, s, t)) = Cardinality(X) + Cardinality(Y)
  <2> HIDE DEF X, Y
  <2>1. Cardinality(X \cup Y) = Cardinality(X) + Cardinality(Y) - Cardinality({})
    BY <1>1, <1>2, FS_Union
  <2> QED
    BY <1>1, <1>2, <2>1, FS_EmptySet, SMT
<1> QED
  BY <1>2, <1>3

LEMMA FromOnSplit ==
  ASSUME NEW E \in SUBSET Slugs, NEW s \in Slugs, NEW s2 \in Slugs, s <= s2
  PROVE  /\ Cardinality(FromOn(E, s))
              = Cardinality(Between(E, s, s2)) + Cardinality(FromOn(E, s2))
         /\ Cardinality(Between(E, s, s2)) \in Nat /\ Cardinality(FromOn(E, s2)) \in Nat
         /\ s2 \in E => Cardinality(FromOn(E, s2)) >= 1
<1> DEFINE X == Between(E, s, s2)
           Y == FromOn(E, s2)
<1>0. Slugs \subseteq Nat /\ s \in Nat /\ s2 \in Nat
  BY SlugsFinite
<1>1. FromOn(E, s) = X \cup Y /\ X \cap Y = {}
  <2>1. \A u \in E : /\ s <= u <=> ((s <= u /\ u < s2) \/ s2 <= u)
                     /\ ~((s <= u /\ u < s2) /\ s2 <= u)
    BY <1>0, SMT
  <2> QED
    BY <2>1 DEF Between, FromOn
<1>2. /\ IsFiniteSet(X) /\ Cardinality(X) \in Nat
      /\ IsFiniteSet(Y) /\ Cardinality(Y) \in Nat
  <2>1. X \in SUBSET Slugs /\ Y \in SUBSET Slugs
    BY DEF Between, FromOn
  <2> HIDE DEF X, Y
  <2> QED
    BY <2>1, Counts
<1>3. s2 \in E => s2 \in Y
  BY <1>0, SMT DEF FromOn
<1> HIDE DEF X, Y
<1>4. Cardinality(FromOn(E, s)) = Cardinality(X) + Cardinality(Y)
  <2>1. Cardinality(X \cup Y) = Cardinality(X) + Cardinality(Y) - Cardinality({})
    BY <1>1, <1>2, FS_Union
  <2> QED
    BY <1>1, <1>2, <2>1, FS_EmptySet, SMT
<1>5. s2 \in E => Cardinality(Y) >= 1
  <2>1. Y # {} => Cardinality(Y) # 0
    BY <1>2, FS_EmptySet
  <2> QED
    BY <1>2, <1>3, <2>1, SMT
<1> QED
  BY <1>2, <1>4, <1>5 DEF X, Y

\* A run moves a tent it passes over up by a full batch, or to the rotation that starts
\* over; s2 is where the next run starts.
LEMMA PlacedMoves ==
  ASSUME NEW E \in SUBSET Slugs, NEW s \in Slugs, NEW s2 \in E, NEW t \in E,
         NEW w \in Nat, NEW w2 \in Nat, NEW a \in Nat,
         Placed(E, s, t, w, a), w2 <= w + 1,
         \/ /\ s < s2 /\ Cardinality(Between(E, s, s2)) >= BatchSize
            /\ s <= t => s2 <= t
         \/ /\ t < s /\ \A u \in E : s2 <= u
            /\ s \in E
  PROVE  Placed(E, s2, t, w2, a)
<1>0. /\ Slugs \subseteq Nat /\ s \in Nat /\ s2 \in Nat /\ t \in Nat /\ t \in Slugs /\ s2 \in Slugs
      /\ BatchSize \in Nat /\ BatchSize >= 1
  BY SlugsFinite, RotationAssumption, SMT
<1>1. BatchSize * (a + 1) \in Nat
  BY Times, SMT
<1>2. CASE s < s2 /\ Cardinality(Between(E, s, s2)) >= BatchSize /\ s <= t /\ s2 <= t
  <2> DEFINE k == Cardinality(Between(E, s, t))
             k2 == Cardinality(Between(E, s2, t))
             d == Cardinality(Between(E, s, s2))
  <2>1. k = d + k2 /\ d \in Nat /\ k2 \in Nat /\ d >= BatchSize
    <3>1. s <= s2
      BY <1>0, <1>2, SMT
    <3> QED
      BY <1>0, <1>2, <3>1, BetweenSplit
  <2>2. BatchSize * w + k < BatchSize * (a + 1)
    BY <1>2 DEF Placed
  <2>3. BatchSize * w2 <= BatchSize * (w + 1) /\ BatchSize * (w + 1) = BatchSize * w + BatchSize
    BY Times, SMT
  <2>4. BatchSize * w2 \in Nat /\ BatchSize * w \in Nat
    BY Times
  <2> HIDE DEF k, k2, d
  <2>5. BatchSize * w2 + k2 < BatchSize * (a + 1)
    BY <1>0, <1>1, <2>1, <2>2, <2>3, <2>4, SMT
  <2> QED
    BY <1>2, <2>5 DEF Placed, k2
<1>3. ASSUME t < s
      PROVE  \E c \in Nat :
               /\ Cardinality(FromOn(E, s)) <= BatchSize * c
               /\ BatchSize * w + BatchSize * c + Cardinality(Below(E, t)) < BatchSize * (a + 1)
               /\ BatchSize * w \in Nat /\ BatchSize * c \in Nat
  <2>1. ~(s <= t)
    BY <1>0, <1>3, SMT
  <2>2. PICK c \in Nat :
          /\ Cardinality(FromOn(E, s)) <= BatchSize * c
          /\ BatchSize * (w + c) + Cardinality(Below(E, t)) < BatchSize * (a + 1)
    BY <2>1 DEF Placed
  <2>3. BatchSize * (w + c) = BatchSize * w + BatchSize * c
    BY Times
  <2>4. BatchSize * w \in Nat /\ BatchSize * c \in Nat
    BY Times
  <2> QED
    BY <2>2, <2>3, <2>4
<1>4. Cardinality(Below(E, t)) \in Nat
  <2>1. Below(E, t) \in SUBSET Slugs
    BY DEF Below
  <2> QED
    BY <2>1, Counts
<1>6. BatchSize * 0 = 0
  BY <1>0, SMT
<1>7. CASE s < s2 /\ Cardinality(Between(E, s, s2)) >= BatchSize /\ t < s
  <2>1. PICK c \in Nat :
               /\ Cardinality(FromOn(E, s)) <= BatchSize * c
               /\ BatchSize * w + BatchSize * c + Cardinality(Below(E, t)) < BatchSize * (a + 1)
               /\ BatchSize * w \in Nat /\ BatchSize * c \in Nat
    BY <1>3, <1>7
  <2> DEFINE m == Cardinality(FromOn(E, s))
             m2 == Cardinality(FromOn(E, s2))
             d == Cardinality(Between(E, s, s2))
             b == Cardinality(Below(E, t))
  <2>2. m = d + m2 /\ d \in Nat /\ m2 \in Nat /\ m2 >= 1 /\ d >= BatchSize
    <3>1. s <= s2
      BY <1>0, <1>7, SMT
    <3> QED
      BY <1>0, <1>7, <3>1, FromOnSplit
  <2> HIDE DEF m2, d, b
  <2>3. c # 0
    BY <1>0, <1>6, <2>1, <2>2, SMT
  <2> HIDE DEF m
  <2>4. c - 1 \in Nat /\ (c - 1) + 1 = c
    BY <2>3, SMT
  <2>5. BatchSize * c = BatchSize * (c - 1) + BatchSize /\ BatchSize * (c - 1) \in Nat
    <3>1. BatchSize * ((c - 1) + 1) = BatchSize * (c - 1) + BatchSize
      BY <2>4, Times
    <3>2. BatchSize * (c - 1) \in Nat
      BY <2>4, Times
    <3> QED
      BY <2>4, <3>1, <3>2
  <2>6. m2 <= BatchSize * (c - 1)
    BY <1>0, <2>1, <2>2, <2>5, SMT DEF m
  <2>7. BatchSize * (w2 + (c - 1)) <= BatchSize * (w + c)
    <3>1. w2 + (c - 1) \in Nat /\ w + c \in Nat /\ w2 + (c - 1) <= w + c
      BY <2>4, SMT
    <3> QED
      BY <3>1, Times
  <2>8. /\ BatchSize * (w + c) = BatchSize * w + BatchSize * c
        /\ BatchSize * (w2 + (c - 1)) \in Nat
    <3>1. w2 + (c - 1) \in Nat
      BY <2>4, SMT
    <3> QED
      BY <3>1, Times
  <2>9. BatchSize * (w2 + (c - 1)) + b < BatchSize * (a + 1)
    BY <1>1, <1>4, <2>1, <2>7, <2>8, SMT DEF b
  <2>10. ~(s2 <= t)
    BY <1>0, <1>7, SMT
  <2> QED
    BY <2>4, <2>6, <2>9, <2>10 DEF Placed, m2, b
<1>8. CASE t < s /\ s \in E /\ \A u \in E : s2 <= u
  <2>1. PICK c \in Nat :
               /\ Cardinality(FromOn(E, s)) <= BatchSize * c
               /\ BatchSize * w + BatchSize * c + Cardinality(Below(E, t)) < BatchSize * (a + 1)
               /\ BatchSize * w \in Nat /\ BatchSize * c \in Nat
    BY <1>3, <1>8
  <2>2. Cardinality(FromOn(E, s)) >= 1 /\ Cardinality(FromOn(E, s)) \in Nat
    <3>1. s <= s
      BY <1>0, SMT
    <3> QED
      BY <1>8, <3>1, FromOnSplit
  <2>3. c # 0
    BY <1>6, <2>1, <2>2, SMT
  <2>4. BatchSize * w2 <= BatchSize * (w + c)
    <3>1. w + c \in Nat /\ w2 <= w + c
      BY <2>3, SMT
    <3> QED
      BY <3>1, Times
  <2>5. BatchSize * (w + c) = BatchSize * w + BatchSize * c /\ BatchSize * w2 \in Nat
    BY Times
  <2>6. s2 <= t
    BY <1>8
  <2>7. Between(E, s2, t) = Below(E, t)
    BY <1>8 DEF Between, Below
  <2> DEFINE b == Cardinality(Below(E, t))
  <2> HIDE DEF b
  <2>8. BatchSize * w2 + b < BatchSize * (a + 1)
    BY <1>1, <1>4, <2>1, <2>4, <2>5, SMT DEF b
  <2> QED
    BY <2>6, <2>7, <2>8 DEF Placed, b
<1>9. s <= t \/ t < s
  BY <1>0, SMT
<1> QED
  BY <1>2, <1>7, <1>8, <1>9

LEMMA AllowedType ==
  ASSUME TypeOK, NEW t \in Slugs
  PROVE  Allowed(t) \in Nat
<1>1. moves[t] + 1 \in Nat /\ RoundLength \in Nat
  BY RoundCovers, SMT DEF TypeOK
<1> QED
  BY <1>1, SMT DEF Allowed

LEMMA RunKeepsWait ==
  ASSUME TypeOK, TypeOK', WaitInv, Run
  PROVE  WaitInv'
<1>1. CASE enabled = {}
  BY <1>1 DEF Run, WaitInv
<1>2. CASE enabled # {}
  <2> DEFINE last == Max(Batch)
             later == {u \in enabled : u > last}
             s2 == probe_rotation_cursor'
  <2>0. /\ enabled \in SUBSET Slugs /\ enabled \in SUBSET Nat /\ EnabledOK /\ enabled' = enabled
        /\ BatchSize \in Nat
    BY <1>2, SlugsFinite, RotationAssumption DEF TypeOK, EnabledOK, Run
  <2>1. /\ s2 = IF later # {} THEN Min(later) ELSE Min(enabled)
        /\ waits' = [u \in Slugs |-> IF u \in enabled \ Batch
                                      THEN Min({waits[u] + 1, WaitCap}) ELSE 0]
        /\ moves' = [u \in Slugs |-> IF u \in Batch THEN 0 ELSE moves[u]]
    BY <1>2 DEF Run, NextCursor
  <2>2. /\ Start \in enabled /\ Batch \subseteq enabled /\ Batch # {}
        /\ \A u \in Batch : Start <= u
        /\ \A u \in enabled, v \in Batch : Start <= u /\ u <= v => u \in Batch
    BY <1>2, <2>0, BatchShape
  <2>3. last \in Batch /\ \A u \in Batch : u <= last
    BY <2>0, <2>2, MaxOf
  <2>4. later # {} => Min(later) \in later /\ \A u \in later : Min(later) <= u
    BY <2>0, MinOf
  <2>5. Min(enabled) \in enabled /\ \A u \in enabled : Min(enabled) <= u
    BY <1>2, <2>0, MinOf
  <2>6. last \in Nat /\ Start \in Nat /\ Start <= last
    BY <2>0, <2>2, <2>3
  <2> HIDE DEF last
  <2>7. s2 \in enabled
    BY <2>1, <2>4, <2>5
  <2>8. Start' = s2
    BY <2>0, <2>7 DEF Start
  <2>9. ASSUME NEW t \in enabled, t \in Batch
        PROVE  Placed(enabled, s2, t, waits'[t], Allowed(t)')
    <3>1. waits'[t] = 0 /\ moves'[t] = 0 /\ t \in Slugs
      BY <2>0, <2>1, <2>9
    <3>2. Allowed(t)' = RoundLength
      <4>1. Allowed(t)' = (0 + 1) * RoundLength
        BY <3>1 DEF Allowed
      <4> QED
        BY <4>1, RoundCovers, SMT
    <3> QED
      BY <2>0, <2>7, <3>1, <3>2, Roomy, RoundCovers
  <2>10. ASSUME NEW t \in enabled, t \notin Batch
         PROVE  Placed(enabled, s2, t, waits'[t], Allowed(t)')
    <3>1. /\ waits'[t] = Min({waits[t] + 1, WaitCap}) /\ moves'[t] = moves[t]
          /\ t \in Slugs /\ t \in Nat
      BY <2>0, <2>1, <2>10
    <3>2. Allowed(t)' = Allowed(t)
      BY <3>1 DEF Allowed
    <3>3. waits[t] \in Nat /\ waits'[t] \in Nat /\ waits'[t] <= waits[t] + 1
      <4>1. waits[t] \in Nat /\ waits'[t] \in Nat
        BY <3>1 DEF TypeOK
      <4>2. WaitCap \in Nat
        <5>1. RoundLength \in Nat
          BY RoundCovers
        <5> QED
          BY <5>1, RotationAssumption, SMT DEF WaitCap
      <4>3. {waits[t] + 1, WaitCap} \in SUBSET Nat
        BY <4>1, <4>2, SMT
      <4>4. Min({waits[t] + 1, WaitCap}) <= waits[t] + 1
        BY <4>3, MinOf
      <4> QED
        BY <3>1, <4>1, <4>4
    <3>4. Start <= t => t \in later
      <4>1. Start <= t /\ t <= last => t \in Batch
        BY <2>2, <2>3
      <4> QED
        BY <2>6, <2>10, <3>1, <4>1, SMT
    <3>5. Placed(enabled, Start, t, waits[t], Allowed(t))
      BY DEF WaitInv
    <3>6. CASE later # {}
      <4>1. s2 \in enabled /\ s2 \in Nat /\ s2 > last /\ (t \in later => s2 <= t)
        BY <2>0, <2>1, <2>4, <3>6
      <4>2. Start < s2 /\ s2 >= Start
        BY <2>6, <4>1, SMT
      <4>3. s2 \notin Batch
        BY <2>3, <2>6, <4>1, SMT
      <4>4. ~(Cardinality({u \in enabled : Start <= u /\ u < s2}) < BatchSize)
        BY <4>1, <4>2, <4>3 DEF Batch
      <4>5. Cardinality(Between(enabled, Start, s2)) \in Nat
        <5>1. Between(enabled, Start, s2) \in SUBSET Slugs
          BY <2>0 DEF Between
        <5> QED
          BY <5>1, Counts
      <4>6. Cardinality(Between(enabled, Start, s2)) >= BatchSize
        BY <2>0, <4>4, <4>5, SMT DEF Between
      <4>7. Start \in Slugs /\ Allowed(t) \in Nat
        BY <2>0, <2>2, <3>1, AllowedType
      <4> HIDE DEF later, s2
      <4>8. Placed(enabled, s2, t, waits'[t], Allowed(t))
        BY <2>0, <3>3, <3>4, <3>5, <4>1, <4>2, <4>6, <4>7, PlacedMoves
      <4> QED
        BY <3>2, <4>8
    <3>7. CASE later = {}
      <4>1. s2 \in enabled /\ \A u \in enabled : s2 <= u
        BY <2>1, <2>5, <3>7
      <4>2. t < Start
        BY <2>6, <3>1, <3>4, <3>7
      <4>3. Start \in Slugs /\ Start \in enabled /\ Allowed(t) \in Nat
        BY <2>0, <2>2, <3>1, AllowedType
      <4> HIDE DEF later, s2
      <4>4. Placed(enabled, s2, t, waits'[t], Allowed(t))
        BY <2>0, <3>3, <3>5, <4>1, <4>2, <4>3, PlacedMoves
      <4> QED
        BY <3>2, <4>4
    <3> QED
      BY <3>6, <3>7
  <2> QED
    BY <2>0, <2>8, <2>9, <2>10 DEF WaitInv
<1> QED
  BY <1>1, <1>2

\* A deployment moves the rotation or the tents, and allows for one more round.
LEMMA DeployKeepsWait ==
  ASSUME TypeOK, TypeOK', WaitInv, NEW slugs \in SUBSET Slugs, Deploy(slugs)
  PROVE  WaitInv'
<1> SUFFICES ASSUME NEW t \in enabled'
             PROVE  Placed(enabled', Start', t, waits'[t], Allowed(t)')
  BY DEF WaitInv
<1>1. enabled' \in SUBSET Slugs /\ enabled' # {} /\ t \in Slugs /\ EnabledOK'
  BY DEF TypeOK, EnabledOK
<1>2. Start' \in Slugs
  <2>1. enabled' \in SUBSET Nat
    BY <1>1, SlugsFinite
  <2>2. Min(enabled') \in enabled'
    BY <1>1, <2>1, MinOf
  <2> QED
    BY <1>1, <2>2 DEF Start
<1>3. Allowed(t)' = (moves'[t] + 1) * RoundLength /\ RoundLength \in Nat
  BY RoundCovers DEF Allowed
<1>4. waits'[t] \in Nat /\ moves'[t] \in Nat /\ waits[t] \in Nat /\ moves[t] \in Nat
  BY <1>1 DEF TypeOK
<1>5. Allowed(t)' \in Nat
  BY <1>3, <1>4, SMT
<1>6. CASE t \in enabled \cap slugs
  <2>1. waits'[t] = waits[t] /\ moves'[t] = moves[t] + 1
    BY <1>1, <1>6 DEF Deploy
  <2>2. waits[t] <= Allowed(t)
    <3>1. Placed(enabled, Start, t, waits[t], Allowed(t)) /\ enabled \in SUBSET Slugs
      BY <1>6 DEF WaitInv, TypeOK
    <3>2. Start \in Slugs
      <4>1. enabled \in SUBSET Nat /\ enabled # {}
        BY <1>6, <3>1, SlugsFinite
      <4>2. Min(enabled) \in enabled
        BY <4>1, MinOf
      <4> QED
        BY <3>1, <4>2 DEF Start
    <3>3. Allowed(t) \in Nat /\ t \in enabled
      BY <1>1, <1>6, AllowedType
    <3> QED
      BY <1>4, <3>1, <3>2, <3>3, PlacedWait
  <2>3. Allowed(t)' = Allowed(t) + RoundLength /\ Allowed(t) \in Nat
    <3>1. ((moves[t] + 1) + 1) * RoundLength = (moves[t] + 1) * RoundLength + RoundLength
      BY <1>3, <1>4, SMT
    <3>2. (moves[t] + 1) * RoundLength \in Nat
      BY <1>3, <1>4, SMT
    <3> QED
      BY <1>3, <2>1, <3>1, <3>2 DEF Allowed
  <2>4. waits'[t] + RoundLength <= Allowed(t)'
    BY <1>3, <1>4, <2>1, <2>2, <2>3, SMT
  <2> QED
    BY <1>1, <1>2, <1>4, <1>5, <2>4, Roomy
<1>7. CASE t \notin enabled \cap slugs
  <2>1. waits'[t] = 0 /\ moves'[t] = 0
    BY <1>1, <1>7 DEF Deploy
  <2>2. waits'[t] + RoundLength <= Allowed(t)'
    BY <1>3, <2>1, SMT
  <2> QED
    BY <1>1, <1>2, <1>4, <1>5, <2>2, Roomy
<1> QED
  BY <1>6, <1>7

LEMMA InitWait == Init => WaitInv
<1> SUFFICES ASSUME Init, NEW t \in enabled
             PROVE  Placed(enabled, Start, t, waits[t], Allowed(t))
  BY DEF WaitInv
<1>1. enabled \in SUBSET Slugs /\ t \in Slugs /\ enabled # {} /\ waits[t] = 0 /\ moves[t] = 0
  BY DEF Init
<1>2. Start \in Slugs
  <2>1. enabled \in SUBSET Nat
    BY <1>1, SlugsFinite
  <2>2. Min(enabled) \in enabled
    BY <1>1, <2>1, MinOf
  <2> QED
    BY <1>1, <2>2 DEF Start
<1>3. RoundLength \in Nat /\ Allowed(t) = RoundLength
  <2>1. Allowed(t) = (0 + 1) * RoundLength /\ RoundLength \in Nat
    BY <1>1, RoundCovers DEF Allowed
  <2> QED
    BY <2>1, SMT
<1> QED
  BY <1>1, <1>2, <1>3, Roomy

LEMMA WaitStep ==
  ASSUME TypeOK, WaitInv, [Next]_vars
  PROVE  WaitInv'
<1>1. TypeOK'
  BY RotationStepType
<1>2. UNCHANGED vars => WaitInv'
  BY DEF vars, WaitInv, Start, Allowed
<1> QED
  BY <1>1, <1>2, RunKeepsWait, DeployKeepsWait DEF Next

LEMMA InPlaceWaits ==
  ASSUME TypeOK, WaitInv
  PROVE  WaitBounded
<1> SUFFICES ASSUME NEW t \in enabled PROVE waits[t] <= Allowed(t)
  BY DEF WaitBounded, Allowed
<1>1. enabled \in SUBSET Slugs /\ enabled # {} /\ waits[t] \in Nat
  BY DEF TypeOK
<1>2. Start \in Slugs
  <2>1. enabled \in SUBSET Nat
    BY <1>1, SlugsFinite
  <2>2. Min(enabled) \in enabled
    BY <1>1, <2>1, MinOf
  <2> QED
    BY <1>1, <2>2 DEF Start
<1>3. Allowed(t) \in Nat /\ Placed(enabled, Start, t, waits[t], Allowed(t))
  BY <1>1, AllowedType DEF WaitInv
<1> QED
  BY <1>1, <1>2, <1>3, PlacedWait

\* Whatever is deployed when, and however many tents and batches there are: an enabled
\* tent is passed over by no more runs than a round for each deployment since its last
\* visit, and one more.
THEOREM AlwaysWaitBounded == JobSpec => []WaitBounded
<1>1. Init => TypeOK /\ WaitInv
  BY RotationInitType, InitWait
<1>2. (TypeOK /\ WaitInv) /\ [Next]_vars => (TypeOK /\ WaitInv)'
  BY RotationStepType, WaitStep
<1>3. TypeOK /\ WaitInv => WaitBounded
  BY InPlaceWaits
<1> QED
  BY <1>1, <1>2, <1>3, JobsRotate, PTL DEF Spec
====
