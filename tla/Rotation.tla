---- MODULE Rotation ----
(***************************************************************************)
(* main._select_probe_batch and the durable probe_rotation_cursor, while   *)
(* deployments enable and disable tents.  Slugs are numbered in the order  *)
(* of load_tents.  A run that is aborted or whose checkpoint is refused    *)
(* leaves the cursor as it was, so a step is a run that was checkpointed;  *)
(* a deployment during a run makes its checkpoint be refused.              *)
(***************************************************************************)
EXTENDS Naturals, FiniteSets, FiniteSetsExt

CONSTANTS NSlugs,        \* tents that have a configuration file
          BatchSize,     \* PROBE_BATCH_SIZE
          NoCursor,      \* a state without a rotation cursor
          MaxDeployments

Slugs == 1..NSlugs

ASSUME RotationAssumption ==
  /\ NSlugs \in Nat \ {0} /\ BatchSize \in Nat \ {0}
  /\ NoCursor \notin Nat
  /\ MaxDeployments \in Nat

VARIABLES
  enabled,               \* the slugs enabled in the deployed configuration
  probe_rotation_cursor,
  deployments,
  round,                 \* history: visited since the rotation last started over
  steady,                \* history: no deployment since then
  waits,                 \* history: per tent the runs since it was last visited
  moves                  \* history: and the deployments since then

vars == <<enabled, probe_rotation_cursor, deployments, round, steady, waits, moves>>

Init ==
  /\ enabled \in SUBSET Slugs
  /\ probe_rotation_cursor \in Slugs \cup {NoCursor}
  /\ deployments = 0
  /\ round = {} /\ steady = FALSE
  /\ waits = [t \in Slugs |-> 0] /\ moves = [t \in Slugs |-> 0]

\* A missing cursor, or one whose tent is not enabled any more, starts over.
Start == IF probe_rotation_cursor \in enabled THEN probe_rotation_cursor ELSE Min(enabled)

\* The first BatchSize enabled tents from Start on; the last batch may be short.
Batch == {t \in enabled : /\ t >= Start
                          /\ Cardinality({u \in enabled : Start <= u /\ u < t}) < BatchSize}

\* Seeded faults: the next batch repeats the last tent; it leaves one out.
NextCursorOverlaps(batch) ==
  IF \E t \in enabled : t > Max(batch) THEN Max(batch) ELSE Min(enabled)
NextCursorSkips(batch) ==
  LET later == {t \in enabled : t > Max(batch) + 1}
  IN  IF later # {} THEN Min(later) ELSE Min(enabled)

NextCursor(batch) ==
  LET later == {t \in enabled : t > Max(batch)}
  IN  IF later # {} THEN Min(later) ELSE Min(enabled)

\* The runs that visit every tent of the largest configuration once.
RoundLength == (NSlugs + BatchSize - 1) \div BatchSize

\* Where the history stops counting, above every bound of WaitBounded.
WaitCap == (MaxDeployments + 1) * RoundLength + 1

\* A run that visits its batch and is checkpointed.
Run ==
  /\ IF enabled = {}
       THEN /\ probe_rotation_cursor' = NoCursor
            /\ UNCHANGED <<round, steady, waits, moves>>
       ELSE /\ probe_rotation_cursor' = NextCursor(Batch)
            /\ round' = IF Start = Min(enabled) THEN Batch ELSE round \cup Batch
            /\ steady' = (steady \/ Start = Min(enabled))
            /\ waits' = [t \in Slugs |-> IF t \in enabled \ Batch
                                             THEN Min({waits[t] + 1, WaitCap}) ELSE 0]
            /\ moves' = [t \in Slugs |-> IF t \in Batch THEN 0 ELSE moves[t]]
  /\ UNCHANGED <<enabled, deployments>>

Deploy(slugs) ==
  /\ deployments < MaxDeployments
  /\ deployments' = deployments + 1
  /\ enabled' = slugs
  /\ steady' = FALSE
  /\ waits' = [t \in Slugs |-> IF t \in enabled \cap slugs THEN waits[t] ELSE 0]
  /\ moves' = [t \in Slugs |-> IF t \in enabled \cap slugs THEN moves[t] + 1 ELSE 0]
  /\ UNCHANGED <<probe_rotation_cursor, round>>

Next == Run \/ \E slugs \in SUBSET Slugs : Deploy(slugs)

Spec == Init /\ [][Next]_vars

-----------------------------------------------------------------------------
TypeOK ==
  /\ enabled \in SUBSET Slugs
  /\ probe_rotation_cursor \in Slugs \cup {NoCursor}
  /\ deployments \in 0..MaxDeployments
  /\ round \in SUBSET Slugs
  /\ steady \in BOOLEAN
  /\ waits \in [Slugs -> Nat]
  /\ moves \in [Slugs -> Nat]

\* _select_probe_batch "every enabled tent is visited exactly once per rotation":
\* within a rotation that no deployment disturbed no tent is visited twice, and it
\* starts over only when all enabled tents were visited.
ExactlyOnce ==
  [][(Run /\ steady /\ enabled # {}) =>
       IF Start = Min(enabled) THEN round = enabled ELSE round \cap Batch = {}]_vars

\* However deployments move the cursor's tent away or other tents in front of it, an
\* enabled tent is visited within a round for each of them, and one more; a rotation
\* that starts in the middle has one more short batch.
WaitBounded == \A t \in enabled : waits[t] <= (moves[t] + 1) * RoundLength
====
