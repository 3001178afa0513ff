---- MODULE JobBudget ----
(***************************************************************************)
(* The time budgets of a monitor.yml job and what they do to the rotation  *)
(* of Rotation.  A job is killed by the platform after Limit; its probe is *)
(* ended by `timeout` early enough for the rest, saves nothing then, and   *)
(* the next job retries the same batch.  Time is counted from the job's    *)
(* first step and passes inside the steps.                                 *)
(***************************************************************************)
EXTENDS Rotation

CONSTANTS
  Deadline,              \* delivery_deadline
  Reserve,               \* finalization_reserve
  MaxWait,               \* the outbox wait, 35 s in the code
  MaxDeliveries,         \* iterations of the delivery loop, 100 in the code
  KillAfter,             \* timeout --kill-after
  Limit,                 \* timeout-minutes
  \* what the environment takes at most
  MaxSetup,              \* checkout and installation; this may exceed every budget
  CheckpointTime,        \* checkpoint_state.sh: its git timeouts and its back-off
  CallTime               \* one Pushover request, a timeout of httpx per phase

\* Where the code says that one call and one checkpoint fit in the reserve, less
\* suffices: they fit between the last start of a call and the platform's limit.
ASSUME JobAssumption ==
  /\ \A c \in {Deadline, Reserve, MaxWait, MaxDeliveries, KillAfter, Limit,
               MaxSetup, CheckpointTime, CallTime} : c \in Nat
  /\ Reserve <= Deadline
  /\ (Deadline - Reserve) + KillAfter <= Limit
  /\ (Deadline - Reserve) + CallTime + CheckpointTime <= Limit

VARIABLES
  step,                  \* the step the job is at, "off" when none runs
  elapsed,               \* time since it was started
  moved,                 \* main moved since its checkout
  rc,                    \* exit status of the last --deliver-next
  deliveries,            \* iterations of the loop
  visited                \* history: what it visited and checkpointed

job == <<step, elapsed, moved, rc, deliveries, visited>>

Steps == {"off", "setup", "probe", "probe_checkpoint", "deliver", "delivery_checkpoint"}

JobInit ==
  /\ Init
  /\ step = "off" /\ elapsed = 0 /\ moved = FALSE
  /\ rc = 0 /\ deliveries = 0 /\ visited = {}

Remaining == Deadline - elapsed

\* External dispatch; the concurrency group admits one job at a time.
Dispatch ==
  /\ step = "off"
  /\ step' = "setup" /\ elapsed' = 0 /\ visited' = {}
  /\ UNCHANGED <<vars, moved, rc, deliveries>>

\* The job is over, and with it the runner.
Ends == step' = "off" /\ moved' = FALSE /\ rc' = 0 /\ deliveries' = 0

\* Checkout of main, installation and browser; afterwards there is a budget or not.
\* Over Limit it is the platform that ends the job here, with nothing done.
Setup(d) ==
  /\ step = "setup"
  /\ elapsed' = d
  /\ IF d < Deadline - Reserve
       THEN step' = "probe" /\ UNCHANGED <<moved, rc, deliveries>>
       ELSE Ends
  /\ UNCHANGED <<vars, visited>>

\* main --probe ends within its budget and has saved the state file.
Probe(d) ==
  /\ step = "probe"
  /\ d <= Remaining - Reserve
  /\ elapsed' = elapsed + d
  /\ step' = "probe_checkpoint"
  /\ UNCHANGED <<vars, moved, rc, deliveries, visited>>

\* Seeded fault: an aborted probe moves the rotation on.
TerminatedAdvances(d) ==
  /\ step = "probe" /\ enabled # {}
  /\ elapsed' = Deadline - Reserve + d
  /\ Ends
  /\ probe_rotation_cursor' = NextCursor(Batch)
  /\ UNCHANGED <<enabled, deployments, round, steady, waits, moves, visited>>

\* `timeout` ends it, d after its TERM; nothing is checkpointed, the job fails.
Terminated(d) ==
  /\ step = "probe"
  /\ elapsed' = Deadline - Reserve + d
  /\ Ends
  /\ UNCHANGED <<vars, visited>>

\* checkpoint_state.sh probe: only a push onto the checkout is accepted.
ProbeCheckpointed(d) ==
  /\ step = "probe_checkpoint"
  /\ ~moved
  /\ Run
  /\ elapsed' = elapsed + d
  /\ step' = "deliver"
  /\ visited' = IF enabled = {} THEN {} ELSE Batch
  /\ UNCHANGED <<moved, rc, deliveries>>

\* A checkpoint that fails or is refused ends the job.
CheckpointFails(d) ==
  /\ step \in {"probe_checkpoint", "delivery_checkpoint"}
  /\ elapsed' = elapsed + d
  /\ Ends
  /\ UNCHANGED <<vars, visited>>

LoopEnds ==
  /\ step = "deliver"
  /\ Remaining <= Reserve \/ deliveries = MaxDeliveries
  /\ Ends
  /\ UNCHANGED <<vars, elapsed, visited>>

\* Seeded fault: the wait is not cut to what the reserve leaves.
WaitUpTo35 == MaxWait

WaitUpTo == IF Remaining - Reserve < MaxWait THEN Remaining - Reserve ELSE MaxWait

\* main --deliver-next: waits up to max_wait for a due part and sends it, or ends with
\* 3 when nothing is due by then, without a call.
Deliver(wait, call, code) ==
  /\ step = "deliver"
  /\ Remaining > Reserve /\ deliveries < MaxDeliveries
  /\ wait <= WaitUpTo
  /\ code = 3 => call = 0
  /\ elapsed' = elapsed + wait + call
  /\ IF code = 3 THEN Ends
       ELSE /\ step' = "delivery_checkpoint" /\ UNCHANGED moved
            /\ rc' = code /\ deliveries' = deliveries + 1
  /\ UNCHANGED <<vars, visited>>

\* A terminal delivery failure ends the job, after its checkpoint.
DeliveryCheckpointed(d) ==
  /\ step = "delivery_checkpoint"
  /\ ~moved
  /\ elapsed' = elapsed + d
  /\ IF rc # 0 THEN Ends ELSE step' = "deliver" /\ UNCHANGED <<moved, rc, deliveries>>
  /\ UNCHANGED <<vars, visited>>

\* Somebody pushes a configuration to main.
DeployDuring(slugs) ==
  /\ Deploy(slugs)
  /\ moved' = (step \notin {"off", "setup"})
  /\ UNCHANGED <<step, elapsed, rc, deliveries, visited>>

JobStep ==
  \/ \E d \in 0..MaxSetup : Setup(d)
  \/ \E d \in 0..Limit : Probe(d)
  \/ \E d \in 0..KillAfter : Terminated(d)
  \/ \E d \in 0..CheckpointTime :
       ProbeCheckpointed(d) \/ CheckpointFails(d) \/ DeliveryCheckpointed(d)
  \/ LoopEnds
  \/ \E wait \in 0..MaxWait, call \in 0..CallTime, code \in {0, 2, 3} :
       Deliver(wait, call, code)

JobNext == Dispatch \/ JobStep \/ \E slugs \in SUBSET Slugs : DeployDuring(slugs)

\* Jobs are dispatched and go on.  The environment is not broken for good: setups
\* that leave a budget, probes that fit in it and checkpoints that are accepted occur
\* again and again, though never two of them in a row.
Fairness ==
  /\ WF_<<vars, job>>(Dispatch) /\ WF_<<vars, job>>(JobStep)
  /\ SF_<<vars, job>>(\E d \in 0..MaxSetup : Setup(d) /\ step' = "probe")
  /\ SF_<<vars, job>>(\E d \in 0..Limit : Probe(d))
  /\ SF_<<vars, job>>(\E d \in 0..CheckpointTime : ProbeCheckpointed(d))

JobSpec == JobInit /\ [][JobNext]_<<vars, job>> /\ Fairness

-----------------------------------------------------------------------------
JobTypeOK ==
  /\ step \in Steps
  /\ elapsed \in Nat
  /\ moved \in BOOLEAN
  /\ rc \in {0, 2}
  /\ deliveries \in Nat
  /\ visited \in SUBSET Slugs

\* monitor.yml "The complete normal path, including setup, probe and checkpoints, must
\* fit": the platform kills no job that has begun its probe, so none dies between a sent
\* message and its checkpoint for lack of time, whatever its setup, its sites and its
\* outbox take.
JobInTime == [][step \notin {"off", "setup"} => elapsed' <= Limit]_<<vars, job>>

\* README "an interrupted or uncheckpointed run retries the same group": no tent that
\* stays enabled is passed over for ever, however often probes are aborted, checkpoints
\* are refused and deployments move the cursor's tent away.
NotStarved == \A t \in Slugs : []<>(t \in visited \/ t \notin enabled)
====
