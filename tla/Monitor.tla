---- MODULE Monitor ----
(***************************************************************************)
(* The system end to end: the jobs of monitor.yml, one after another, each *)
(* of which checks out main, probes the next rotation batch, checkpoints,  *)
(* and then sends one message part at a time with a checkpoint after each. *)
(*                                                                         *)
(* One finding per tent stands for the events of Availability and          *)
(* TentHealth; its entry in the queue abstracts an event of Outbox (time   *)
(* and quota are left to that module, a part has one budget here), and a   *)
(* checkpoint has the outcomes Checkpoint allows.  The state file is       *)
(* durable on the remote branch only: a runner's disk dies with its job.   *)
(***************************************************************************)
EXTENDS Naturals, FiniteSets

CONSTANTS NTents,        \* enabled tents, in configuration order
          BatchSize,     \* PROBE_BATCH_SIZE
          Total,         \* [1..NTents -> parts of the finding's message]
          MaxTries,      \* failed calls after which a part is given up
          MaxFaults      \* bound on crashes, failed checkpoints, foreign pushes, and
                         \* acceptances whose answer cannot be read

Tents == 1..NTents

ASSUME MonitorAssumption ==
  /\ NTents \in Nat \ {0} /\ BatchSize \in Nat \ {0}
  /\ Total \in [Tents -> Nat \ {0}]
  /\ MaxTries \in Nat \ {0} /\ MaxFaults \in Nat

VARIABLES
  remote,                \* the state file at the head of main
  inflight,              \* state files of timed-out pushes that may still land
  local,                 \* the state file in the running job's work tree
  fresh,                 \* is the head of main still the job's basis?
  pc,                    \* where the job is, "off" when none runs
  visible,               \* the tents whose sites show something to report
  faults,
  accepted               \* history: per tent and part, how often it was accepted

vars == <<remote, inflight, local, fresh, pc, visible, faults, accepted>>

Entry == [status: {"absent", "pending", "delivered", "dead_letter"},
          next: Nat, tries: Nat]

StateFile == [cursor: Tents, queue: [Tents -> Entry]]

NewState == [cursor |-> 1,
             queue |-> [t \in Tents |-> [status |-> "absent", next |-> 0, tries |-> 0]]]

Init ==
  /\ remote = NewState /\ local = NewState
  /\ inflight = {}
  /\ fresh = FALSE
  /\ pc = "off"
  /\ visible = {}
  /\ faults = 0
  /\ accepted = [t \in Tents |-> [p \in 0..(Total[t] - 1) |-> 0]]

Pending(state) == {t \in Tents : state.queue[t].status = "pending"}

-----------------------------------------------------------------------------
(* Probing *)

\* actions/checkout of main; the concurrency group admits one job at a time.
Dispatch ==
  /\ pc = "off"
  /\ pc' = "probe"
  /\ local' = remote
  /\ fresh' = TRUE
  /\ UNCHANGED <<remote, inflight, visible, faults, accepted>>

\* _select_probe_batch: from the cursor on, without wrapping around.
Batch(cursor) == {t \in Tents : t >= cursor /\ t < cursor + BatchSize}

\* Seeded fault: the rotation skips a tent.
NextCursorSkips(cursor) == IF cursor + BatchSize + 1 > NTents THEN 1 ELSE cursor + BatchSize + 1

NextCursor(cursor) == IF cursor + BatchSize > NTents THEN 1 ELSE cursor + BatchSize

\* The state probe_run saves, whole: what is new in the batch is enqueued.
Probed(state, shown) ==
  [cursor |-> NextCursor(state.cursor),
   queue |-> [t \in Tents |->
                IF t \in Batch(state.cursor) \cap shown /\ state.queue[t].status = "absent"
                THEN [state.queue[t] EXCEPT !.status = "pending"] ELSE state.queue[t]]]

\* Seeded fault: delivery starts before the outbox is checkpointed.
ProbeUnsaved ==
  /\ pc = "probe"
  /\ local' = Probed(local, visible)
  /\ pc' = "deliver"
  /\ UNCHANGED <<remote, inflight, fresh, visible, faults, accepted>>

\* main --probe, followed by its checkpoint.
Probe ==
  /\ pc = "probe"
  /\ local' = Probed(local, visible)
  /\ pc' = "checkpoint"
  /\ UNCHANGED <<remote, inflight, fresh, visible, faults, accepted>>

-----------------------------------------------------------------------------
(* Delivery: one call of main --deliver-next *)

\* The provider accepts the next part of t's message.
Accept(t) ==
  LET e == local.queue[t]
  IN  accepted' = [accepted EXCEPT ![t][e.next] = @ + 1]

Advanced(e, t) ==
  [status |-> IF e.next + 1 = Total[t] THEN "delivered" ELSE "pending",
   next |-> e.next + 1, tries |-> 0]

\* Seeded fault: the loop goes on without a checkpoint.
SendUnsaved(t) ==
  /\ pc = "deliver" /\ t \in Pending(local)
  /\ Accept(t)
  /\ local' = [local EXCEPT !.queue[t] = Advanced(@, t)]
  /\ UNCHANGED <<remote, inflight, fresh, pc, visible, faults>>

\* rc 0: the part was accepted and the cursor saved.
Send(t) ==
  /\ pc = "deliver" /\ t \in Pending(local)
  /\ Accept(t)
  /\ local' = [local EXCEPT !.queue[t] = Advanced(@, t)]
  /\ pc' = "checkpoint"
  /\ UNCHANGED <<remote, inflight, fresh, visible, faults>>

\* Seeded fault: a part that cannot be delivered is skipped.
SendFailsSkipping(t) ==
  /\ pc = "deliver" /\ t \in Pending(local)
  /\ local' = [local EXCEPT !.queue[t] = Advanced(@, t)]
  /\ pc' = "checkpoint"
  /\ UNCHANGED <<remote, inflight, fresh, visible, faults, accepted>>

\* The part failed or was deferred (rc 0), or was given up: a terminal failure or
\* an exhausted budget dead-letters the event, and ends the job after the
\* checkpoint (rc 2) unless only the provider's rate limit was to blame (rc 0).
\* A timeout, a 5xx or an unreadable answer leaves open whether the provider took
\* the part; when it did, that is a fault.
SendFails(t) ==
  LET e == local.queue[t]
  IN  /\ pc = "deliver" /\ t \in Pending(local)
      /\ \/ /\ e.tries + 1 < MaxTries
            /\ local' = [local EXCEPT !.queue[t].tries = @ + 1]
            /\ pc' = "checkpoint"
         \/ /\ local' = [local EXCEPT !.queue[t].status = "dead_letter"]
            /\ pc' \in {"checkpoint", "last_checkpoint"}
      /\ \/ UNCHANGED <<faults, accepted>>
         \/ faults < MaxFaults /\ faults' = faults + 1 /\ Accept(t)
      /\ UNCHANGED <<remote, inflight, fresh, visible>>

\* rc 3, or the delivery reserve is reached: the job ends in order.
JobEnds ==
  /\ pc = "deliver"
  /\ pc' = "off"
  /\ UNCHANGED <<remote, inflight, local, fresh, visible, faults, accepted>>

-----------------------------------------------------------------------------
(* Checkpoints *)

\* checkpoint_state.sh exits 0: main is the local state.
Checkpointed ==
  /\ pc \in {"checkpoint", "last_checkpoint"}
  /\ fresh
  /\ remote' = local
  /\ inflight' = {}
  /\ pc' = IF pc = "checkpoint" THEN "deliver" ELSE "off"
  /\ UNCHANGED <<local, fresh, visible, faults, accepted>>

\* Main has moved since: the script refuses and the job ends.
Refused ==
  /\ pc \in {"checkpoint", "last_checkpoint"}
  /\ ~fresh
  /\ pc' = "off"
  /\ UNCHANGED <<remote, inflight, local, fresh, visible, faults, accepted>>

\* The attempts are exhausted or the job dies; the last push may have been
\* applied all the same, or may be applied later.
CheckpointFails ==
  /\ faults < MaxFaults
  /\ pc \in {"checkpoint", "last_checkpoint"}
  /\ pc' = "off"
  /\ faults' = faults + 1
  /\ \/ fresh /\ remote' = local /\ inflight' = {}
     \/ fresh /\ inflight' = inflight \cup {local} /\ UNCHANGED remote
     \/ UNCHANGED <<remote, inflight>>
  /\ UNCHANGED <<local, fresh, visible, accepted>>

-----------------------------------------------------------------------------
(* The environment *)

Appears(t) ==
  /\ t \notin visible
  /\ visible' = visible \cup {t}
  /\ UNCHANGED <<remote, inflight, local, fresh, pc, faults, accepted>>

\* A probe that times out or fails, a cancelled job, a lost runner; within a call
\* the provider may have accepted the part that is not recorded.
JobDies ==
  /\ faults < MaxFaults
  /\ pc \in {"probe", "deliver"}
  /\ pc' = "off"
  /\ faults' = faults + 1
  /\ \/ UNCHANGED accepted
     \/ pc = "deliver" /\ \E t \in Pending(local) : Accept(t)
  /\ UNCHANGED <<remote, inflight, local, fresh, visible>>

\* A push in flight is applied; any change of main disposes of the others.
Land(state) ==
  /\ remote' = state
  /\ inflight' = {}
  /\ fresh' = FALSE
  /\ UNCHANGED <<local, pc, visible, faults, accepted>>

\* A developer pushes code, or an operator a requeued dead letter.
ForeignPush ==
  /\ faults < MaxFaults
  /\ faults' = faults + 1
  /\ \/ UNCHANGED remote
     \/ \E t \in Tents : /\ remote.queue[t].status = "dead_letter"
                         /\ remote' = [remote EXCEPT !.queue[t] =
                                [status |-> "pending", next |-> @.next, tries |-> 0]]
  /\ inflight' = {}
  /\ fresh' = FALSE
  /\ UNCHANGED <<local, pc, visible, accepted>>

Deliver == \E t \in Tents : Send(t) \/ SendFails(t)

Workflow == Dispatch \/ Probe \/ JobEnds \/ Checkpointed \/ Refused

Next ==
  \/ Workflow
  \/ Deliver
  \/ CheckpointFails
  \/ JobDies
  \/ ForeignPush
  \/ \E state \in inflight : Land(state)
  \/ \E t \in Tents : Appears(t)

Spec == Init /\ [][Next]_vars

\* Jobs are dispatched every five minutes and run on.  Due times are bounded (see
\* Outbox), so a delivery that is possible again and again is made some time.
FairSpec == Spec /\ WF_vars(Workflow) /\ SF_vars(Deliver)

-----------------------------------------------------------------------------
(* Properties *)

TypeOK ==
  /\ remote \in StateFile /\ local \in StateFile
  /\ inflight \subseteq StateFile
  /\ fresh \in BOOLEAN
  /\ pc \in {"off", "probe", "checkpoint", "last_checkpoint", "deliver"}
  /\ visible \in SUBSET Tents
  /\ faults \in 0..MaxFaults
  /\ DOMAIN accepted = Tents
  /\ \A t \in Tents : accepted[t] \in [0..(Total[t] - 1) -> Nat]

\* README "Commit and push that outbox before sending anything": a part is sent
\* only for an event that main knows, and unless main has moved under the job, it
\* is the very part main says comes next.
SentIsDurable ==
  [][\A t \in Tents : accepted'[t] # accepted[t] =>
       /\ remote.queue[t].status # "absent"
       /\ fresh => /\ t \in Pending(remote)
                   /\ accepted'[t] = [accepted[t] EXCEPT ![remote.queue[t].next] = @ + 1]]_vars

\* README "A crash after Pushover accepts a message but before the Git checkpoint
\* can repeat that one ambiguous part": every fault (a crash, a failed checkpoint, a
\* foreign push, an acceptance whose answer cannot be read) costs at most one
\* repeated part, over all events and jobs; calls that just fail cost none.
Repeated ==
  UNION {UNION {{<<t, p, n>> : n \in 2..accepted[t][p]} : p \in 0..(Total[t] - 1)} : t \in Tents}
RepeatsBounded == Cardinality(Repeated) <= faults

\* No crash, late push, refusal or requeue makes main count a part as sent that the
\* provider never accepted.
NothingSkipped ==
  \A t \in Tents : \A p \in 0..(Total[t] - 1) :
    (p < remote.queue[t].next \/ remote.queue[t].status = "delivered") => accepted[t][p] > 0

\* Whatever a site shows is found by the rotation and settled: delivered in full, or
\* visibly given up.
EverythingSettled ==
  \A t \in Tents :
    t \in visible ~> remote.queue[t].status \in {"delivered", "dead_letter"}

\* The events as main tells them, to EventLife.
Life == INSTANCE EventLife WITH
          Ids <- Tents,
          status <- [t \in Tents |-> remote.queue[t].status],
          next <- [t \in Tents |-> remote.queue[t].next],
          total <- [t \in Tents |-> Total[t]],
          accepted <- [t \in Tents |-> {p \in 0..(Total[t] - 1) : accepted[t][p] > 0}]

\* What Outbox promises of one state file holds of main over all jobs: whatever crashes,
\* is refused or lands late, no event is forgotten or reopened, and its cursor passes the
\* parts in order, one per change of main, and only those the provider accepted.
ImplementsLife == Life!LSpec
====
