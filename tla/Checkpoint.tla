---- MODULE Checkpoint ----
(***************************************************************************)
(* scripts/checkpoint_state.sh, run by several workflow jobs against one   *)
(* remote branch that developers push to as well.  The workflow lets one   *)
(* job run at a time; the script does not rely on it, so the jobs here     *)
(* overlap freely.                                                         *)
(*                                                                         *)
(* A revision is the sequence of its commits, so "ancestor of" is "prefix  *)
(* of" and a push is accepted when the branch is a prefix of what is       *)
(* pushed.  File contents, messages and the backoff sleeps are left out;   *)
(* a commit remembers on which revision its state file was computed.       *)
(***************************************************************************)
EXTENDS Naturals, Sequences, FiniteSets, SequencesExt

CONSTANTS Jobs,          \* workflow jobs
          Developer,     \* whoever else pushes to main
          MaxTries,      \* CHECKPOINT_MAX_ATTEMPTS
          LateLandings,  \* may a push that timed out be applied later?
          MaxCheckpoints,\* bound on the commits of one job
          MaxForeign     \* bound on developer pushes

ASSUME CheckpointAssumption ==
  /\ Developer \notin Jobs
  /\ MaxTries \in Nat \ {0}
  /\ LateLandings \in BOOLEAN
  /\ MaxCheckpoints \in Nat /\ MaxForeign \in Nat

VARIABLES
  main,                  \* the remote branch: its commits, oldest first
  inflight,              \* revisions of timed-out pushes that may still land
  chain,                 \* per job its local revision HEAD
  writer_base,           \* per job the revision in its basis file
  attempt,
  pc,                    \* "new", "ready", "fetch", "push" or how the job ended:
                         \* "refused", "exhausted", "killed"
  acked                  \* history: commits reported as checkpointed

vars == <<main, inflight, chain, writer_base, attempt, pc, acked>>

Commit == [by: Jobs \cup {Developer}, read: Nat]

Ended == {"refused", "exhausted", "killed"}

Init ==
  /\ main = <<>>
  /\ inflight = {}
  /\ chain = [j \in Jobs |-> <<>>]
  /\ writer_base = [j \in Jobs |-> <<>>]
  /\ attempt = [j \in Jobs |-> 0]
  /\ pc = [j \in Jobs |-> "new"]
  /\ acked = {}

-----------------------------------------------------------------------------
(* The workflow job *)

\* actions/checkout of main, and MONITOR_WRITER_BASE.
Checkout(j) ==
  /\ pc[j] = "new"
  /\ pc' = [pc EXCEPT ![j] = "ready"]
  /\ chain' = [chain EXCEPT ![j] = main]
  /\ writer_base' = [writer_base EXCEPT ![j] = main]
  /\ UNCHANGED <<main, inflight, attempt, acked>>

\* The script is called with a changed state file, which it commits locally; it
\* refuses to go on when that commit does not descend from the basis.  With an
\* unchanged file it exits 0 and nothing happens.
Begin(j) ==
  LET own == [by |-> j, read |-> Len(chain[j])]
  IN  /\ pc[j] = "ready"
      /\ Cardinality({c \in Range(chain[j]) : c.by = j}) < MaxCheckpoints
      /\ chain' = [chain EXCEPT ![j] = Append(@, own)]
      /\ attempt' = [attempt EXCEPT ![j] = 1]
      /\ pc' = [pc EXCEPT ![j] = IF IsPrefix(writer_base[j], chain'[j])
                                 THEN "fetch" ELSE "refused"]
      /\ UNCHANGED <<main, inflight, writer_base, acked>>

\* The loop's continue: another attempt, or the script gives up with exit 1.
Retry(j) ==
  IF attempt[j] < MaxTries
  THEN /\ attempt' = [attempt EXCEPT ![j] = @ + 1]
       /\ pc' = [pc EXCEPT ![j] = "fetch"]
  ELSE /\ pc' = [pc EXCEPT ![j] = "exhausted"]
       /\ UNCHANGED attempt

\* exit 0: the basis file names the new head.
Succeed(j) ==
  /\ writer_base' = [writer_base EXCEPT ![j] = chain[j]]
  /\ acked' = acked \cup {Last(chain[j])}
  /\ pc' = [pc EXCEPT ![j] = "ready"]
  /\ UNCHANGED attempt

FetchFailed(j) ==
  /\ pc[j] = "fetch"
  /\ Retry(j)
  /\ UNCHANGED <<main, inflight, chain, writer_base, acked>>

\* Seeded fault: any moved head is taken for the own commit.
AlreadyPresentIfMoved(j) == main # writer_base[j]

\* The fetched head is exactly the local commit: an earlier push was accepted.
AlreadyPresent(j) == main = chain[j]

\* Seeded fault: a job whose basis is stale adopts the new head instead.
FetchedAdopts(j) ==
  /\ pc[j] = "fetch"
  /\ IF AlreadyPresent(j) THEN Succeed(j)
     ELSE /\ pc' = [pc EXCEPT ![j] = "push"]
          /\ writer_base' = [writer_base EXCEPT ![j] = main]
          /\ UNCHANGED <<attempt, acked>>
  /\ UNCHANGED <<main, inflight, chain>>

\* Anything but the basis under the own commit is a hard stop.
Fetched(j) ==
  /\ pc[j] = "fetch"
  /\ IF AlreadyPresent(j) THEN Succeed(j)
     ELSE /\ pc' = [pc EXCEPT ![j] = IF main = writer_base[j] THEN "push" ELSE "refused"]
          /\ UNCHANGED <<writer_base, attempt, acked>>
  /\ UNCHANGED <<main, inflight, chain>>

\* Seeded fault: a forced push.
AcceptsForced(revision) == TRUE

\* The server takes fast-forwards only.
Accepts(revision) == IsPrefix(main, revision)

Pushed(j) ==
  /\ pc[j] = "push"
  /\ Accepts(chain[j])
  /\ main' = chain[j]
  /\ Succeed(j)
  /\ UNCHANGED <<inflight, chain>>

\* The push is rejected, or fails before anything reached the server.
PushFailed(j) ==
  /\ pc[j] = "push"
  /\ Retry(j)
  /\ UNCHANGED <<main, inflight, chain, writer_base, acked>>

\* Seeded fault: a push that timed out counts as done.
PushTimedOutOptimistic(j) ==
  /\ pc[j] = "push"
  /\ Succeed(j)
  /\ UNCHANGED <<main, inflight, chain>>

\* The push times out: it was applied, or it may still be.
PushTimedOut(j) ==
  /\ pc[j] = "push"
  /\ \/ /\ Accepts(chain[j])
        /\ main' = chain[j]
        /\ UNCHANGED inflight
     \/ /\ LateLandings
        /\ inflight' = inflight \cup {chain[j]}
        /\ UNCHANGED main
  /\ Retry(j)
  /\ UNCHANGED <<chain, writer_base, acked>>

\* The runner is cancelled, times out, or ends between two script calls.
Kill(j) ==
  /\ pc[j] \in {"ready", "fetch", "push"}
  /\ pc' = [pc EXCEPT ![j] = "killed"]
  /\ UNCHANGED <<main, inflight, chain, writer_base, attempt, acked>>

-----------------------------------------------------------------------------
(* The remote *)

\* A push in flight is applied if the branch has not moved meanwhile.
Land(revision) ==
  /\ Accepts(revision)
  /\ main' = revision
  /\ inflight' = inflight \ {revision}
  /\ UNCHANGED <<chain, writer_base, attempt, pc, acked>>

DeveloperPush ==
  /\ Cardinality({c \in Range(main) : c.by = Developer}) < MaxForeign
  /\ main' = Append(main, [by |-> Developer, read |-> Len(main)])
  /\ UNCHANGED <<inflight, chain, writer_base, attempt, pc, acked>>

Next ==
  \/ \E j \in Jobs : \/ Checkout(j) \/ Begin(j) \/ FetchFailed(j) \/ Fetched(j)
                     \/ Pushed(j) \/ PushFailed(j) \/ PushTimedOut(j) \/ Kill(j)
  \/ \E revision \in inflight : Land(revision)
  \/ DeveloperPush

Spec == Init /\ [][Next]_vars

-----------------------------------------------------------------------------
(* Properties *)

TypeOK ==
  /\ main \in Seq(Commit)
  /\ inflight \subseteq Seq(Commit)
  /\ chain \in [Jobs -> Seq(Commit)]
  /\ writer_base \in [Jobs -> Seq(Commit)]
  /\ attempt \in [Jobs -> 0..MaxTries]
  /\ pc \in [Jobs -> {"new", "ready", "fetch", "push"} \cup Ended]
  /\ acked \in SUBSET Commit

\* Between two checkpoints, where the workflow sends a message, everything the
\* job has done so far is part of the remote branch: no message is sent on top of
\* state that exists on the runner only.
ReadyIsDurable ==
  \A j \in Jobs : pc[j] = "ready" => IsPrefix(chain[j], main) /\ writer_base[j] = chain[j]

\* A commit the script reported as present is on the branch for good, whatever
\* overlapping jobs, developers and late pushes do.
AckedIsDurable == acked \subseteq Range(main)

\* "never something an old writer rebases over": once the basis of a job holds a
\* commit of its own, every commit above that one is its own too.
BasisIsOwn ==
  \A j \in Jobs : \A k \in DOMAIN writer_base[j] :
    writer_base[j][k].by = j =>
      \A l \in k..Len(writer_base[j]) : writer_base[j][l].by = j

\* The remote branch as its writers see it.
Store == INSTANCE StateStore WITH store <- main, confirmed <- acked
ImplementsStore == Store!SSpec

\* checkpoint_state.sh:47 "A timed-out push has an uncertain result, so the
\* following fetch checks whether that exact local commit was accepted before
\* doing anything else": the script never gives up on a commit that is on main.
UncertainPushIsResolved ==
  \A j \in Jobs : pc[j] = "exhausted" => Last(chain[j]) \notin Range(main)
====
