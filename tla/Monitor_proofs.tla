---- MODULE Monitor_proofs ----
(***************************************************************************)
(* The workflow for any number of tents, parts and faults: main never      *)
(* counts a part that the provider did not accept, nothing is sent that    *)
(* main does not know, every fault repeats one part at most, and main only *)
(* moves on, one step at a time.                                           *)
(***************************************************************************)
EXTENDS Monitor, FiniteSetTheorems, TLAPS

-----------------------------------------------------------------------------
(* State files *)

\* Where an entry's cursor may be: at a part of its message until all are sent.
Bounded(s) ==
  \A t \in Tents : s.queue[t].status # "delivered" => s.queue[t].next < Total[t]

\* Every part s counts as sent was accepted.
Sound(s) ==
  \A t \in Tents : \A p \in 0..(Total[t] - 1) :
    (p < s.queue[t].next \/ s.queue[t].status = "delivered") => accepted[t][p] > 0

\* Every event a knows is known to b.
Covers(a, b) ==
  \A t \in Tents : a.queue[t].status # "absent" => b.queue[t].status # "absent"

Known == {remote, local} \cup inflight

AllSound == \A s \in Known : Bounded(s) /\ Sound(s)

\* How the runner's state file, main and the pushes in flight hang together.
InStep ==
  /\ fresh /\ pc \in {"probe", "deliver"} => local = remote
  /\ fresh /\ pc \in {"checkpoint", "last_checkpoint"} => Covers(remote, local)
  /\ pc = "deliver" => Covers(local, remote)
  /\ \A s \in inflight : Covers(remote, s)

IInv == TypeOK /\ AllSound /\ InStep

\* s with another entry for t.
Put(s, t, e) == [s EXCEPT !.queue[t] = e]

LEMMA PutIs ==
  ASSUME NEW s \in StateFile, NEW t \in Tents, NEW e \in Entry
  PROVE  /\ Put(s, t, e) \in StateFile
         /\ Put(s, t, e).cursor = s.cursor
         /\ Put(s, t, e).queue[t] = e
         /\ \A u \in Tents : u # t => Put(s, t, e).queue[u] = s.queue[u]
<1>1. s.queue \in [Tents -> Entry] /\ s.cursor \in Tents
  BY DEF StateFile
<1>2. Put(s, t, e) = [cursor |-> s.cursor, queue |-> [s.queue EXCEPT ![t] = e]]
  BY DEF Put, StateFile
<1> QED
  BY <1>1, <1>2 DEF StateFile

\* A state file is its cursor and its queue.
LEMMA EntryFields ==
  ASSUME NEW s \in StateFile, NEW t \in Tents
  PROVE  /\ s.queue[t] \in Entry
         /\ s.queue[t].status \in {"absent", "pending", "delivered", "dead_letter"}
         /\ s.queue[t].next \in Nat /\ s.queue[t].tries \in Nat
         /\ Total[t] \in Nat \ {0}
  BY MonitorAssumption DEF StateFile, Entry

LEMMA ProbedIs ==
  ASSUME NEW s \in StateFile, NEW shown \in SUBSET Tents
  PROVE  /\ Probed(s, shown) \in StateFile
         /\ \A t \in Tents :
              \/ Probed(s, shown).queue[t] = s.queue[t]
              \/ /\ s.queue[t].status = "absent"
                 /\ Probed(s, shown).queue[t].status = "pending"
                 /\ Probed(s, shown).queue[t].next = s.queue[t].next
<1>1. s.cursor \in Tents /\ s.queue \in [Tents -> Entry]
  BY DEF StateFile
<1>2. NextCursor(s.cursor) \in Tents
  BY <1>1, MonitorAssumption DEF NextCursor, Tents
<1> DEFINE new(t) == IF t \in Batch(s.cursor) \cap shown /\ s.queue[t].status = "absent"
                     THEN [s.queue[t] EXCEPT !.status = "pending"] ELSE s.queue[t]
<1>3. ASSUME NEW t \in Tents
      PROVE  /\ new(t) \in Entry
             /\ \/ new(t) = s.queue[t]
                \/ /\ s.queue[t].status = "absent" /\ new(t).status = "pending"
                   /\ new(t).next = s.queue[t].next
  <2>1. s.queue[t] \in Entry
    BY <1>1
  <2> QED
    BY <2>1 DEF Entry
<1>4. Probed(s, shown) = [cursor |-> NextCursor(s.cursor), queue |-> [t \in Tents |-> new(t)]]
  BY DEF Probed
<1> HIDE DEF new
<1>5. Probed(s, shown).queue = [t \in Tents |-> new(t)]
  BY <1>4
<1>6. Probed(s, shown) \in StateFile
  BY <1>2, <1>3, <1>4 DEF StateFile
<1> QED
  BY <1>3, <1>5, <1>6

\* What acceptance of part n of t changes.
LEMMA AcceptIs ==
  ASSUME TypeOK, AllSound, NEW t \in Pending(local), Accept(t)
  PROVE  /\ t \in Tents /\ local.queue[t].status = "pending"
         /\ local.queue[t].next \in 0..(Total[t] - 1)
         /\ accepted' = [accepted EXCEPT ![t][local.queue[t].next] =
                           accepted[t][local.queue[t].next] + 1]
<1>1. t \in Tents /\ local.queue[t].status = "pending"
  BY DEF Pending
<1>2. local \in StateFile /\ local \in Known
  BY DEF TypeOK, Known
<1>3. local.queue[t].next \in Nat /\ Total[t] \in Nat /\ local.queue[t].next < Total[t]
  BY <1>1, <1>2, EntryFields DEF AllSound, Bounded
<1> QED
  BY <1>1, <1>3 DEF Accept

-----------------------------------------------------------------------------
(* Types *)

LEMMA AcceptedType ==
  ASSUME TypeOK, AllSound, NEW t \in Pending(local), Accept(t)
  PROVE  /\ DOMAIN accepted' = Tents
         /\ \A u \in Tents : accepted'[u] \in [0..(Total[u] - 1) -> Nat]
<1>1. /\ t \in Tents /\ local.queue[t].next \in 0..(Total[t] - 1)
      /\ accepted' = [accepted EXCEPT ![t][local.queue[t].next] =
                        accepted[t][local.queue[t].next] + 1]
  BY AcceptIs
<1>2. DOMAIN accepted = Tents /\ \A u \in Tents : accepted[u] \in [0..(Total[u] - 1) -> Nat]
  BY DEF TypeOK
<1> DEFINE n == local.queue[t].next
<1>3. accepted'[t] = [accepted[t] EXCEPT ![n] = accepted[t][n] + 1]
  BY <1>1, <1>2
<1>4. \A u \in Tents : u # t => accepted'[u] = accepted[u]
  BY <1>1, <1>2
<1>5. accepted'[t] \in [0..(Total[t] - 1) -> Nat]
  <2>1. accepted[t] \in [0..(Total[t] - 1) -> Nat] /\ n \in 0..(Total[t] - 1)
    BY <1>1, <1>2
  <2> HIDE DEF n
  <2>2. accepted[t][n] \in Nat
    BY <2>1
  <2>3. accepted[t][n] + 1 \in Nat
    BY <2>2
  <2> QED
    BY <1>3, <2>1, <2>3
<1> QED
  BY <1>1, <1>2, <1>4, <1>5

\* The entries that delivery writes.
LEMMA DeliveryEntries ==
  ASSUME NEW s \in StateFile, NEW t \in Tents
  PROVE  /\ Advanced(s.queue[t], t) \in Entry
         /\ [s.queue[t] EXCEPT !.tries = @ + 1] \in Entry
         /\ [s.queue[t] EXCEPT !.tries = @ + 1].status = s.queue[t].status
         /\ [s.queue[t] EXCEPT !.tries = @ + 1].next = s.queue[t].next
         /\ [s.queue[t] EXCEPT !.status = "dead_letter"] \in Entry
         /\ [s.queue[t] EXCEPT !.status = "dead_letter"].status = "dead_letter"
         /\ [s.queue[t] EXCEPT !.status = "dead_letter"].next = s.queue[t].next
         /\ [status |-> "pending", next |-> s.queue[t].next, tries |-> 0] \in Entry
<1>1. s.queue[t] \in Entry /\ s.queue[t].next \in Nat
  BY EntryFields
<1> QED
  BY <1>1 DEF Entry, Advanced

\* What a step writes: the state files it leaves behind are known ones, or one known
\* file in which one entry was changed as the code changes it.
SentPart(t) ==
  /\ t \in Pending(local) /\ Accept(t)
  /\ local' = Put(local, t, Advanced(local.queue[t], t))
  /\ pc = "deliver" /\ pc' = "checkpoint"
  /\ UNCHANGED <<remote, inflight, fresh, visible, faults>>

FailedPart(t) ==
  /\ t \in Pending(local)
  /\ \/ local' = Put(local, t, [local.queue[t] EXCEPT !.tries = @ + 1])
     \/ local' = Put(local, t, [local.queue[t] EXCEPT !.status = "dead_letter"])
  /\ pc = "deliver" /\ pc' \in {"checkpoint", "last_checkpoint"}
  /\ \/ UNCHANGED <<faults, accepted>>
     \/ faults < MaxFaults /\ faults' = faults + 1 /\ Accept(t)
  /\ UNCHANGED <<remote, inflight, fresh, visible>>

LEMMA SendIs ==
  ASSUME TypeOK, NEW t \in Tents, Send(t)
  PROVE  SentPart(t)
<1>1. [local EXCEPT !.queue[t] = Advanced(@, t)] = Put(local, t, Advanced(local.queue[t], t))
  BY DEF Put, TypeOK, StateFile
<1> QED
  BY <1>1 DEF Send, SentPart

LEMMA SendFailsIs ==
  ASSUME TypeOK, NEW t \in Tents, SendFails(t)
  PROVE  FailedPart(t)
<1>1. local.queue \in [Tents -> Entry]
  BY DEF TypeOK, StateFile
<1>2. [local EXCEPT !.queue[t].tries = @ + 1]
        = Put(local, t, [local.queue[t] EXCEPT !.tries = @ + 1])
  BY <1>1 DEF Put, TypeOK, StateFile
<1>3. [local EXCEPT !.queue[t].status = "dead_letter"]
        = Put(local, t, [local.queue[t] EXCEPT !.status = "dead_letter"])
  BY <1>1 DEF Put, TypeOK, StateFile
<1> QED
  BY <1>2, <1>3, Zenon DEF SendFails, FailedPart

\* An operator's requeue on main.
Requeued(t) ==
  /\ remote.queue[t].status = "dead_letter"
  /\ remote' = Put(remote, t, [status |-> "pending", next |-> remote.queue[t].next,
                               tries |-> 0])

LEMMA ForeignPushIs ==
  ASSUME TypeOK, ForeignPush
  PROVE  /\ faults < MaxFaults /\ faults' = faults + 1
         /\ remote' = remote \/ \E t \in Tents : Requeued(t)
         /\ inflight' = {} /\ fresh' = FALSE
         /\ UNCHANGED <<local, pc, visible, accepted>>
<1>1. ASSUME NEW t \in Tents
      PROVE  [remote EXCEPT !.queue[t] = [status |-> "pending", next |-> @.next, tries |-> 0]]
             = Put(remote, t, [status |-> "pending", next |-> remote.queue[t].next, tries |-> 0])
  BY DEF Put, TypeOK, StateFile
<1>2. remote' = remote \/ \E t \in Tents : Requeued(t)
  BY <1>1, Zenon DEF ForeignPush, Requeued
<1> QED
  BY <1>2 DEF ForeignPush

LEMMA TypeNext ==
  ASSUME TypeOK, AllSound, Next
  PROVE  TypeOK'
<1> USE DEF TypeOK
<1> USE MonitorAssumption
<1>1. CASE Dispatch
  BY <1>1 DEF Dispatch
<1>2. CASE Probe
  <2>1. Probed(local, visible) \in StateFile
    BY ProbedIs
  <2> QED
    BY <1>2, <2>1 DEF Probe
<1>3. CASE JobEnds
  BY <1>3 DEF JobEnds
<1>4. CASE Checkpointed
  BY <1>4 DEF Checkpointed
<1>5. CASE Refused
  BY <1>5 DEF Refused
<1>6. ASSUME NEW t \in Tents, Send(t)
      PROVE  TypeOK'
  <2>1. SentPart(t)
    BY <1>6, SendIs
  <2>2. local' \in StateFile
    BY <2>1, PutIs, DeliveryEntries DEF SentPart
  <2>3. DOMAIN accepted' = Tents /\ \A u \in Tents : accepted'[u] \in [0..(Total[u] - 1) -> Nat]
    BY <2>1, AcceptedType DEF SentPart
  <2> QED
    BY <2>1, <2>2, <2>3 DEF SentPart
<1>7. ASSUME NEW t \in Tents, SendFails(t)
      PROVE  TypeOK'
  <2>1. FailedPart(t)
    BY <1>7, SendFailsIs
  <2>2. local' \in StateFile
    <3> DEFINE e == local.queue[t]
    <3>1. [e EXCEPT !.tries = @ + 1] \in Entry /\ [e EXCEPT !.status = "dead_letter"] \in Entry
      BY DeliveryEntries
    <3>2. \A f \in Entry : Put(local, t, f) \in StateFile
      BY PutIs
    <3>3. \/ local' = Put(local, t, [e EXCEPT !.tries = @ + 1])
          \/ local' = Put(local, t, [e EXCEPT !.status = "dead_letter"])
      BY <2>1, Zenon DEF FailedPart
    <3> QED
      BY <3>1, <3>2, <3>3, Zenon
  <2>3. /\ faults' \in 0..MaxFaults /\ DOMAIN accepted' = Tents
        /\ \A u \in Tents : accepted'[u] \in [0..(Total[u] - 1) -> Nat]
    <3>1. CASE UNCHANGED <<faults, accepted>>
      BY <3>1
    <3>2. CASE faults < MaxFaults /\ faults' = faults + 1 /\ Accept(t)
      <4>1. t \in Pending(local)
        BY <2>1 DEF FailedPart
      <4>2. faults' \in 0..MaxFaults
        BY <3>2
      <4> QED
        BY <3>2, <4>1, <4>2, AcceptedType
    <3> QED
      BY <2>1, <3>1, <3>2 DEF FailedPart
  <2>4. /\ pc' \in {"checkpoint", "last_checkpoint"}
        /\ UNCHANGED <<remote, inflight, fresh, visible>>
    BY <2>1 DEF FailedPart
  <2> QED
    BY <2>2, <2>3, <2>4
<1>8. CASE CheckpointFails
  BY <1>8 DEF CheckpointFails
<1>9. CASE JobDies
  <2>1. pc' = "off" /\ faults' \in 0..MaxFaults /\ UNCHANGED <<remote, inflight, local, fresh, visible>>
    BY <1>9 DEF JobDies
  <2>2. DOMAIN accepted' = Tents /\ \A u \in Tents : accepted'[u] \in [0..(Total[u] - 1) -> Nat]
    BY <1>9, AcceptedType DEF JobDies
  <2> QED
    BY <2>1, <2>2
<1>10. CASE ForeignPush
  <2>1. ASSUME NEW t \in Tents, Requeued(t)
        PROVE  remote' \in StateFile
    BY <2>1, PutIs, DeliveryEntries DEF Requeued
  <2>2. remote' \in StateFile
    BY <1>10, <2>1, ForeignPushIs
  <2>3. faults' \in 0..MaxFaults /\ inflight' = {} /\ fresh' = FALSE
    <3>1. faults < MaxFaults /\ faults' = faults + 1 /\ inflight' = {} /\ fresh' = FALSE
      BY <1>10, ForeignPushIs, Zenon
    <3> QED
      BY <3>1
  <2>4. UNCHANGED <<local, pc, visible, accepted>>
    BY <1>10, ForeignPushIs
  <2> QED
    BY <2>2, <2>3, <2>4
<1>11. ASSUME NEW s \in inflight, Land(s)
       PROVE  TypeOK'
  BY <1>11 DEF Land
<1>12. ASSUME NEW t \in Tents, Appears(t)
       PROVE  TypeOK'
  BY <1>12 DEF Appears
<1> QED
  BY <1>1, <1>2, <1>3, <1>4, <1>5, <1>6, <1>7, <1>8, <1>9, <1>10, <1>11, <1>12
     DEF Next, Workflow, Deliver

-----------------------------------------------------------------------------
(* Nothing main counts as sent was not accepted *)

\* Acceptances are never taken back.
LEMMA AcceptedGrows ==
  ASSUME TypeOK, AllSound, Next
  PROVE  \A t \in Tents : \A p \in 0..(Total[t] - 1) :
           accepted[t][p] > 0 => accepted'[t][p] > 0
<1>1. ASSUME NEW u \in Pending(local), Accept(u),
             NEW t \in Tents, NEW p \in 0..(Total[t] - 1), accepted[t][p] > 0
      PROVE  accepted'[t][p] > 0
  <2> DEFINE n == local.queue[u].next
  <2>1. /\ u \in Tents /\ n \in 0..(Total[u] - 1)
        /\ accepted' = [accepted EXCEPT ![u][n] = accepted[u][n] + 1]
    BY <1>1, AcceptIs
  <2> HIDE DEF n
  <2>2. DOMAIN accepted = Tents /\ accepted[u] \in [0..(Total[u] - 1) -> Nat]
    BY <2>1 DEF TypeOK
  <2>3. accepted[u][n] \in Nat
    BY <2>1, <2>2
  <2>4. CASE t = u /\ p = n
    <3>1. accepted'[t][p] = accepted[u][n] + 1
      BY <2>1, <2>2, <2>4
    <3> QED
      BY <2>3, <3>1
  <2>5. CASE t # u \/ p # n
    BY <1>1, <2>1, <2>2, <2>5
  <2> QED
    BY <2>4, <2>5
<1>2. Workflow => accepted' = accepted
  BY DEF Workflow, Dispatch, Probe, JobEnds, Checkpointed, Refused
<1>3. ASSUME NEW t \in Tents, Send(t)
      PROVE  t \in Pending(local) /\ Accept(t)
  BY <1>3 DEF Send
<1>4. \A t \in Tents : /\ Appears(t) => accepted' = accepted
                       /\ SendFails(t) => \/ accepted' = accepted
                                          \/ t \in Pending(local) /\ Accept(t)
  BY DEF SendFails, Appears
<1>5. CheckpointFails \/ ForeignPush \/ (\E s \in inflight : Land(s)) => accepted' = accepted
  BY DEF CheckpointFails, ForeignPush, Land
<1>6. JobDies => accepted' = accepted \/ \E u \in Pending(local) : Accept(u)
  BY DEF JobDies
<1>7. accepted' = accepted \/ \E u \in Pending(local) : Accept(u)
  BY <1>2, <1>3, <1>4, <1>5, <1>6 DEF Next, Deliver
<1> QED
  BY <1>1, <1>7

LEMMA SoundKept ==
  ASSUME TypeOK, AllSound, Next, NEW s, Sound(s)
  PROVE  Sound(s)'
<1>1. \A t \in Tents : \A p \in 0..(Total[t] - 1) :
        (p < s.queue[t].next \/ s.queue[t].status = "delivered") => accepted'[t][p] > 0
  BY AcceptedGrows DEF Sound
<1> QED
  BY <1>1 DEF Sound

\* A file in which one entry was changed is as good as that entry.
LEMMA PutGood ==
  ASSUME NEW s \in StateFile, Bounded(s), Sound(s)', NEW t \in Tents, NEW e \in Entry,
         e.status # "delivered" => e.next < Total[t],
         \A p \in 0..(Total[t] - 1) :
           (p < e.next \/ e.status = "delivered") => accepted'[t][p] > 0
  PROVE  LET r == Put(s, t, e)
         IN  Bounded(r) /\ \A u \in Tents : \A p \in 0..(Total[u] - 1) :
               (p < r.queue[u].next \/ r.queue[u].status = "delivered") => accepted'[u][p] > 0
<1> DEFINE r == Put(s, t, e)
<1>1. r.queue[t] = e /\ \A u \in Tents : u # t => r.queue[u] = s.queue[u]
  BY PutIs
<1> HIDE DEF r
<1>2. Bounded(r)
  BY <1>1 DEF Bounded
<1>3. ASSUME NEW u \in Tents, NEW p \in 0..(Total[u] - 1),
             p < r.queue[u].next \/ r.queue[u].status = "delivered"
      PROVE  accepted'[u][p] > 0
  <2>1. CASE u = t
    BY <1>1, <1>3, <2>1
  <2>2. CASE u # t
    BY <1>1, <1>3, <2>2 DEF Sound
  <2> QED
    BY <2>1, <2>2
<1> QED
  BY <1>2, <1>3 DEF r

\* s is bounded, and sound once the step is over.
SoundNext(s) ==
  /\ Bounded(s)
  /\ \A t \in Tents : \A p \in 0..(Total[t] - 1) :
       (p < s.queue[t].next \/ s.queue[t].status = "delivered") => accepted'[t][p] > 0

LEMMA KnownSoundNext ==
  ASSUME TypeOK, AllSound, Next
  PROVE  \A s \in Known : SoundNext(s) /\ s \in StateFile
<1> TAKE s \in Known
<1>1. Bounded(s) /\ Sound(s) /\ s \in StateFile
  BY DEF AllSound, TypeOK, Known
<1>2. Sound(s)'
  BY <1>1, SoundKept
<1> QED
  BY <1>1, <1>2 DEF SoundNext, Sound

LEMMA PutSoundNext ==
  ASSUME NEW s \in StateFile, SoundNext(s), NEW t \in Tents, NEW e \in Entry,
         e.status # "delivered" => e.next < Total[t],
         \A p \in 0..(Total[t] - 1) :
           (p < e.next \/ e.status = "delivered") => accepted'[t][p] > 0
  PROVE  SoundNext(Put(s, t, e))
  BY PutGood DEF SoundNext, Sound

LEMMA SentSoundNext ==
  ASSUME TypeOK, AllSound, Next, NEW t \in Tents, SentPart(t)
  PROVE  SoundNext(local')
<1> DEFINE n == local.queue[t].next
           e == Advanced(local.queue[t], t)
<1>1. /\ n \in 0..(Total[t] - 1) /\ accepted' = [accepted EXCEPT ![t][n] = accepted[t][n] + 1]
  BY AcceptIs DEF SentPart
<1>2. local \in StateFile /\ SoundNext(local) /\ Total[t] \in Nat
  BY KnownSoundNext, MonitorAssumption DEF Known
<1>3. e \in Entry /\ local' = Put(local, t, e)
  BY <1>2, DeliveryEntries DEF SentPart
<1>4. e.next = n + 1 /\ e.status = IF n + 1 = Total[t] THEN "delivered" ELSE "pending"
  BY DEF Advanced
<1>5. accepted'[t][n] > 0
  <2>1. DOMAIN accepted = Tents /\ accepted[t] \in [0..(Total[t] - 1) -> Nat]
    BY DEF TypeOK
  <2> HIDE DEF n
  <2>2. accepted[t][n] \in Nat
    BY <1>1, <2>1
  <2>3. accepted'[t][n] = accepted[t][n] + 1
    BY <1>1, <2>1
  <2> QED
    BY <2>2, <2>3
<1>6. \A p \in 0..(Total[t] - 1) : p < n => accepted'[t][p] > 0
  BY <1>2 DEF SoundNext
<1> HIDE DEF n, e
<1>7. e.status # "delivered" => e.next < Total[t]
  BY <1>1, <1>2, <1>4
<1>8. \A p \in 0..(Total[t] - 1) :
        (p < e.next \/ e.status = "delivered") => accepted'[t][p] > 0
  BY <1>1, <1>2, <1>4, <1>5, <1>6
<1> QED
  BY <1>2, <1>3, <1>7, <1>8, PutSoundNext

LEMMA FailedSoundNext ==
  ASSUME TypeOK, AllSound, Next, NEW t \in Tents, FailedPart(t)
  PROVE  SoundNext(local')
<1> DEFINE o == local.queue[t]
           tried == [o EXCEPT !.tries = @ + 1]
           dead == [o EXCEPT !.status = "dead_letter"]
<1>1. local \in StateFile /\ SoundNext(local)
  BY KnownSoundNext DEF Known
<1>2. /\ tried \in Entry /\ tried.status = o.status /\ tried.next = o.next
      /\ dead \in Entry /\ dead.status = "dead_letter" /\ dead.next = o.next
  BY <1>1, DeliveryEntries
<1>3. o.status = "pending"
  BY DEF FailedPart, Pending
<1>4. o.next < Total[t] /\ \A p \in 0..(Total[t] - 1) : p < o.next => accepted'[t][p] > 0
  BY <1>1, <1>3 DEF SoundNext, Bounded
<1>5. local' = Put(local, t, tried) \/ local' = Put(local, t, dead)
  BY Zenon DEF FailedPart
<1> HIDE DEF o, tried, dead
<1>6. SoundNext(Put(local, t, tried))
  BY <1>1, <1>2, <1>3, <1>4, PutSoundNext
<1>7. SoundNext(Put(local, t, dead))
  BY <1>1, <1>2, <1>4, PutSoundNext
<1> QED
  BY <1>5, <1>6, <1>7, Zenon

LEMMA ProbedSoundNext ==
  ASSUME NEW s \in StateFile, SoundNext(s), NEW shown \in SUBSET Tents
  PROVE  SoundNext(Probed(s, shown))
<1> DEFINE r == Probed(s, shown)
<1>1. \A t \in Tents : \/ r.queue[t] = s.queue[t]
                       \/ /\ s.queue[t].status = "absent" /\ r.queue[t].status = "pending"
                          /\ r.queue[t].next = s.queue[t].next
  BY ProbedIs
<1> HIDE DEF r
<1>2. Bounded(r)
  BY <1>1 DEF SoundNext, Bounded
<1>3. \A t \in Tents : \A p \in 0..(Total[t] - 1) :
        (p < r.queue[t].next \/ r.queue[t].status = "delivered") => accepted'[t][p] > 0
  BY <1>1 DEF SoundNext
<1> QED
  BY <1>2, <1>3 DEF SoundNext, r

LEMMA RequeuedSoundNext ==
  ASSUME TypeOK, AllSound, Next, NEW t \in Tents, Requeued(t)
  PROVE  SoundNext(remote')
<1> DEFINE e == [status |-> "pending", next |-> remote.queue[t].next, tries |-> 0]
<1>1. remote \in StateFile /\ SoundNext(remote)
  BY KnownSoundNext DEF Known
<1>2. e \in Entry /\ remote' = Put(remote, t, e) /\ remote.queue[t].status = "dead_letter"
  BY <1>1, DeliveryEntries DEF Requeued
<1>3. e.status = "pending" /\ e.next = remote.queue[t].next
  OBVIOUS
<1>4. /\ remote.queue[t].next < Total[t]
      /\ \A p \in 0..(Total[t] - 1) : p < remote.queue[t].next => accepted'[t][p] > 0
  BY <1>1, <1>2 DEF SoundNext, Bounded
<1> HIDE DEF e
<1> QED
  BY <1>1, <1>2, <1>3, <1>4, PutSoundNext

LEMMA AllSoundNext ==
  ASSUME TypeOK, AllSound, Next
  PROVE  AllSound'
<1> SUFFICES ASSUME NEW s \in Known'
             PROVE  SoundNext(s)
  BY DEF AllSound, SoundNext, Bounded, Sound
<1>0. \A r \in Known : SoundNext(r) /\ r \in StateFile
  BY KnownSoundNext
<1>1. Dispatch \/ JobEnds \/ Checkpointed \/ Refused => Known' \subseteq Known
  BY DEF Dispatch, JobEnds, Checkpointed, Refused, Known
<1>2. CASE Probe
  <2>1. SoundNext(Probed(local, visible))
    BY <1>0, ProbedSoundNext DEF Known, TypeOK
  <2>2. s \in Known \/ s = Probed(local, visible)
    BY <1>2 DEF Probe, Known
  <2> QED
    BY <1>0, <2>1, <2>2
<1>3. ASSUME NEW t \in Tents, Send(t)
      PROVE  SoundNext(s)
  <2>1. SentPart(t)
    BY <1>3, SendIs
  <2>2. s \in Known \/ s = local'
    BY <2>1 DEF SentPart, Known
  <2> QED
    BY <1>0, <2>1, <2>2, SentSoundNext
<1>4. ASSUME NEW t \in Tents, SendFails(t)
      PROVE  SoundNext(s)
  <2>1. FailedPart(t)
    BY <1>4, SendFailsIs
  <2>2. s \in Known \/ s = local'
    BY <2>1 DEF FailedPart, Known
  <2> QED
    BY <1>0, <2>1, <2>2, FailedSoundNext
<1>5. CheckpointFails \/ JobDies => Known' \subseteq Known
  BY DEF CheckpointFails, JobDies, Known
<1>6. CASE ForeignPush
  <2>1. \A t \in Tents : Requeued(t) => SoundNext(remote')
    BY RequeuedSoundNext
  <2>2. remote' = remote \/ \E t \in Tents : Requeued(t)
    BY <1>6, ForeignPushIs
  <2>3. s \in Known \/ s = remote'
    BY <1>6 DEF ForeignPush, Known
  <2>4. remote \in Known
    BY DEF Known
  <2> QED
    BY <1>0, <2>1, <2>2, <2>3, <2>4, Zenon
<1>7. \A r \in inflight : Land(r) => Known' \subseteq Known
  BY DEF Land, Known
<1>8. \A t \in Tents : Appears(t) => Known' \subseteq Known
  BY DEF Appears, Known
<1> QED
  BY <1>0, <1>1, <1>2, <1>3, <1>4, <1>5, <1>6, <1>7, <1>8 DEF Next, Workflow, Deliver

-----------------------------------------------------------------------------
(* Nothing is sent that main does not know *)

LEMMA CoversTrans == \A a, b, c : Covers(a, b) /\ Covers(b, c) => Covers(a, c)
  BY DEF Covers

LEMMA CoversRefl == \A a : Covers(a, a)
  BY DEF Covers

\* Only probing adds events, and nothing removes them.
LEMMA CoversProbed ==
  ASSUME NEW s \in StateFile, NEW shown \in SUBSET Tents
  PROVE  Covers(s, Probed(s, shown))
  BY ProbedIs DEF Covers

LEMMA CoversPut ==
  ASSUME NEW s \in StateFile, NEW t \in Tents, NEW e \in Entry,
         e.status # "absent", s.queue[t].status # "absent"
  PROVE  Covers(s, Put(s, t, e)) /\ Covers(Put(s, t, e), s)
  BY PutIs DEF Covers

LEMMA InStepNext ==
  ASSUME TypeOK, InStep, Next
  PROVE  InStep'
<1>0. remote \in StateFile /\ local \in StateFile /\ visible \in SUBSET Tents
  BY DEF TypeOK
<1>1. CASE Dispatch
  BY <1>1 DEF Dispatch, InStep, Covers
<1>2. CASE Probe
  <2>1. Covers(local, Probed(local, visible))
    BY <1>0, CoversProbed
  <2> QED
    BY <1>2, <2>1 DEF Probe, InStep, Covers
<1>3. CASE JobEnds
  BY <1>3 DEF JobEnds, InStep, Covers
<1>4. CASE Checkpointed
  BY <1>4 DEF Checkpointed, InStep, Covers
<1>5. CASE Refused
  BY <1>5 DEF Refused, InStep, Covers
<1>6. ASSUME NEW t \in Tents,
             pc = "deliver", t \in Pending(local),
             pc' \in {"checkpoint", "last_checkpoint"},
             UNCHANGED <<remote, inflight, fresh>>,
             NEW e \in Entry, e.status # "absent", local' = Put(local, t, e)
      PROVE  InStep'
  <2>1. Covers(local, local')
    BY <1>0, <1>6, CoversPut DEF Pending
  <2> QED
    BY <1>6, <2>1 DEF InStep, Covers
<1>7. ASSUME NEW t \in Tents, Send(t)
      PROVE  InStep'
  <2>1. Advanced(local.queue[t], t) \in Entry /\ Advanced(local.queue[t], t).status # "absent"
    BY <1>0, DeliveryEntries DEF Advanced
  <2>2. SentPart(t)
    BY <1>7, SendIs
  <2> QED
    BY <1>6, <2>1, <2>2 DEF SentPart
<1>8. ASSUME NEW t \in Tents, SendFails(t)
      PROVE  InStep'
  <2> DEFINE tried == [local.queue[t] EXCEPT !.tries = @ + 1]
             dead == [local.queue[t] EXCEPT !.status = "dead_letter"]
  <2>1. FailedPart(t)
    BY <1>8, SendFailsIs
  <2>2. local.queue[t].status = "pending"
    BY <2>1 DEF FailedPart, Pending
  <2>3. /\ tried \in Entry /\ tried.status = "pending"
        /\ dead \in Entry /\ dead.status = "dead_letter"
    BY <1>0, <2>2, DeliveryEntries
  <2>4. local' = Put(local, t, tried) \/ local' = Put(local, t, dead)
    BY <2>1, Zenon DEF FailedPart
  <2>5. /\ pc = "deliver" /\ t \in Pending(local)
        /\ pc' \in {"checkpoint", "last_checkpoint"}
        /\ UNCHANGED <<remote, inflight, fresh>>
    BY <2>1 DEF FailedPart
  <2> HIDE DEF tried, dead
  <2>6. CASE local' = Put(local, t, tried)
    BY <1>6, <2>3, <2>5, <2>6
  <2>7. CASE local' = Put(local, t, dead)
    BY <1>6, <2>3, <2>5, <2>7
  <2> QED
    BY <2>4, <2>6, <2>7
<1>9. CASE CheckpointFails
  BY <1>9, CoversRefl DEF CheckpointFails, InStep
<1>10. CASE JobDies
  <2>1. pc' = "off" /\ remote' = remote /\ inflight' = inflight
    BY <1>10 DEF JobDies
  <2> QED
    BY <2>1 DEF InStep, Covers
<1>11. CASE ForeignPush
  <2>1. Covers(remote, remote')
    <3>1. ASSUME NEW t \in Tents, Requeued(t)
          PROVE  Covers(remote, remote')
      <4> DEFINE e == [status |-> "pending", next |-> remote.queue[t].next, tries |-> 0]
      <4>1. e \in Entry /\ e.status # "absent"
        BY <1>0, DeliveryEntries
      <4>2. remote' = Put(remote, t, e) /\ remote.queue[t].status # "absent"
        BY <3>1 DEF Requeued
      <4> HIDE DEF e
      <4> QED
        BY <1>0, <4>1, <4>2, CoversPut
    <3> QED
      BY <1>11, <3>1, ForeignPushIs, CoversRefl, Zenon
  <2>2. inflight' = {} /\ fresh' = FALSE /\ pc' = pc /\ local' = local
    BY <1>11 DEF ForeignPush
  <2>3. pc = "deliver" => Covers(local, remote')
    BY <2>1, CoversTrans, Zenon DEF InStep
  <2>4. pc' = "deliver" => Covers(local', remote')
    BY <2>2, <2>3
  <2> QED
    BY <2>2, <2>4 DEF InStep, Covers
<1>12. ASSUME NEW s \in inflight, Land(s)
       PROVE  InStep'
  <2>1. remote' = s /\ inflight' = {} /\ fresh' = FALSE /\ pc' = pc /\ local' = local
    BY <1>12 DEF Land
  <2>2. Covers(remote, s)
    BY DEF InStep
  <2>3. pc = "deliver" => Covers(local, s)
    BY <2>2, CoversTrans, Zenon DEF InStep
  <2>4. pc' = "deliver" => Covers(local', remote')
    BY <2>1, <2>3
  <2> QED
    BY <2>1, <2>4 DEF InStep, Covers
<1>13. ASSUME NEW t \in Tents, Appears(t)
       PROVE  InStep'
  BY <1>13 DEF Appears, InStep, Covers
<1> QED
  BY <1>1, <1>2, <1>3, <1>4, <1>5, <1>7, <1>8, <1>9, <1>10, <1>11, <1>12, <1>13
     DEF Next, Workflow, Deliver

-----------------------------------------------------------------------------
(* Theorems *)

LEMMA InitIInv == Init => IInv
<1> SUFFICES ASSUME Init
             PROVE  IInv
  OBVIOUS
<1> USE MonitorAssumption DEF Init
<1>1. 1 \in Tents /\ \A t \in Tents : Total[t] \in Nat \ {0}
  BY DEF Tents
<1>2. NewState \in StateFile
  BY <1>1 DEF NewState, StateFile, Entry
<1>3. DOMAIN accepted = Tents /\ \A t \in Tents : accepted[t] \in [0..(Total[t] - 1) -> Nat]
  BY <1>1
<1>4. TypeOK
  <2>1. faults \in 0..MaxFaults /\ fresh \in BOOLEAN /\ pc = "off" /\ visible = {} /\ inflight = {}
    <3>1. MaxFaults \in Nat /\ faults = 0
      BY Zenon
    <3>2. faults \in 0..MaxFaults
      BY <3>1
    <3>3. fresh \in BOOLEAN /\ pc = "off" /\ visible = {} /\ inflight = {}
      BY Zenon
    <3> QED
      BY <3>2, <3>3, Zenon
  <2>2. remote \in StateFile /\ local \in StateFile
    BY <1>2
  <2>3. visible \in SUBSET Tents /\ inflight \subseteq StateFile
    BY <2>1
  <2> QED
    BY <1>3, <2>1, <2>2, <2>3, Zenon DEF TypeOK
<1>5. AllSound
  BY <1>1 DEF AllSound, Known, Bounded, Sound, NewState
<1>6. InStep
  BY DEF InStep
<1> QED
  BY <1>4, <1>5, <1>6 DEF IInv

LEMMA StutterIInv == IInv /\ UNCHANGED vars => IInv'
<1> SUFFICES ASSUME IInv, UNCHANGED vars
             PROVE  IInv'
  OBVIOUS
<1>0. /\ remote' = remote /\ inflight' = inflight /\ local' = local /\ fresh' = fresh
      /\ pc' = pc /\ visible' = visible /\ faults' = faults /\ accepted' = accepted
  BY DEF vars
<1>1. TypeOK'
  BY <1>0 DEF IInv, TypeOK
<1>2. AllSound'
  BY <1>0 DEF IInv, AllSound, Known, Bounded, Sound
<1>3. InStep'
  BY <1>0 DEF IInv, InStep, Covers
<1> QED
  BY <1>1, <1>2, <1>3 DEF IInv

LEMMA Inductive == IInv /\ [Next]_vars => IInv'
<1>1. IInv /\ Next => IInv'
  BY TypeNext, AllSoundNext, InStepNext DEF IInv
<1> QED
  BY <1>1, StutterIInv

\* The invariant the theorems below follow from: types, sound state files, and how the
\* runner's file, main and the pushes in flight hang together.
THEOREM AlwaysIInv == Spec => []IInv
  BY InitIInv, Inductive, PTL DEF Spec

\* monitor.yml: every state file is well formed, and the faults are counted (TypeOK).
THEOREM AlwaysTypeOK == Spec => []TypeOK
<1>1. IInv => TypeOK
  BY DEF IInv
<1> QED
  BY <1>1, AlwaysIInv, PTL

\* Through any number of crashes, late pushes and requeues, main counts no part as sent
\* that the provider did not accept (NothingSkipped).
THEOREM AlwaysNothingSkipped == Spec => []NothingSkipped
<1>1. IInv => NothingSkipped
  BY DEF IInv, AllSound, Known, Sound, NothingSkipped
<1> QED
  BY <1>1, AlwaysIInv, PTL

\* What is sent is known to main, and is the very part main names next unless main has
\* moved under the job (SentIsDurable).
THEOREM AlwaysSentIsDurable == Spec => SentIsDurable
<1> DEFINE Durable(t) ==
      accepted'[t] # accepted[t] =>
        /\ remote.queue[t].status # "absent"
        /\ fresh => /\ t \in Pending(remote)
                    /\ accepted'[t] = [accepted[t] EXCEPT ![remote.queue[t].next] = @ + 1]
<1>1. ASSUME IInv, [Next]_vars, NEW t \in Tents
      PROVE  Durable(t)
  <2>1. ASSUME NEW u \in Pending(local), Accept(u), pc = "deliver"
        PROVE  Durable(t)
    <3> DEFINE n == local.queue[u].next
    <3>1. /\ u \in Tents /\ local.queue[u].status = "pending"
          /\ accepted' = [accepted EXCEPT ![u][n] = accepted[u][n] + 1]
      BY <1>1, <2>1, AcceptIs DEF IInv
    <3>2. DOMAIN accepted = Tents
      BY <1>1 DEF IInv, TypeOK
    <3>3. t # u => accepted'[t] = accepted[t]
      BY <3>1, <3>2
    <3>4. accepted'[u] = [accepted[u] EXCEPT ![n] = accepted[u][n] + 1]
      BY <3>1, <3>2
    <3>5. remote.queue[u].status # "absent"
      BY <1>1, <2>1, <3>1 DEF IInv, InStep, Covers
    <3>6. fresh => remote = local
      BY <1>1, <2>1 DEF IInv, InStep
    <3> QED
      BY <2>1, <3>1, <3>3, <3>4, <3>5, <3>6
  <2>2. Workflow => accepted' = accepted
    BY DEF Workflow, Dispatch, Probe, JobEnds, Checkpointed, Refused
  <2>3. \A u \in Tents :
          /\ Appears(u) => accepted' = accepted
          /\ SendFails(u) => \/ accepted' = accepted
                             \/ u \in Pending(local) /\ Accept(u) /\ pc = "deliver"
    BY DEF SendFails, Appears
  <2>4. CheckpointFails \/ ForeignPush \/ (\E s \in inflight : Land(s)) => accepted' = accepted
    BY DEF CheckpointFails, ForeignPush, Land
  <2>5. JobDies => \/ accepted' = accepted
                   \/ pc = "deliver" /\ \E u \in Pending(local) : Accept(u)
    BY DEF JobDies
  <2>6. \A u \in Tents : Send(u) => u \in Pending(local) /\ Accept(u) /\ pc = "deliver"
    BY DEF Send
  <2>7. UNCHANGED vars => accepted' = accepted
    BY DEF vars
  <2>8. accepted' = accepted => Durable(t)
    OBVIOUS
  <2> HIDE DEF Durable
  <2> QED
    BY <1>1, <2>1, <2>2, <2>3, <2>4, <2>5, <2>6, <2>7, <2>8 DEF Next, Deliver
<1>2. IInv /\ [Next]_vars => [\A t \in Tents : Durable(t)]_vars
  BY <1>1
<1> QED
  BY <1>2, AlwaysIInv, PTL DEF Spec, SentIsDurable

-----------------------------------------------------------------------------
(* What can still be repeated *)

\* With the acceptances acc: what was repeated, the parts that were accepted, and
\* of these the ones a queue does not count as sent.
RepeatedOf(acc) ==
  UNION {UNION {{<<t, p, n>> : n \in 2..acc[t][p]} : p \in 0..(Total[t] - 1)} : t \in Tents}
PartsOf(acc) ==
  UNION {{<<t, p>> : p \in {q \in 0..(Total[t] - 1) : acc[t][q] > 0}} : t \in Tents}
AheadOf(acc, queue) == {part \in PartsOf(acc) : part[2] >= queue[part[1]].next}

\* What was repeated, and what would be if s were what the next job starts from.
LossOf(acc, queue) == Cardinality(RepeatedOf(acc)) + Cardinality(AheadOf(acc, queue))
Loss(s) == LossOf(accepted, s.queue)

\* A set is finite because every step adds one element at most.
Finite(acc) == IsFiniteSet(RepeatedOf(acc)) /\ IsFiniteSet(PartsOf(acc))

\* A checkpoint is due: the job has sent a part more than main knows of.
Saving == pc \in {"checkpoint", "last_checkpoint"}
Slack == IF Saving THEN 0 ELSE 1

\* No job can start from a file that loses more than the faults pay for; a push in
\* flight, and a main that moved under a job, have paid for that job's next part too.
Losses ==
  /\ pc = "off" => Loss(remote) <= faults
  /\ fresh /\ pc # "off" => Loss(local) <= faults
  /\ fresh /\ Saving => Loss(remote) <= faults + 1
  /\ \A s \in inflight : Loss(s) + Slack <= faults
  /\ ~fresh => inflight = {}
  /\ ~fresh /\ pc # "off" => Loss(remote) + Slack <= faults

LEMMA RepeatedMember ==
  \A acc, x : x \in RepeatedOf(acc) <=>
    \E t \in Tents : \E p \in 0..(Total[t] - 1) : \E n \in 2..acc[t][p] : x = <<t, p, n>>
  BY DEF RepeatedOf

LEMMA PartsMember ==
  \A acc, x : x \in PartsOf(acc) <=>
    \E t \in Tents : \E p \in 0..(Total[t] - 1) : acc[t][p] > 0 /\ x = <<t, p>>
  BY DEF PartsOf

\* acc2 is acc with part n of u accepted once more.
Once(acc, acc2, u, n) ==
  /\ u \in Tents /\ n \in 0..(Total[u] - 1)
  /\ \A t \in Tents : \A p \in 0..(Total[t] - 1) :
       /\ acc[t][p] \in Nat
       /\ acc2[t][p] = IF t = u /\ p = n THEN acc[t][p] + 1 ELSE acc[t][p]

LEMMA OnceParts ==
  ASSUME NEW acc, NEW acc2, NEW u, NEW n, Once(acc, acc2, u, n)
  PROVE  /\ PartsOf(acc2) = PartsOf(acc) \cup {<<u, n>>}
         /\ <<u, n>> \in PartsOf(acc) <=> acc[u][n] > 0
<1>1. ASSUME NEW x PROVE x \in PartsOf(acc2) <=> x \in PartsOf(acc) \cup {<<u, n>>}
  <2>1. x \in PartsOf(acc2) => x \in PartsOf(acc) \cup {<<u, n>>}
    <3> SUFFICES ASSUME NEW t \in Tents, NEW p \in 0..(Total[t] - 1),
                        acc2[t][p] > 0, x = <<t, p>>
                 PROVE  x \in PartsOf(acc) \cup {<<u, n>>}
      BY PartsMember
    <3> QED
      BY PartsMember DEF Once
  <2>2. x \in PartsOf(acc) => x \in PartsOf(acc2)
    <3> SUFFICES ASSUME NEW t \in Tents, NEW p \in 0..(Total[t] - 1),
                        acc[t][p] > 0, x = <<t, p>>
                 PROVE  x \in PartsOf(acc2)
      BY PartsMember
    <3>1. acc2[t][p] > 0
      BY DEF Once
    <3> QED
      BY <3>1, PartsMember
  <2>3. <<u, n>> \in PartsOf(acc2)
    <3>1. acc2[u][n] > 0 /\ u \in Tents /\ n \in 0..(Total[u] - 1)
      BY DEF Once
    <3> QED
      BY <3>1, PartsMember
  <2> QED
    BY <2>1, <2>2, <2>3
<1>2. <<u, n>> \in PartsOf(acc) <=> acc[u][n] > 0
  BY PartsMember DEF Once
<1> QED
  BY <1>1, <1>2

LEMMA OnceRepeated ==
  ASSUME NEW acc, NEW acc2, NEW u, NEW n, Once(acc, acc2, u, n)
  PROVE  /\ acc[u][n] = 0 => RepeatedOf(acc2) = RepeatedOf(acc)
         /\ acc[u][n] > 0 => /\ RepeatedOf(acc2) = RepeatedOf(acc) \cup {<<u, n, acc[u][n] + 1>>}
                             /\ <<u, n, acc[u][n] + 1>> \notin RepeatedOf(acc)
<1> DEFINE k == acc[u][n]
<1>0. k \in Nat /\ u \in Tents /\ n \in 0..(Total[u] - 1) /\ acc2[u][n] = k + 1
  BY DEF Once
<1>1. ASSUME NEW x, x \in RepeatedOf(acc) PROVE x \in RepeatedOf(acc2)
  <2> PICK t \in Tents : \E p \in 0..(Total[t] - 1) : \E m \in 2..acc[t][p] : x = <<t, p, m>>
    BY <1>1, RepeatedMember
  <2> PICK p \in 0..(Total[t] - 1) : \E m \in 2..acc[t][p] : x = <<t, p, m>>
    OBVIOUS
  <2> PICK m \in 2..acc[t][p] : x = <<t, p, m>>
    OBVIOUS
  <2>1. m \in 2..acc2[t][p]
    BY DEF Once
  <2> QED
    BY <2>1, RepeatedMember
<1>2. ASSUME NEW x, x \in RepeatedOf(acc2)
      PROVE  x \in RepeatedOf(acc) \/ (k > 0 /\ x = <<u, n, k + 1>>)
  <2> PICK t \in Tents : \E p \in 0..(Total[t] - 1) : \E m \in 2..acc2[t][p] : x = <<t, p, m>>
    BY <1>2, RepeatedMember
  <2> PICK p \in 0..(Total[t] - 1) : \E m \in 2..acc2[t][p] : x = <<t, p, m>>
    OBVIOUS
  <2> PICK m \in 2..acc2[t][p] : x = <<t, p, m>>
    OBVIOUS
  <2>1. CASE m \in 2..acc[t][p]
    BY <2>1, RepeatedMember
  <2>2. CASE m \notin 2..acc[t][p]
    <3>1. t = u /\ p = n
      BY <2>2 DEF Once
    <3>2. m = k + 1 /\ k > 0
      BY <1>0, <2>2, <3>1
    <3> QED
      BY <3>1, <3>2
  <2> QED
    BY <2>1, <2>2
<1>3. ASSUME k > 0 PROVE <<u, n, k + 1>> \in RepeatedOf(acc2)
  <2>1. k + 1 \in 2..acc2[u][n]
    BY <1>0, <1>3
  <2> QED
    BY <1>0, <2>1, RepeatedMember
<1>4. <<u, n, k + 1>> \notin RepeatedOf(acc)
  <2> SUFFICES ASSUME NEW t \in Tents, NEW p \in 0..(Total[t] - 1), NEW m \in 2..acc[t][p],
                      <<u, n, k + 1>> = <<t, p, m>>
               PROVE  FALSE
    BY RepeatedMember
  <2> QED
    BY <1>0
<1> HIDE DEF k
<1>5. k = 0 => RepeatedOf(acc2) = RepeatedOf(acc)
  BY <1>1, <1>2
<1>6. k > 0 => RepeatedOf(acc2) = RepeatedOf(acc) \cup {<<u, n, k + 1>>}
  BY <1>1, <1>2, <1>3
<1> QED
  BY <1>4, <1>5, <1>6 DEF k

\* A queue's cursors.
Cursors(queue) == \A t \in Tents : queue[t].next \in Nat

LEMMA LossNat ==
  ASSUME NEW acc, NEW queue, Finite(acc)
  PROVE  /\ IsFiniteSet(AheadOf(acc, queue))
         /\ Cardinality(AheadOf(acc, queue)) \in Nat
         /\ Cardinality(RepeatedOf(acc)) \in Nat
         /\ LossOf(acc, queue) \in Nat
         /\ Cardinality(RepeatedOf(acc)) <= LossOf(acc, queue)
<1>1. IsFiniteSet(AheadOf(acc, queue))
  BY FS_Subset DEF AheadOf, Finite
<1>2. Cardinality(AheadOf(acc, queue)) \in Nat /\ Cardinality(RepeatedOf(acc)) \in Nat
  BY <1>1, FS_CardinalityType DEF Finite
<1> QED
  BY <1>1, <1>2 DEF LossOf

LEMMA SameCursors ==
  ASSUME NEW acc, NEW queue, NEW queue2, \A t \in Tents : queue2[t].next = queue[t].next
  PROVE  LossOf(acc, queue2) = LossOf(acc, queue)
<1>1. \A x \in PartsOf(acc) : x[1] \in Tents
  BY PartsMember
<1>2. AheadOf(acc, queue2) = AheadOf(acc, queue)
  BY <1>1 DEF AheadOf
<1> QED
  BY <1>2 DEF LossOf

LEMMA OnceFinite ==
  ASSUME NEW acc, NEW acc2, NEW u, NEW n, Once(acc, acc2, u, n), Finite(acc)
  PROVE  Finite(acc2)
<1>1. IsFiniteSet(PartsOf(acc2))
  <2>1. /\ PartsOf(acc2) = PartsOf(acc) \cup {<<u, n>>}
        /\ <<u, n>> \in PartsOf(acc) <=> acc[u][n] > 0
    BY OnceParts
  <2> QED
    BY <2>1, FS_AddElement DEF Finite
<1>2. IsFiniteSet(RepeatedOf(acc2))
  <2>1. acc[u][n] \in Nat
    BY DEF Once
  <2>2. acc[u][n] = 0 \/ acc[u][n] > 0
    BY <2>1
  <2>3. /\ acc[u][n] = 0 => RepeatedOf(acc2) = RepeatedOf(acc)
        /\ acc[u][n] > 0 => /\ RepeatedOf(acc2) = RepeatedOf(acc) \cup {<<u, n, acc[u][n] + 1>>}
                            /\ <<u, n, acc[u][n] + 1>> \notin RepeatedOf(acc)
    BY OnceRepeated
  <2> QED
    BY <2>2, <2>3, FS_AddElement DEF Finite
<1> QED
  BY <1>1, <1>2 DEF Finite

\* What one acceptance adds to the repeated parts.
LEMMA OnceCount ==
  ASSUME NEW acc, NEW acc2, NEW u, NEW n, Once(acc, acc2, u, n), Finite(acc)
  PROVE  /\ acc[u][n] \in Nat
         /\ Cardinality(RepeatedOf(acc)) \in Nat
         /\ acc[u][n] = 0 => Cardinality(RepeatedOf(acc2)) = Cardinality(RepeatedOf(acc))
         /\ acc[u][n] > 0 => Cardinality(RepeatedOf(acc2)) = Cardinality(RepeatedOf(acc)) + 1
<1>1. acc[u][n] \in Nat
  BY DEF Once
<1>2. IsFiniteSet(RepeatedOf(acc))
  BY DEF Finite
<1>3. Cardinality(RepeatedOf(acc)) \in Nat
  BY <1>2, FS_CardinalityType
<1>4. ASSUME acc[u][n] > 0
      PROVE  Cardinality(RepeatedOf(acc2)) = Cardinality(RepeatedOf(acc)) + 1
  <2> DEFINE x == <<u, n, acc[u][n] + 1>>
  <2>1. RepeatedOf(acc2) = RepeatedOf(acc) \cup {x} /\ x \notin RepeatedOf(acc)
    BY <1>4, OnceRepeated
  <2> HIDE DEF x
  <2> QED
    BY <1>2, <2>1, FS_AddElement
<1>5. acc[u][n] = 0 => RepeatedOf(acc2) = RepeatedOf(acc)
  <2>1. /\ acc[u][n] = 0 => RepeatedOf(acc2) = RepeatedOf(acc)
        /\ acc[u][n] > 0 => /\ RepeatedOf(acc2) = RepeatedOf(acc) \cup {<<u, n, acc[u][n] + 1>>}
                            /\ <<u, n, acc[u][n] + 1>> \notin RepeatedOf(acc)
    BY OnceRepeated
  <2> QED
    BY <2>1
<1> QED
  BY <1>1, <1>3, <1>4, <1>5

\* An acceptance that a queue does not record costs it one part at most.
LEMMA OnceLoss ==
  ASSUME NEW acc, NEW acc2, NEW u, NEW n, Once(acc, acc2, u, n), Finite(acc), NEW queue
  PROVE  LossOf(acc2, queue) <= LossOf(acc, queue) + 1
<1> DEFINE ahead == AheadOf(acc, queue)
           ahead2 == AheadOf(acc2, queue)
<1>1. IsFiniteSet(ahead) /\ Cardinality(ahead) \in Nat
  BY LossNat
<1>2. /\ PartsOf(acc2) = PartsOf(acc) \cup {<<u, n>>}
      /\ <<u, n>> \in PartsOf(acc) <=> acc[u][n] > 0
  BY OnceParts
<1>3. ahead2 \subseteq ahead \cup {<<u, n>>}
  BY <1>2 DEF AheadOf
<1>4. Cardinality(ahead2) \in Nat /\ Cardinality(ahead2) <= Cardinality(ahead) + 1
  <2>1. /\ IsFiniteSet(ahead \cup {<<u, n>>})
        /\ \/ Cardinality(ahead \cup {<<u, n>>}) = Cardinality(ahead)
           \/ Cardinality(ahead \cup {<<u, n>>}) = Cardinality(ahead) + 1
    <3> HIDE DEF ahead
    <3> QED
      BY <1>1, FS_AddElement
  <2>2. IsFiniteSet(ahead2) /\ Cardinality(ahead2) <= Cardinality(ahead \cup {<<u, n>>})
    <3> HIDE DEF ahead, ahead2
    <3> QED
      BY <1>3, <2>1, FS_Subset
  <2>3. Cardinality(ahead2) \in Nat
    BY <2>2, FS_CardinalityType
  <2> HIDE DEF ahead, ahead2
  <2> QED
    BY <1>1, <2>1, <2>2, <2>3
<1>5. acc[u][n] > 0 => ahead2 = ahead
  <2>1. acc[u][n] > 0 => PartsOf(acc2) = PartsOf(acc)
    BY <1>2
  <2> QED
    BY <2>1 DEF AheadOf
<1>6. /\ LossOf(acc, queue) = Cardinality(RepeatedOf(acc)) + Cardinality(ahead)
      /\ LossOf(acc2, queue) = Cardinality(RepeatedOf(acc2)) + Cardinality(ahead2)
  BY DEF LossOf
<1> HIDE DEF ahead, ahead2
<1> QED
  BY <1>1, <1>4, <1>5, <1>6, OnceCount

\* One that it records costs it nothing: the part was ahead, or is new.
LEMMA OnceRecorded ==
  ASSUME NEW acc, NEW acc2, NEW u, NEW n, Once(acc, acc2, u, n), Finite(acc),
         NEW queue, Cursors(queue), NEW queue2,
         queue[u].next = n, queue2[u].next = n + 1,
         \A t \in Tents : t # u => queue2[t].next = queue[t].next
  PROVE  LossOf(acc2, queue2) = LossOf(acc, queue)
<1> DEFINE ahead == AheadOf(acc, queue)
           ahead2 == AheadOf(acc2, queue2)
<1>1. IsFiniteSet(ahead) /\ Cardinality(ahead) \in Nat
  BY LossNat
<1>2. /\ PartsOf(acc2) = PartsOf(acc) \cup {<<u, n>>}
      /\ <<u, n>> \in PartsOf(acc) <=> acc[u][n] > 0
  BY OnceParts
<1>3. u \in Tents /\ n \in Nat /\ acc[u][n] \in Nat
  BY DEF Once
<1>4. ahead2 = ahead \ {<<u, n>>}
  <2>1. ASSUME NEW x PROVE x \in ahead2 <=> x \in ahead \ {<<u, n>>}
    <3>1. CASE x \notin PartsOf(acc2)
      BY <1>2, <3>1 DEF AheadOf
    <3>2. CASE x \in PartsOf(acc2)
      <4>1. PICK t \in Tents : \E p \in 0..(Total[t] - 1) : x = <<t, p>>
        BY <3>2, PartsMember
      <4>2. PICK p \in 0..(Total[t] - 1) : x = <<t, p>>
        BY <4>1
      <4>3. x[1] = t /\ x[2] = p /\ p \in Nat
        BY <4>2
      <4>4. queue[t].next \in Nat
        BY DEF Cursors
      <4>5. x \in ahead2 <=> p >= queue2[t].next
        BY <3>2, <4>3 DEF AheadOf
      <4>6. x \in ahead <=> x \in PartsOf(acc) /\ p >= queue[t].next
        BY <4>3 DEF AheadOf
      <4> HIDE DEF ahead, ahead2
      <4>7. CASE t = u
        <5>1. x = <<u, n>> <=> p = n
          BY <4>2, <4>7
        <5>2. queue2[t].next = n + 1 /\ queue[t].next = n
          BY <4>7
        <5>3. p >= n + 1 <=> p >= n /\ p # n
          BY <1>3, <4>3
        <5> QED
          BY <1>2, <3>2, <4>5, <4>6, <5>1, <5>2, <5>3
      <4>8. CASE t # u
        <5>1. x # <<u, n>> /\ queue2[t].next = queue[t].next
          BY <4>2, <4>8
        <5> QED
          BY <1>2, <3>2, <4>5, <4>6, <5>1
      <4> QED
        BY <4>7, <4>8
    <3> QED
      BY <3>1, <3>2
  <2> HIDE DEF ahead, ahead2
  <2> QED
    BY <2>1
<1>5. <<u, n>> \in ahead <=> acc[u][n] > 0
  BY <1>2, <1>3 DEF AheadOf
<1>6. /\ LossOf(acc, queue) = Cardinality(RepeatedOf(acc)) + Cardinality(ahead)
      /\ LossOf(acc2, queue2) = Cardinality(RepeatedOf(acc2)) + Cardinality(ahead2)
  BY DEF LossOf
<1> HIDE DEF ahead, ahead2
<1>7. CASE acc[u][n] = 0
  <2>1. ahead2 = ahead
    BY <1>4, <1>5, <1>7
  <2> QED
    BY <1>6, <1>7, <2>1, OnceCount
<1>8. CASE acc[u][n] > 0
  <2>1. Cardinality(ahead2) = Cardinality(ahead) - 1
    BY <1>1, <1>4, <1>5, <1>8, FS_RemoveElement
  <2>2. /\ Cardinality(RepeatedOf(acc2)) = Cardinality(RepeatedOf(acc)) + 1
        /\ Cardinality(RepeatedOf(acc)) \in Nat
    BY <1>8, OnceCount
  <2> QED
    BY <1>1, <1>6, <2>1, <2>2
<1> QED
  BY <1>3, <1>7, <1>8

LEMMA AcceptOnce ==
  ASSUME TypeOK, AllSound, NEW t \in Pending(local), Accept(t)
  PROVE  Once(accepted, accepted', t, local.queue[t].next)
<1> DEFINE n == local.queue[t].next
<1>1. /\ t \in Tents /\ n \in 0..(Total[t] - 1)
      /\ accepted' = [accepted EXCEPT ![t][n] = accepted[t][n] + 1]
  BY AcceptIs
<1>2. DOMAIN accepted = Tents /\ \A u \in Tents : accepted[u] \in [0..(Total[u] - 1) -> Nat]
  BY DEF TypeOK
<1> HIDE DEF n
<1>3. accepted'[t] = [accepted[t] EXCEPT ![n] = accepted[t][n] + 1]
  BY <1>1, <1>2
<1>4. \A u \in Tents : u # t => accepted'[u] = accepted[u]
  BY <1>1, <1>2
<1>5. ASSUME NEW u \in Tents, NEW p \in 0..(Total[u] - 1)
      PROVE  /\ accepted[u][p] \in Nat
             /\ accepted'[u][p] = IF u = t /\ p = n THEN accepted[u][p] + 1 ELSE accepted[u][p]
  <2>1. accepted[u] \in [0..(Total[u] - 1) -> Nat]
    BY <1>2
  <2>2. CASE u = t
    BY <1>3, <2>1, <2>2
  <2>3. CASE u # t
    BY <1>4, <2>1, <2>3
  <2> QED
    BY <2>2, <2>3
<1> QED
  BY <1>1, <1>5 DEF Once, n

\* A part is accepted inside a delivery call, recorded or not.
LEMMA AcceptedNext ==
  ASSUME Next
  PROVE  \/ accepted' = accepted
         \/ pc = "deliver" /\ \E t \in Pending(local) : Accept(t)
<1>1. Workflow => accepted' = accepted
  BY DEF Workflow, Dispatch, Probe, JobEnds, Checkpointed, Refused
<1>2. \A t \in Tents :
        /\ Appears(t) => accepted' = accepted
        /\ SendFails(t) => \/ accepted' = accepted
                           \/ pc = "deliver" /\ t \in Pending(local) /\ Accept(t)
  BY DEF SendFails, Appears
<1>3. CheckpointFails \/ ForeignPush \/ (\E s \in inflight : Land(s)) => accepted' = accepted
  BY DEF CheckpointFails, ForeignPush, Land
<1>4. JobDies => \/ accepted' = accepted
                 \/ pc = "deliver" /\ \E t \in Pending(local) : Accept(t)
  BY DEF JobDies
<1>5. \A t \in Tents : Send(t) => pc = "deliver" /\ t \in Pending(local) /\ Accept(t)
  BY DEF Send
<1> QED
  BY <1>1, <1>2, <1>3, <1>4, <1>5, Zenon DEF Next, Deliver

LEMMA FiniteNext ==
  ASSUME TypeOK, AllSound, Finite(accepted), [Next]_vars
  PROVE  Finite(accepted)'
<1>1. CASE accepted' = accepted
  BY <1>1 DEF Finite, RepeatedOf, PartsOf
<1>2. ASSUME NEW t \in Pending(local), Accept(t)
      PROVE  Finite(accepted)'
  <2>1. Finite(accepted')
    BY <1>2, AcceptOnce, OnceFinite
  <2> QED
    BY <2>1 DEF Finite, RepeatedOf, PartsOf
<1> QED
  BY <1>1, <1>2, AcceptedNext DEF vars

\* How one acceptance changes what would be lost, for a file that does not record it.
LEMMA LossRise ==
  ASSUME TypeOK, AllSound, Finite(accepted), NEW t \in Pending(local), Accept(t)
  PROVE  \A queue : /\ LossOf(accepted', queue) \in Nat
                    /\ LossOf(accepted', queue) <= LossOf(accepted, queue) + 1
<1>1. Once(accepted, accepted', t, local.queue[t].next)
  BY AcceptOnce
<1>2. Finite(accepted')
  BY <1>1, OnceFinite
<1> QED
  BY <1>1, <1>2, OnceLoss, LossNat

LEMMA FileCursors ==
  ASSUME NEW s \in StateFile
  PROVE  Cursors(s.queue)
  BY EntryFields DEF Cursors

LEMMA PutLoss ==
  ASSUME NEW acc, NEW s \in StateFile, NEW t \in Tents, NEW e \in Entry,
         e.next = s.queue[t].next
  PROVE  LossOf(acc, Put(s, t, e).queue) = LossOf(acc, s.queue)
<1>1. \A u \in Tents : Put(s, t, e).queue[u].next = s.queue[u].next
  BY PutIs
<1> QED
  BY <1>1, SameCursors

LEMMA ProbedLoss ==
  ASSUME NEW acc, NEW s \in StateFile, NEW shown \in SUBSET Tents
  PROVE  LossOf(acc, Probed(s, shown).queue) = LossOf(acc, s.queue)
<1>1. \A t \in Tents : Probed(s, shown).queue[t].next = s.queue[t].next
  BY ProbedIs
<1> QED
  BY <1>1, SameCursors

\* A recorded acceptance moves the file along with the count.
LEMMA SentLoss ==
  ASSUME TypeOK, AllSound, Finite(accepted), NEW t \in Tents, SentPart(t)
  PROVE  LossOf(accepted', local'.queue) = LossOf(accepted, local.queue)
<1> DEFINE n == local.queue[t].next
           e == Advanced(local.queue[t], t)
<1>1. local \in StateFile /\ t \in Pending(local) /\ Accept(t) /\ local' = Put(local, t, e)
  BY DEF SentPart, TypeOK
<1>2. Once(accepted, accepted', t, n)
  BY <1>1, AcceptOnce
<1>3. e \in Entry /\ e.next = n + 1
  <2>1. e \in Entry
    BY <1>1, DeliveryEntries
  <2>2. e.next = n + 1
    BY DEF Advanced
  <2> QED
    BY <2>1, <2>2
<1> HIDE DEF e
<1>4. local'.queue[t].next = n + 1 /\ \A u \in Tents : u # t => local'.queue[u] = local.queue[u]
  BY <1>1, <1>3, PutIs
<1>5. Cursors(local.queue)
  BY <1>1, FileCursors
<1>6. local.queue[t].next = n
  BY DEF n
<1> HIDE DEF n
<1>7. \A u \in Tents : u # t => local'.queue[u].next = local.queue[u].next
  BY <1>4
<1> QED
  BY <1>2, <1>4, <1>5, <1>6, <1>7, OnceRecorded

\* Losses with the numbers named, before and after a step.
LEMMA LossesNext ==
  ASSUME IInv, Finite(accepted), Losses, Next
  PROVE  Losses'
<1> DEFINE L(s) == LossOf(accepted, s.queue)
           M(s) == LossOf(accepted', s.queue)
<1> USE DEF Losses, Loss, Saving, Slack
<1>0. /\ TypeOK /\ AllSound /\ local \in StateFile /\ remote \in StateFile
      /\ pc \in {"off", "probe", "checkpoint", "last_checkpoint", "deliver"}
      /\ fresh \in BOOLEAN /\ faults \in Nat
  BY DEF IInv, TypeOK
<1>1. \A s : L(s) \in Nat
  BY LossNat
<1>2. fresh /\ pc \in {"probe", "deliver"} => local = remote
  BY DEF IInv, InStep
<1>3. accepted' = accepted => \A s : M(s) = L(s)
  OBVIOUS
<1>4. CASE Dispatch
  <2>1. M(remote) = L(remote)
    BY <1>3, <1>4 DEF Dispatch
  <2> QED
    BY <1>3, <1>4 DEF Dispatch
<1>5. CASE Probe
  <2>1. LossOf(accepted, local'.queue) = LossOf(accepted, local.queue)
    <3>1. local' = Probed(local, visible) /\ visible \in SUBSET Tents
      BY <1>5 DEF Probe, IInv, TypeOK
    <3> QED
      BY <1>0, <3>1, ProbedLoss
  <2>2. /\ pc = "probe" /\ pc' = "checkpoint" /\ accepted' = accepted
        /\ UNCHANGED <<remote, inflight, fresh, faults>>
    BY <1>5 DEF Probe
  <2> QED
    BY <1>0, <1>1, <1>2, <2>1, <2>2
<1>6. CASE JobEnds
  BY <1>0, <1>1, <1>2, <1>6 DEF JobEnds
<1>7. CASE Checkpointed
  BY <1>0, <1>7 DEF Checkpointed
<1>8. CASE Refused
  BY <1>0, <1>1, <1>8 DEF Refused
<1>9. ASSUME NEW t \in Tents, Send(t)
      PROVE  Losses'
  <2>1. SentPart(t)
    BY <1>0, <1>9, SendIs
  <2>2. /\ pc = "deliver" /\ pc' = "checkpoint" /\ UNCHANGED <<remote, inflight, fresh, faults>>
        /\ t \in Pending(local) /\ Accept(t)
    BY <2>1 DEF SentPart
  <2>3. \A s : M(s) \in Nat /\ M(s) <= L(s) + 1
    BY <1>0, <2>2, LossRise
  <2>4. LossOf(accepted', local'.queue) = L(local)
    BY <1>0, <2>1, SentLoss
  <2> QED
    BY <1>0, <1>1, <1>2, <2>2, <2>3, <2>4
<1>10. ASSUME NEW t \in Tents, SendFails(t)
       PROVE  Losses'
  <2>1. FailedPart(t)
    BY <1>0, <1>10, SendFailsIs
  <2>2. /\ pc = "deliver" /\ pc' \in {"checkpoint", "last_checkpoint"}
        /\ UNCHANGED <<remote, inflight, fresh>> /\ t \in Pending(local)
        /\ \/ UNCHANGED <<faults, accepted>>
           \/ faults' = faults + 1 /\ Accept(t)
    BY <2>1 DEF FailedPart
  <2>3. \A acc : LossOf(acc, local'.queue) = LossOf(acc, local.queue)
    <3> DEFINE e1 == [local.queue[t] EXCEPT !.tries = @ + 1]
               e2 == [local.queue[t] EXCEPT !.status = "dead_letter"]
    <3>1. /\ e1 \in Entry /\ e1.next = local.queue[t].next
          /\ e2 \in Entry /\ e2.next = local.queue[t].next
      BY <1>0, DeliveryEntries
    <3>2. local' = Put(local, t, e1) \/ local' = Put(local, t, e2)
      BY <2>1, Zenon DEF FailedPart
    <3> HIDE DEF e1, e2
    <3> QED
      BY <1>0, <3>1, <3>2, PutLoss
  <2>4. CASE UNCHANGED <<faults, accepted>>
    <3>1. LossOf(accepted, local'.queue) = LossOf(accepted, local.queue)
      BY <2>3
    <3> QED
      BY <1>0, <1>1, <1>2, <2>2, <2>4, <3>1
  <2>5. CASE faults' = faults + 1 /\ Accept(t)
    <3>1. \A s : M(s) \in Nat /\ M(s) <= L(s) + 1
      BY <1>0, <2>2, <2>5, LossRise
    <3>2. LossOf(accepted', local'.queue) = M(local)
      BY <2>3
    <3> QED
      BY <1>0, <1>1, <1>2, <2>2, <2>5, <3>1, <3>2
  <2> QED
    BY <2>2, <2>4, <2>5
<1>11. CASE CheckpointFails
  BY <1>0, <1>1, <1>11 DEF CheckpointFails
<1>12. CASE JobDies
  <2>1. /\ pc \in {"probe", "deliver"} /\ pc' = "off" /\ faults' = faults + 1
        /\ UNCHANGED <<remote, inflight, local, fresh>>
    BY <1>12 DEF JobDies
  <2>2. \A s : M(s) \in Nat /\ M(s) <= L(s) + 1
    <3>1. CASE accepted' = accepted
      BY <1>1, <1>3, <3>1
    <3>2. ASSUME NEW t \in Pending(local), Accept(t)
          PROVE  \A s : M(s) \in Nat /\ M(s) <= L(s) + 1
      BY <1>0, <3>2, LossRise
    <3> QED
      BY <1>12, <3>1, <3>2 DEF JobDies
  <2> QED
    BY <1>0, <1>1, <1>2, <2>1, <2>2
<1>13. CASE ForeignPush
  <2>1. /\ remote' = remote \/ \E t \in Tents : Requeued(t)
        /\ faults' = faults + 1 /\ inflight' = {} /\ fresh' = FALSE
        /\ UNCHANGED <<local, pc, accepted>>
    BY <1>0, <1>13, ForeignPushIs
  <2>2. LossOf(accepted, remote'.queue) = LossOf(accepted, remote.queue)
    <3>1. ASSUME NEW t \in Tents, Requeued(t)
          PROVE  LossOf(accepted, remote'.queue) = LossOf(accepted, remote.queue)
      <4> DEFINE e == [status |-> "pending", next |-> remote.queue[t].next, tries |-> 0]
      <4>1. e \in Entry /\ remote' = Put(remote, t, e) /\ e.next = remote.queue[t].next
        BY <1>0, <3>1, DeliveryEntries DEF Requeued
      <4> HIDE DEF e
      <4> QED
        BY <1>0, <4>1, PutLoss
    <3> QED
      BY <2>1, <3>1
  <2> QED
    BY <1>0, <1>1, <1>2, <2>1, <2>2
<1>14. ASSUME NEW s \in inflight, Land(s)
       PROVE  Losses'
  <2>1. L(s) + Slack <= faults
    OBVIOUS
  <2> QED
    BY <1>0, <1>1, <1>14, <2>1 DEF Land
<1>15. ASSUME NEW t \in Tents, Appears(t)
       PROVE  Losses'
  BY <1>15 DEF Appears
<1> QED
  BY <1>4, <1>5, <1>6, <1>7, <1>8, <1>9, <1>10, <1>11, <1>12, <1>13, <1>14, <1>15
     DEF Next, Workflow, Deliver

LEMMA LossesKept ==
  ASSUME IInv, Finite(accepted), Losses, [Next]_vars
  PROVE  Losses'
<1>1. UNCHANGED vars => Losses'
  BY DEF vars, Losses, Loss, LossOf, AheadOf, PartsOf, RepeatedOf, Saving, Slack
<1> QED
  BY <1>1, LossesNext

LEMMA InitLosses == Init => Finite(accepted) /\ Losses
<1> SUFFICES ASSUME Init PROVE Finite(accepted) /\ Losses
  OBVIOUS
<1>1. \A t \in Tents : \A p \in 0..(Total[t] - 1) : accepted[t][p] = 0
  BY DEF Init
<1>2. PartsOf(accepted) = {}
  BY <1>1, PartsMember
<1>3. RepeatedOf(accepted) = {}
  BY <1>1, RepeatedMember
<1>4. AheadOf(accepted, remote.queue) = {}
  BY <1>2 DEF AheadOf
<1>5. Finite(accepted)
  BY <1>2, <1>3, FS_EmptySet DEF Finite
<1>6. Loss(remote) = 0
  BY <1>3, <1>4, FS_EmptySet DEF Loss, LossOf
<1> QED
  BY <1>5, <1>6 DEF Init, Losses, Saving

LEMMA LossesBound ==
  ASSUME IInv, Finite(accepted), Losses
  PROVE  RepeatsBounded
<1>1. Repeated = RepeatedOf(accepted)
  BY DEF Repeated, RepeatedOf
<1>2. \A s : Cardinality(Repeated) <= Loss(s) /\ Loss(s) \in Nat
  BY <1>1, LossNat DEF Loss
<1>3. faults \in Nat /\ Cardinality(Repeated) \in Nat
  BY <1>1, LossNat DEF IInv, TypeOK
<1> QED
  BY <1>2, <1>3 DEF Losses, Slack, RepeatsBounded

\* README "can repeat that one ambiguous part": over all events and jobs, the parts
\* that were accepted again are no more than the faults that occurred.
THEOREM AlwaysRepeatsBounded == Spec => []RepeatsBounded
<1> DEFINE Inv == IInv /\ Finite(accepted) /\ Losses
<1>1. Init => Inv
  BY InitIInv, InitLosses
<1>2. Inv /\ [Next]_vars => Inv'
  BY Inductive, FiniteNext, LossesKept DEF IInv
<1>3. Inv => RepeatsBounded
  BY LossesBound
<1> QED
  BY <1>1, <1>2, <1>3, PTL DEF Spec

-----------------------------------------------------------------------------
(* What main says, over all jobs *)

\* What one step of delivery, or its enqueue or requeue, makes of an entry d for t.
Lived(d, e, t) ==
  \/ e.status = d.status /\ e.next = d.next
  \/ d.status = "absent" /\ e.status = "pending" /\ e.next = d.next
  \/ d.status = "pending" /\ e.status = "dead_letter" /\ e.next = d.next
  \/ d.status = "dead_letter" /\ e.status = "pending" /\ e.next = d.next
  \/ /\ d.status = "pending" /\ e.next = d.next + 1
     /\ e.status = IF d.next + 1 = Total[t] THEN "delivered" ELSE "pending"

\* b is a, or what one probe, one delivery call or one requeue makes of it.
MovesOn(a, b) ==
  /\ b.cursor \in {a.cursor, NextCursor(a.cursor)}
  /\ \A t \in Tents :
       /\ Lived(a.queue[t], b.queue[t], t)
       /\ a.queue[t].status = "delivered" => b.queue[t] = a.queue[t]
       /\ b.queue[t].next # a.queue[t].next =>
            /\ b.cursor = a.cursor
            /\ \A u \in Tents \ {t} : b.queue[u] = a.queue[u]

\* README "an interrupted or uncheckpointed run retries the same group", and what the
\* checkpoints are for: whatever crashes, is refused or lands late, main takes the
\* rotation from one batch to the next, forgets no event, reopens no delivered one, and
\* records the parts one at a time, in order, never going back.
MainMovesOn == [][MovesOn(remote, remote')]_vars

\* A state file that may become main is one such step ahead of it.
OneAhead ==
  /\ fresh /\ Saving => MovesOn(remote, local)
  /\ \A s \in inflight : MovesOn(remote, s)

LEMMA MovesOnRefl ==
  ASSUME NEW s \in StateFile
  PROVE  MovesOn(s, s)
  BY DEF MovesOn, Lived

LEMMA MovesOnProbed ==
  ASSUME NEW s \in StateFile, NEW shown \in SUBSET Tents
  PROVE  MovesOn(s, Probed(s, shown))
<1>1. Probed(s, shown).cursor = NextCursor(s.cursor)
  BY DEF Probed
<1>2. ASSUME NEW t \in Tents
      PROVE  /\ Lived(s.queue[t], Probed(s, shown).queue[t], t)
             /\ Probed(s, shown).queue[t].next = s.queue[t].next
             /\ s.queue[t].status # "absent" => Probed(s, shown).queue[t] = s.queue[t]
  BY ProbedIs DEF Lived
<1> QED
  BY <1>1, <1>2 DEF MovesOn

LEMMA MovesOnPut ==
  ASSUME NEW s \in StateFile, NEW t \in Tents, NEW e \in Entry,
         Lived(s.queue[t], e, t), s.queue[t].status # "delivered"
  PROVE  MovesOn(s, Put(s, t, e))
<1> DEFINE b == Put(s, t, e)
<1>1. /\ b.cursor = s.cursor /\ b.queue[t] = e
      /\ \A u \in Tents : u # t => b.queue[u] = s.queue[u]
  BY PutIs
<1> HIDE DEF b
<1>2. \A u \in Tents : Lived(s.queue[u], b.queue[u], u)
  BY <1>1 DEF Lived
<1>3. MovesOn(s, b)
  BY <1>1, <1>2 DEF MovesOn
<1> QED
  BY <1>3 DEF b

LEMMA OneAheadNext ==
  ASSUME IInv, OneAhead, Next
  PROVE  OneAhead' /\ MovesOn(remote, remote')
<1>0. /\ TypeOK /\ local \in StateFile /\ remote \in StateFile /\ inflight \subseteq StateFile
      /\ MovesOn(remote, remote)
      /\ fresh /\ pc \in {"probe", "deliver"} => local = remote
  BY MovesOnRefl DEF IInv, TypeOK, InStep
<1> USE DEF Saving
<1>1. ASSUME UNCHANGED <<remote, inflight>>,
             ~(fresh' /\ Saving') \/ UNCHANGED <<local, pc, fresh>>
                \/ (fresh /\ fresh' /\ local = remote /\ MovesOn(local, local'))
      PROVE  OneAhead' /\ MovesOn(remote, remote')
  <2>1. MovesOn(remote, remote')
    BY <1>0, <1>1
  <2>2. \A s \in inflight' : MovesOn(remote', s)
    BY <1>1 DEF OneAhead
  <2>3. fresh' /\ Saving' => MovesOn(remote', local')
    <3>1. CASE UNCHANGED <<local, pc, fresh>>
      BY <1>1, <3>1 DEF OneAhead
    <3>2. CASE fresh /\ fresh' /\ local = remote /\ MovesOn(local, local')
      BY <1>1, <3>2
    <3> QED
      BY <1>1, <3>1, <3>2
  <2> QED
    BY <2>1, <2>2, <2>3 DEF OneAhead, MovesOn, Lived
<1>2. ASSUME MovesOn(remote, remote'), inflight' = {}, ~(fresh' /\ Saving')
      PROVE  OneAhead' /\ MovesOn(remote, remote')
  BY <1>2 DEF OneAhead
<1>3. CASE Dispatch
  BY <1>1, <1>3 DEF Dispatch
<1>4. CASE Probe
  <2>1. UNCHANGED <<remote, inflight, fresh>> /\ pc = "probe" /\ local' = Probed(local, visible)
    BY <1>4 DEF Probe
  <2>2. MovesOn(local, local')
    BY <1>0, <2>1, MovesOnProbed DEF TypeOK
  <2> QED
    BY <1>0, <1>1, <2>1, <2>2
<1>5. CASE JobEnds
  BY <1>1, <1>5 DEF JobEnds
<1>6. CASE Checkpointed
  <2>1. MovesOn(remote, remote') /\ inflight' = {} /\ ~Saving'
    BY <1>6 DEF Checkpointed, OneAhead
  <2> QED
    BY <1>2, <2>1
<1>7. CASE Refused
  BY <1>1, <1>7 DEF Refused
<1>8. ASSUME NEW t \in Tents, Send(t)
      PROVE  OneAhead' /\ MovesOn(remote, remote')
  <2>1. SentPart(t)
    BY <1>0, <1>8, SendIs
  <2>2. /\ UNCHANGED <<remote, inflight, fresh>> /\ pc = "deliver"
        /\ t \in Pending(local) /\ local' = Put(local, t, Advanced(local.queue[t], t))
    BY <2>1 DEF SentPart
  <2>3. MovesOn(local, local')
    <3>1. Advanced(local.queue[t], t) \in Entry
      BY <1>0, DeliveryEntries
    <3>2. local.queue[t].status = "pending"
      BY <2>2 DEF Pending
    <3>3. Lived(local.queue[t], Advanced(local.queue[t], t), t)
      BY <3>2 DEF Advanced, Lived
    <3> QED
      BY <1>0, <2>2, <3>1, <3>2, <3>3, MovesOnPut
  <2> QED
    BY <1>0, <1>1, <2>2, <2>3
<1>9. ASSUME NEW t \in Tents, SendFails(t)
      PROVE  OneAhead' /\ MovesOn(remote, remote')
  <2> DEFINE tried == [local.queue[t] EXCEPT !.tries = @ + 1]
             dead == [local.queue[t] EXCEPT !.status = "dead_letter"]
  <2>1. FailedPart(t)
    BY <1>0, <1>9, SendFailsIs
  <2>2. /\ UNCHANGED <<remote, inflight, fresh>> /\ pc = "deliver"
        /\ local.queue[t].status = "pending"
    BY <2>1 DEF FailedPart, Pending
  <2>3. /\ tried \in Entry /\ tried.status = "pending" /\ tried.next = local.queue[t].next
        /\ dead \in Entry /\ dead.status = "dead_letter" /\ dead.next = local.queue[t].next
    BY <1>0, <2>2, DeliveryEntries
  <2>4. local' = Put(local, t, tried) \/ local' = Put(local, t, dead)
    BY <2>1, Zenon DEF FailedPart
  <2> HIDE DEF tried, dead
  <2>5. MovesOn(local, Put(local, t, tried)) /\ MovesOn(local, Put(local, t, dead))
    <3>1. Lived(local.queue[t], tried, t) /\ Lived(local.queue[t], dead, t)
      BY <2>2, <2>3 DEF Lived
    <3> QED
      BY <1>0, <2>2, <2>3, <3>1, MovesOnPut
  <2>6. MovesOn(local, local')
    BY <2>4, <2>5
  <2> QED
    BY <1>0, <1>1, <2>2, <2>6
<1>10. CASE CheckpointFails
  <2>1. Saving /\ pc' = "off" /\ ~Saving'
    BY <1>10 DEF CheckpointFails
  <2>2. CASE fresh /\ remote' = local /\ inflight' = {}
    BY <1>2, <2>1, <2>2 DEF OneAhead
  <2>3. CASE fresh /\ inflight' = inflight \cup {local} /\ UNCHANGED remote
    BY <1>0, <2>1, <2>3 DEF OneAhead
  <2>4. CASE UNCHANGED <<remote, inflight>>
    BY <1>1, <2>1, <2>4
  <2> QED
    BY <1>10, <2>2, <2>3, <2>4 DEF CheckpointFails
<1>11. CASE JobDies
  BY <1>1, <1>11 DEF JobDies
<1>12. CASE ForeignPush
  <2>1. /\ remote' = remote \/ \E t \in Tents : Requeued(t)
        /\ inflight' = {} /\ fresh' = FALSE
    BY <1>0, <1>12, ForeignPushIs
  <2>2. ASSUME NEW t \in Tents, Requeued(t)
        PROVE  MovesOn(remote, remote')
    <3> DEFINE e == [status |-> "pending", next |-> remote.queue[t].next, tries |-> 0]
    <3>1. /\ e \in Entry /\ remote' = Put(remote, t, e)
          /\ e.next = remote.queue[t].next /\ e.status = "pending"
          /\ remote.queue[t].status = "dead_letter"
      BY <1>0, <2>2, DeliveryEntries DEF Requeued
    <3> HIDE DEF e
    <3>2. Lived(remote.queue[t], e, t)
      BY <3>1 DEF Lived
    <3> QED
      BY <1>0, <3>1, <3>2, MovesOnPut
  <2>3. MovesOn(remote, remote')
    BY <1>0, <2>1, <2>2
  <2> QED
    BY <1>2, <2>1, <2>3
<1>13. ASSUME NEW s \in inflight, Land(s)
       PROVE  OneAhead' /\ MovesOn(remote, remote')
  BY <1>2, <1>13 DEF Land, OneAhead
<1>14. ASSUME NEW t \in Tents, Appears(t)
       PROVE  OneAhead' /\ MovesOn(remote, remote')
  BY <1>1, <1>14 DEF Appears
<1> QED
  BY <1>3, <1>4, <1>5, <1>6, <1>7, <1>8, <1>9, <1>10, <1>11, <1>12, <1>13, <1>14
     DEF Next, Workflow, Deliver

LEMMA OneAheadInit == Init => OneAhead
  BY DEF Init, OneAhead, Saving

LEMMA OneAheadKept ==
  ASSUME IInv, OneAhead, [Next]_vars
  PROVE  OneAhead' /\ MovesOn(remote, remote')
<1>1. CASE UNCHANGED vars
  <2>1. OneAhead'
    BY <1>1 DEF vars, OneAhead, MovesOn, Lived, Saving
  <2>2. MovesOn(remote, remote')
    BY <1>1, MovesOnRefl DEF vars, IInv, TypeOK
  <2> QED
    BY <2>1, <2>2
<1> QED
  BY <1>1, OneAheadNext

THEOREM AlwaysMainMovesOn == Spec => MainMovesOn
<1>1. IInv /\ OneAhead /\ [Next]_vars => OneAhead' /\ MovesOn(remote, remote')
  BY OneAheadKept
<1> QED
  BY <1>1, OneAheadInit, AlwaysIInv, PTL DEF Spec, MainMovesOn

LEMMA AcceptsOneNext ==
  ASSUME IInv, Next
  PROVE  Life!AcceptsOne
<1> DEFINE parts(u) == {p \in 0..(Total[u] - 1) : accepted[u][p] > 0}
           parts2(u) == {p \in 0..(Total[u] - 1) : accepted'[u][p] > 0}
<1>1. SUFFICES
        /\ \A u \in Tents : parts(u) \subseteq parts2(u)
        /\ \A u \in Tents : parts2(u) # parts(u) => remote.queue[u].status # "absent"
        /\ \A u, v \in Tents : \A p \in parts2(u) \ parts(u), q \in parts2(v) \ parts(v) :
             u = v /\ p = q
  BY DEF Life!AcceptsOne
<1>2. CASE accepted' = accepted
  BY <1>2
<1>3. ASSUME pc = "deliver", NEW t \in Pending(local), Accept(t)
      PROVE  /\ \A u \in Tents : parts(u) \subseteq parts2(u)
             /\ \A u \in Tents : parts2(u) # parts(u) => remote.queue[u].status # "absent"
             /\ \A u, v \in Tents : \A p \in parts2(u) \ parts(u), q \in parts2(v) \ parts(v) :
                  u = v /\ p = q
  <2> DEFINE n == local.queue[t].next
  <2>1. Once(accepted, accepted', t, n)
    BY <1>3, AcceptOnce DEF IInv
  <2> HIDE DEF n
  <2>2. ASSUME NEW u \in Tents, NEW p \in 0..(Total[u] - 1)
        PROVE  /\ p \in parts(u) => p \in parts2(u)
               /\ p \in parts2(u) \ parts(u) => u = t /\ p = n
    BY <2>1 DEF Once
  <2>3. remote.queue[t].status # "absent"
    BY <1>3 DEF IInv, InStep, Covers, Pending
  <2>4. \A u \in Tents : parts(u) \subseteq parts2(u)
    BY <2>2
  <2>5. ASSUME NEW u \in Tents, parts2(u) # parts(u) PROVE u = t
    <3>1. \E p \in parts2(u) : p \notin parts(u)
      BY <2>4, <2>5
    <3> QED
      BY <2>2, <3>1
  <2>6. ASSUME NEW u \in Tents, NEW p \in parts2(u) \ parts(u) PROVE u = t /\ p = n
    BY <2>2
  <2> HIDE DEF parts, parts2
  <2> QED
    BY <2>3, <2>4, <2>5, <2>6
<1> QED
  BY <1>1, <1>2, <1>3, AcceptedNext

LEMMA LivesNext ==
  ASSUME IInv, IInv', MovesOn(remote, remote')
  PROVE  (\A t \in Tents : Life!Lives(t)) /\ Life!OnePasses
<1>0. remote \in StateFile /\ remote' \in StateFile /\ Bounded(remote) /\ Sound(remote)'
  BY DEF IInv, TypeOK, AllSound, Known
<1>1. ASSUME NEW t \in Tents
      PROVE  Life!Lives(t)
  <2>1. Lived(remote.queue[t], remote'.queue[t], t)
    BY DEF MovesOn
  <2>2. CASE /\ remote.queue[t].status = "pending"
             /\ remote'.queue[t].next = remote.queue[t].next + 1
             /\ remote'.queue[t].status = IF remote.queue[t].next + 1 = Total[t]
                                          THEN "delivered" ELSE "pending"
    <3>1. remote.queue[t].next \in 0..(Total[t] - 1)
      BY <1>0, <2>2, EntryFields DEF Bounded
    <3>2. accepted'[t][remote.queue[t].next] > 0
      BY <1>0, <2>2, <3>1 DEF Sound
    <3>3. Life!Passed(t)
      BY <2>2, <3>1, <3>2 DEF Life!Passed
    <3> QED
      BY <3>3 DEF Life!Lives
  <2>3. CASE remote'.queue[t].next = remote.queue[t].next
    BY <1>0, <2>1, <2>3, EntryFields DEF Lived, Life!Lives, Life!Kept, Life!GivenUp, Life!Requeued,
       Life!Enqueued, Life!Becomes
  <2> QED
    BY <2>1, <2>2, <2>3 DEF Lived
<1>2. ASSUME NEW t \in Tents, NEW u \in Tents, Life!Passed(t), Life!Passed(u)
      PROVE  t = u
  <2>1. /\ remote'.queue[t].next = remote.queue[t].next + 1
        /\ remote'.queue[u].next = remote.queue[u].next + 1
    BY <1>2 DEF Life!Passed
  <2>2. remote.queue[t].next \in Nat /\ remote.queue[u].next \in Nat
    BY <1>0, EntryFields
  <2> QED
    BY <2>1, <2>2 DEF MovesOn
<1> QED
  BY <1>1, <1>2 DEF Life!OnePasses

\* Over all jobs, and through crashes, refusals, late pushes and requeues, the events on
\* main live as those of one state file do: the composition of Monitor abstracts from
\* Outbox nothing that EventLife promises.
THEOREM LifeRefined == Spec => ImplementsLife
<1>1. Init => Life!LInit
  <2> SUFFICES ASSUME Init PROVE Life!LInit
    OBVIOUS
  <2>1. \A t \in Tents : remote.queue[t].status = "absent" /\ remote.queue[t].next = 0
    BY DEF Init, NewState
  <2>2. \A t \in Tents : {p \in 0..(Total[t] - 1) : accepted[t][p] > 0} = {}
    BY DEF Init
  <2> QED
    BY <2>1, <2>2 DEF Life!LInit
<1>2. IInv /\ IInv' /\ OneAhead /\ [Next]_vars => [Life!LNext]_(Life!lvars)
  <2>1. UNCHANGED vars => UNCHANGED Life!lvars
    BY DEF vars, Life!lvars
  <2>2. IInv /\ IInv' /\ OneAhead /\ Next => Life!LNext
    BY AcceptsOneNext, OneAheadNext, LivesNext DEF Life!LNext
  <2> QED
    BY <2>1, <2>2
<1>3. IInv /\ OneAhead /\ [Next]_vars => OneAhead'
  BY OneAheadKept
<1> QED
  BY <1>1, <1>2, <1>3, OneAheadInit, AlwaysIInv, PTL DEF Spec, ImplementsLife, Life!LSpec
====
