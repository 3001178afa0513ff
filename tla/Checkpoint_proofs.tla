---- MODULE Checkpoint_proofs ----
(***************************************************************************)
(* The checkpoint script for any number of overlapping jobs, attempts,     *)
(* developer pushes and late landings: what it reports is durable, a job   *)
(* never builds on what others wrote after its checkout, and the branch is *)
(* the log that StateStore promises.                                       *)
(***************************************************************************)
EXTENDS Checkpoint, SequenceTheorems, TLAPS

-----------------------------------------------------------------------------
(* Revisions and prefixes *)

\* "Ancestor of", commit by commit.
LEMMA PrefixIs ==
  ASSUME NEW s \in Seq(Commit), NEW t \in Seq(Commit)
  PROVE  IsPrefix(s, t) <=> Len(s) <= Len(t) /\ \A i \in 1..Len(s) : s[i] = t[i]
<1>1. ASSUME Len(s) <= Len(t)
      PROVE  /\ SubSeq(s, 1, Len(s)) \in Seq(Commit) /\ SubSeq(t, 1, Len(s)) \in Seq(Commit)
             /\ Len(SubSeq(s, 1, Len(s))) = Len(s) /\ Len(SubSeq(t, 1, Len(s))) = Len(s)
             /\ \A i \in 1..Len(s) : SubSeq(s, 1, Len(s))[i] = s[i] /\ SubSeq(t, 1, Len(s))[i] = t[i]
  BY <1>1
<1>2. ASSUME Len(s) <= Len(t), \A i \in 1..Len(s) : s[i] = t[i]
      PROVE  SubSeq(s, 1, Len(s)) = SubSeq(t, 1, Len(s))
  BY <1>1, <1>2, SeqEqual
<1> QED
  BY <1>1, <1>2 DEF IsPrefix

LEMMA PrefixRefl == \A s \in Seq(Commit) : IsPrefix(s, s)
  BY PrefixIs

LEMMA PrefixTrans ==
  ASSUME NEW s \in Seq(Commit), NEW t \in Seq(Commit), NEW u \in Seq(Commit),
         IsPrefix(s, t), IsPrefix(t, u)
  PROVE  IsPrefix(s, u)
<1>1. Len(s) <= Len(t) /\ \A i \in 1..Len(s) : s[i] = t[i]
  BY PrefixIs
<1>2. Len(t) <= Len(u) /\ \A i \in 1..Len(t) : t[i] = u[i]
  BY PrefixIs
<1>3. Len(s) \in Nat /\ Len(t) \in Nat /\ Len(u) \in Nat
  BY LenProperties
<1>4. Len(s) <= Len(u) /\ \A i \in 1..Len(s) : s[i] = u[i]
  BY <1>1, <1>2, <1>3
<1> QED
  BY <1>4, PrefixIs

LEMMA PrefixAppend ==
  ASSUME NEW s \in Seq(Commit), NEW c \in Commit
  PROVE  Append(s, c) \in Seq(Commit) /\ IsPrefix(s, Append(s, c))
<1>1. /\ Append(s, c) \in Seq(Commit) /\ Len(Append(s, c)) = Len(s) + 1
      /\ \A i \in 1..Len(s) : Append(s, c)[i] = s[i]
  BY AppendProperties
<1>2. Len(s) \in Nat
  BY LenProperties
<1>3. Len(s) <= Len(Append(s, c)) /\ \A i \in 1..Len(s) : s[i] = Append(s, c)[i]
  BY <1>1, <1>2
<1>4. \A t \in Seq(Commit) : /\ Len(s) <= Len(t)
                             /\ \A i \in 1..Len(s) : s[i] = t[i]
                             => IsPrefix(s, t)
  BY PrefixIs
<1> QED
  BY <1>1, <1>3, <1>4, Zenon

\* The commits of a revision are the values at its positions.
LEMMA RangeOf ==
  \A s \in Seq(Commit) : Range(s) = {s[i] : i \in 1..Len(s)}
  BY LenProperties DEF Range

\* What is in a revision is in each of its descendants.
LEMMA PrefixRange ==
  ASSUME NEW s \in Seq(Commit), NEW t \in Seq(Commit), IsPrefix(s, t)
  PROVE  Range(s) \subseteq Range(t)
<1>1. Len(s) <= Len(t) /\ \A i \in 1..Len(s) : s[i] = t[i]
  BY PrefixIs
<1>2. Len(s) \in Nat /\ Len(t) \in Nat
  BY LenProperties
<1>3. \A i \in 1..Len(s) : i \in 1..Len(t)
  BY <1>1, <1>2
<1> QED
  BY <1>1, <1>3, RangeOf

LEMMA LastInRange ==
  ASSUME NEW s \in Seq(Commit), Len(s) > 0
  PROVE  Last(s) \in Range(s) /\ Last(s) \in Commit
<1>1. Len(s) \in 1..Len(s)
  BY LenProperties
<1>2. s[Len(s)] \in Commit
  BY <1>1, ElementOfSeq
<1> QED
  BY <1>1, <1>2, RangeOf DEF Last

-----------------------------------------------------------------------------
(* The invariant *)

Own(j, r) == [by |-> j, read |-> Len(r)]

LEMMA OwnCommit ==
  ASSUME NEW j \in Jobs, NEW r \in Seq(Commit)
  PROVE  Own(j, r) \in Commit
<1>1. Len(r) \in Nat
  BY LenProperties
<1> QED
  BY <1>1 DEF Own, Commit

\* Every commit of r by j was made after j's checkout.
MadeBy(j, r) == \A i \in 1..Len(r) : r[i].by = j => pc[j] # "new"

\* A job's basis is on main, and its local revision is the basis or, within a
\* checkpoint, the basis and the one commit the script has made.
Basis ==
  \A j \in Jobs :
    /\ IsPrefix(writer_base[j], main)
    /\ pc[j] = "ready" => chain[j] = writer_base[j]
    /\ pc[j] \in {"fetch", "push"} =>
         chain[j] = Append(writer_base[j], Own(j, writer_base[j]))

\* A revision in flight is one commit on top of one that main once was.
OneAhead(r) ==
  \E b \in Seq(Commit), c \in Commit :
    r = Append(b, c) /\ c.read = Len(b) /\ IsPrefix(b, main)

Flights == \A r \in inflight : OneAhead(r)

Makers ==
  \A j \in Jobs :
    /\ MadeBy(j, main)
    /\ \A r \in inflight : MadeBy(j, r)
    /\ \A k \in Jobs : MadeBy(j, chain[k]) /\ MadeBy(j, writer_base[k])

IInv == TypeOK /\ Basis /\ Flights /\ Makers /\ AckedIsDurable /\ BasisIsOwn

-----------------------------------------------------------------------------
(* What a step can do *)

Moves(j, x) ==
  /\ pc[j] # "new" /\ x \notin {"new", "ready"}
  /\ x \in {"fetch", "push"} => pc[j] \in {"fetch", "push"}
  /\ pc' = [pc EXCEPT ![j] = x]

\* The script goes on or ends without having changed anything.
Quiet(j) ==
  /\ \E x \in {"fetch", "push"} \cup Ended : Moves(j, x)
  /\ UNCHANGED <<main, inflight, chain, writer_base, acked>>

\* The script ends with the own commit at the head of main.
Took(j) ==
  /\ pc[j] \in {"fetch", "push"}
  /\ IsPrefix(main, chain[j]) /\ main' = chain[j]
  /\ writer_base' = [writer_base EXCEPT ![j] = chain[j]]
  /\ acked' = acked \cup {Last(chain[j])}
  /\ pc' = [pc EXCEPT ![j] = "ready"]
  /\ UNCHANGED <<inflight, chain>>

\* The outcome of a push is not known.
Uncertain(j) ==
  /\ pc[j] = "push"
  /\ \E x \in {"fetch"} \cup Ended : Moves(j, x)
  /\ \/ IsPrefix(main, chain[j]) /\ main' = chain[j] /\ inflight' = inflight
     \/ main' = main /\ inflight' = inflight \cup {chain[j]}
  /\ UNCHANGED <<chain, writer_base, acked>>

\* The script commits.
Commits(j) ==
  /\ pc[j] = "ready"
  /\ chain' = [chain EXCEPT ![j] = Append(writer_base[j], Own(j, writer_base[j]))]
  /\ pc' = [pc EXCEPT ![j] = "fetch"]
  /\ UNCHANGED <<main, inflight, writer_base, acked>>

LEMMA RetryMoves ==
  ASSUME TypeOK, NEW j \in Jobs, pc[j] \in {"fetch", "push"}, Retry(j)
  PROVE  /\ \E x \in {"fetch"} \cup Ended : Moves(j, x)
         /\ attempt' \in [Jobs -> 0..MaxTries]
<1>1. attempt \in [Jobs -> 0..MaxTries] /\ MaxTries \in Nat
  BY CheckpointAssumption DEF TypeOK
<1>2. CASE attempt[j] < MaxTries
  <2>1. attempt' = [attempt EXCEPT ![j] = attempt[j] + 1] /\ pc' = [pc EXCEPT ![j] = "fetch"]
    BY <1>2 DEF Retry
  <2>2. attempt[j] + 1 \in 0..MaxTries
    BY <1>1, <1>2
  <2>3. Moves(j, "fetch")
    BY <2>1 DEF Moves
  <2> QED
    BY <1>1, <2>1, <2>2, <2>3
<1>3. CASE ~(attempt[j] < MaxTries)
  <2>1. attempt' = attempt /\ pc' = [pc EXCEPT ![j] = "exhausted"]
    BY <1>3 DEF Retry
  <2>2. Moves(j, "exhausted")
    BY <2>1 DEF Moves
  <2> QED
    BY <1>1, <2>1, <2>2 DEF Ended
<1> QED
  BY <1>2, <1>3

LEMMA BeginCommits ==
  ASSUME TypeOK, Basis, NEW j \in Jobs, Begin(j)
  PROVE  Commits(j) /\ attempt' \in [Jobs -> 0..MaxTries]
<1>1. pc[j] = "ready" /\ chain[j] = writer_base[j]
  BY DEF Begin, Basis
<1>2. writer_base[j] \in Seq(Commit) /\ chain \in [Jobs -> Seq(Commit)]
  BY DEF TypeOK
<1> DEFINE new == Append(writer_base[j], Own(j, writer_base[j]))
<1>3. chain' = [chain EXCEPT ![j] = new]
  BY <1>1 DEF Begin, Own
<1>4. chain'[j] = new
  BY <1>2, <1>3
<1>5. IsPrefix(writer_base[j], new)
  BY <1>2, OwnCommit, PrefixAppend
<1> HIDE DEF new
<1>6. pc' = [pc EXCEPT ![j] = "fetch"]
  BY <1>4, <1>5 DEF Begin
<1>7. attempt' = [attempt EXCEPT ![j] = 1] /\ 1 \in 0..MaxTries
  BY CheckpointAssumption DEF Begin
<1>8. UNCHANGED <<main, inflight, writer_base, acked>>
  BY DEF Begin
<1> QED
  BY <1>1, <1>3, <1>6, <1>7, <1>8 DEF Commits, TypeOK, new

LEMMA FetchedDoes ==
  ASSUME TypeOK, NEW j \in Jobs, Fetched(j)
  PROVE  (Quiet(j) \/ Took(j)) /\ attempt' = attempt
<1>1. CASE AlreadyPresent(j)
  <2>1. main \in Seq(Commit) /\ main = chain[j] /\ Succeed(j) /\ main' = main
    BY <1>1 DEF Fetched, TypeOK, AlreadyPresent
  <2>2. IsPrefix(main, chain[j])
    BY <2>1, PrefixRefl
  <2> QED
    BY <2>1, <2>2 DEF Fetched, Took, Succeed
<1>2. CASE ~AlreadyPresent(j)
  <2>1. \E x \in {"push", "refused"} : pc' = [pc EXCEPT ![j] = x]
    BY <1>2 DEF Fetched
  <2>2. \E x \in {"fetch", "push"} \cup Ended : Moves(j, x)
    BY <2>1 DEF Fetched, Moves, Ended
  <2> QED
    BY <1>2, <2>2 DEF Fetched, Quiet
<1> QED
  BY <1>1, <1>2

\* Every step does one of seven things.
LEMMA StepDoes ==
  ASSUME TypeOK, Basis, Next
  PROVE  /\ \/ \E j \in Jobs : Checkout(j) \/ Commits(j) \/ Quiet(j) \/ Took(j) \/ Uncertain(j)
            \/ \E r \in inflight : Land(r)
            \/ DeveloperPush
         /\ attempt' \in [Jobs -> 0..MaxTries]
<1>0. attempt \in [Jobs -> 0..MaxTries]
  BY DEF TypeOK
<1>1. ASSUME NEW j \in Jobs, Checkout(j)
      PROVE  attempt' = attempt
  BY <1>1 DEF Checkout
<1>2. ASSUME NEW j \in Jobs, FetchFailed(j)
      PROVE  Quiet(j) /\ attempt' \in [Jobs -> 0..MaxTries]
  BY <1>2, RetryMoves DEF FetchFailed, Quiet
<1>3. ASSUME NEW j \in Jobs, Pushed(j)
      PROVE  Took(j) /\ attempt' = attempt
  BY <1>3 DEF Pushed, Took, Succeed, Accepts
<1>4. ASSUME NEW j \in Jobs, PushFailed(j)
      PROVE  Quiet(j) /\ attempt' \in [Jobs -> 0..MaxTries]
  BY <1>4, RetryMoves DEF PushFailed, Quiet
<1>5. ASSUME NEW j \in Jobs, PushTimedOut(j)
      PROVE  Uncertain(j) /\ attempt' \in [Jobs -> 0..MaxTries]
  BY <1>5, RetryMoves DEF PushTimedOut, Uncertain, Accepts
<1>6. ASSUME NEW j \in Jobs, Kill(j)
      PROVE  Quiet(j) /\ attempt' = attempt
  <2>1. Moves(j, "killed")
    BY <1>6 DEF Kill, Moves
  <2> QED
    BY <1>6, <2>1 DEF Kill, Quiet, Ended
<1>7. \A r \in inflight : Land(r) => attempt' = attempt
  BY DEF Land
<1>8. DeveloperPush => attempt' = attempt
  BY DEF DeveloperPush
<1> QED
  BY <1>0, <1>1, <1>2, <1>3, <1>4, <1>5, <1>6, <1>7, <1>8, BeginCommits, FetchedDoes DEF Next

-----------------------------------------------------------------------------
(* Each part of the invariant is preserved *)

\* What the invariant says of the own commit within a checkpoint.
LEMMA OwnOnTop ==
  ASSUME TypeOK, Basis, NEW j \in Jobs, pc[j] \in {"fetch", "push"}
  PROVE  /\ writer_base[j] \in Seq(Commit) /\ Own(j, writer_base[j]) \in Commit
         /\ chain[j] \in Seq(Commit)
         /\ chain[j] = Append(writer_base[j], Own(j, writer_base[j]))
         /\ Len(chain[j]) = Len(writer_base[j]) + 1
         /\ Last(chain[j]) = Own(j, writer_base[j])
         /\ IsPrefix(writer_base[j], main)
<1>1. writer_base[j] \in Seq(Commit) /\ chain[j] \in Seq(Commit)
  BY DEF TypeOK
<1>2. Own(j, writer_base[j]) \in Commit
  BY <1>1, OwnCommit
<1>3. chain[j] = Append(writer_base[j], Own(j, writer_base[j])) /\ IsPrefix(writer_base[j], main)
  BY DEF Basis
<1>4. /\ Len(chain[j]) = Len(writer_base[j]) + 1
      /\ chain[j][Len(writer_base[j]) + 1] = Own(j, writer_base[j])
  BY <1>1, <1>2, <1>3, AppendProperties
<1> QED
  BY <1>1, <1>2, <1>3, <1>4 DEF Last

\* What a developer pushes.
LEMMA ForeignCommit ==
  ASSUME TypeOK
  PROVE  [by |-> Developer, read |-> Len(main)] \in Commit
<1>1. Len(main) \in Nat
  BY LenProperties DEF TypeOK
<1> QED
  BY <1>1 DEF Commit

\* The remote branch only grows.
LEMMA Grows ==
  ASSUME TypeOK, Basis, Next
  PROVE  main' \in Seq(Commit) /\ IsPrefix(main, main')
<1>0. main \in Seq(Commit) /\ inflight \subseteq Seq(Commit) /\ IsPrefix(main, main)
  BY PrefixRefl DEF TypeOK
<1>1. ASSUME NEW j \in Jobs, Checkout(j) \/ Commits(j) \/ Quiet(j)
      PROVE  main' = main
  BY <1>1 DEF Checkout, Commits, Quiet
<1>2. ASSUME NEW j \in Jobs, Took(j) \/ Uncertain(j)
      PROVE  main' = main \/ (main' = chain[j] /\ IsPrefix(main, chain[j]))
  <2>1. Took(j) => main' = chain[j] /\ IsPrefix(main, chain[j])
    BY DEF Took
  <2>2. Uncertain(j) => main' = main \/ (main' = chain[j] /\ IsPrefix(main, chain[j]))
    BY Zenon DEF Uncertain
  <2> QED
    BY <1>2, <2>1, <2>2
<1>3. \A j \in Jobs : chain[j] \in Seq(Commit)
  BY DEF TypeOK
<1>4. \A r \in inflight : Land(r) => main' = r /\ IsPrefix(main, r)
  BY DEF Land, Accepts
<1>5. DeveloperPush => main' \in Seq(Commit) /\ IsPrefix(main, main')
  BY <1>0, ForeignCommit, PrefixAppend DEF DeveloperPush
<1> QED
  BY <1>0, <1>1, <1>2, <1>3, <1>4, <1>5, StepDoes, Zenon

LEMMA TypeNext ==
  ASSUME TypeOK, Basis, Next
  PROVE  TypeOK'
<1> USE DEF TypeOK
<1>0. main' \in Seq(Commit) /\ attempt' \in [Jobs -> 0..MaxTries]
  BY Grows, StepDoes
<1> DEFINE Rest == /\ inflight' \subseteq Seq(Commit)
                   /\ chain' \in [Jobs -> Seq(Commit)]
                   /\ writer_base' \in [Jobs -> Seq(Commit)]
                   /\ pc' \in [Jobs -> {"new", "ready", "fetch", "push"} \cup Ended]
                   /\ acked' \in SUBSET Commit
<1>1. ASSUME NEW j \in Jobs, Checkout(j)
      PROVE  Rest
  BY <1>1 DEF Checkout
<1>2. ASSUME NEW j \in Jobs, Commits(j)
      PROVE  Rest
  <2>1. Append(writer_base[j], Own(j, writer_base[j])) \in Seq(Commit)
    BY OwnCommit, PrefixAppend
  <2> QED
    BY <1>2, <2>1 DEF Commits
<1>3. ASSUME NEW j \in Jobs, Quiet(j)
      PROVE  Rest
  BY <1>3 DEF Quiet, Moves
<1>4. ASSUME NEW j \in Jobs, Took(j)
      PROVE  Rest
  <2>1. pc[j] \in {"fetch", "push"}
    BY <1>4 DEF Took
  <2>2. Last(chain[j]) \in Commit
    BY <2>1, OwnOnTop
  <2> QED
    BY <1>4, <2>2 DEF Took
<1>5. ASSUME NEW j \in Jobs, Uncertain(j)
      PROVE  Rest
  BY <1>5 DEF Uncertain, Moves
<1>6. ASSUME NEW r \in inflight, Land(r)
      PROVE  Rest
  BY <1>6 DEF Land
<1>7. DeveloperPush => Rest
  BY DEF DeveloperPush
<1> QED
  BY <1>0, <1>1, <1>2, <1>3, <1>4, <1>5, <1>6, <1>7, StepDoes

LEMMA BasisNext ==
  ASSUME TypeOK, Basis, Next
  PROVE  Basis'
<1>0. main \in Seq(Commit) /\ main' \in Seq(Commit) /\ IsPrefix(main, main')
  BY Grows DEF TypeOK
<1>1. \A k \in Jobs : writer_base[k] \in Seq(Commit) /\ IsPrefix(writer_base[k], main')
  BY <1>0, PrefixTrans DEF TypeOK, Basis
<1>2. chain \in [Jobs -> Seq(Commit)] /\ writer_base \in [Jobs -> Seq(Commit)] /\ DOMAIN pc = Jobs
  BY DEF TypeOK
<1>3. ASSUME NEW j \in Jobs, Checkout(j)
      PROVE  Basis'
  BY <1>0, <1>1, <1>2, <1>3, PrefixRefl DEF Checkout, Basis
<1>4. ASSUME NEW j \in Jobs, Commits(j)
      PROVE  Basis'
  BY <1>1, <1>2, <1>4 DEF Commits, Basis
<1>5. ASSUME NEW j \in Jobs, Quiet(j)
      PROVE  Basis'
  BY <1>1, <1>2, <1>5 DEF Quiet, Moves, Basis
<1>6. ASSUME NEW j \in Jobs, Took(j)
      PROVE  Basis'
  <2>1. IsPrefix(chain[j], main')
    BY <1>2, <1>6, PrefixRefl DEF Took
  <2> QED
    BY <1>1, <1>2, <1>6, <2>1 DEF Took, Basis
<1>7. ASSUME NEW j \in Jobs, Uncertain(j)
      PROVE  Basis'
  BY <1>1, <1>2, <1>7 DEF Uncertain, Moves, Basis
<1>8. ASSUME NEW r \in inflight, Land(r)
      PROVE  Basis'
  BY <1>1, <1>8 DEF Land, Basis
<1>9. DeveloperPush => Basis'
  BY <1>1 DEF DeveloperPush, Basis
<1> QED
  BY <1>3, <1>4, <1>5, <1>6, <1>7, <1>8, <1>9, StepDoes

LEMMA FlightsNext ==
  ASSUME TypeOK, Basis, Flights, Next
  PROVE  Flights'
<1>0. main \in Seq(Commit) /\ main' \in Seq(Commit) /\ IsPrefix(main, main')
  BY Grows DEF TypeOK
<1>1. ASSUME NEW r, OneAhead(r)
      PROVE  OneAhead(r)'
  <2>1. PICK b \in Seq(Commit), c \in Commit :
          r = Append(b, c) /\ c.read = Len(b) /\ IsPrefix(b, main)
    BY <1>1 DEF OneAhead
  <2>2. IsPrefix(b, main')
    BY <1>0, <2>1, PrefixTrans
  <2> QED
    BY <2>1, <2>2 DEF OneAhead
<1>2. ASSUME NEW j \in Jobs, pc[j] = "push"
      PROVE  OneAhead(chain[j])
  <2>1. Own(j, writer_base[j]).read = Len(writer_base[j])
    BY DEF Own
  <2> QED
    BY <1>2, <2>1, OwnOnTop DEF OneAhead
<1>3. inflight' \subseteq inflight \cup {chain[j] : j \in {k \in Jobs : pc[k] = "push"}}
  <2>1. \A j \in Jobs : Checkout(j) \/ Commits(j) \/ Quiet(j) \/ Took(j) => inflight' = inflight
    BY DEF Checkout, Commits, Quiet, Took
  <2>2. ASSUME NEW j \in Jobs, Uncertain(j)
        PROVE  pc[j] = "push" /\ inflight' \subseteq inflight \cup {chain[j]}
    BY <2>2 DEF Uncertain
  <2>3. \A r \in inflight : Land(r) => inflight' \subseteq inflight
    BY DEF Land
  <2>4. DeveloperPush => inflight' = inflight
    BY DEF DeveloperPush
  <2> QED
    BY <2>1, <2>2, <2>3, <2>4, StepDoes
<1>4. \A r \in inflight' : OneAhead(r)
  BY <1>2, <1>3 DEF Flights
<1> QED
  BY <1>1, <1>4 DEF Flights

\* A commit at the top of a revision decides nothing but its own maker.
LEMMA MadeByAppend ==
  ASSUME NEW j \in Jobs, NEW r \in Seq(Commit), NEW c \in Commit,
         MadeBy(j, r), c.by = j => pc[j] # "new"
  PROVE  MadeBy(j, Append(r, c))
<1>1. /\ Len(Append(r, c)) = Len(r) + 1 /\ Append(r, c)[Len(r) + 1] = c
      /\ \A i \in 1..Len(r) : Append(r, c)[i] = r[i]
  BY AppendProperties
<1>2. Len(r) \in Nat
  BY LenProperties
<1> HIDE DEF MadeBy
<1>3. \A i \in 1..(Len(r) + 1) : i = Len(r) + 1 \/ i \in 1..Len(r)
  BY <1>2
<1>4. \A i \in 1..(Len(r) + 1) : Append(r, c)[i].by = j => pc[j] # "new"
  BY <1>1, <1>3 DEF MadeBy
<1> QED
  BY <1>1, <1>4 DEF MadeBy

\* No step returns a job to the start.
LEMMA Started ==
  ASSUME TypeOK, Basis, Next, NEW j \in Jobs, pc[j] # "new"
  PROVE  pc'[j] # "new"
<1>0. DOMAIN pc = Jobs
  BY DEF TypeOK
<1>1. ASSUME NEW k \in Jobs, Checkout(k) \/ Commits(k) \/ Took(k)
      PROVE  pc'[j] # "new"
  BY <1>0, <1>1 DEF Checkout, Commits, Took
<1>2. ASSUME NEW k \in Jobs, Quiet(k) \/ Uncertain(k)
      PROVE  pc'[j] # "new"
  <2>1. \E x : Moves(k, x)
    BY <1>2 DEF Quiet, Uncertain
  <2> QED
    BY <1>0, <2>1 DEF Moves
<1>3. \A r \in inflight : Land(r) => pc' = pc
  BY DEF Land
<1>4. DeveloperPush => pc' = pc
  BY DEF DeveloperPush
<1> QED
  BY <1>1, <1>2, <1>3, <1>4, StepDoes

LEMMA MakersNext ==
  ASSUME TypeOK, Basis, Makers, Next
  PROVE  Makers'
<1> DEFINE Known == {main} \cup inflight \cup {chain[k] : k \in Jobs}
                           \cup {writer_base[k] : k \in Jobs}
<1> SUFFICES ASSUME NEW j \in Jobs
             PROVE  /\ MadeBy(j, main)'
                    /\ \A r \in inflight' : MadeBy(j, r)'
                    /\ \A k \in Jobs : MadeBy(j, chain[k])' /\ MadeBy(j, writer_base[k])'
  BY DEF Makers
<1>0. \A r \in Known : MadeBy(j, r)
  BY DEF Makers
<1>1. \A r : MadeBy(j, r) => (\A i \in 1..Len(r) : r[i].by = j => pc'[j] # "new")
  BY Started DEF MadeBy
<1> DEFINE Fine(r) == \A i \in 1..Len(r) : r[i].by = j => pc'[j] # "new"
<1>2. \A r \in Known : Fine(r)
  BY <1>0, <1>1
<1>3. chain \in [Jobs -> Seq(Commit)] /\ writer_base \in [Jobs -> Seq(Commit)] /\ DOMAIN pc = Jobs
  BY DEF TypeOK
<1> SUFFICES /\ Fine(main')
             /\ \A r \in inflight' : Fine(r)
             /\ \A k \in Jobs : Fine(chain'[k]) /\ Fine(writer_base'[k])
  BY DEF MadeBy
<1> HIDE DEF Fine
<1>4. ASSUME NEW l \in Jobs, Checkout(l) \/ Quiet(l) \/ Took(l)
      PROVE  /\ main' \in Known /\ inflight' \subseteq Known
             /\ \A k \in Jobs : chain'[k] \in Known /\ writer_base'[k] \in Known
  <2>1. Checkout(l) => /\ main' \in Known /\ inflight' \subseteq Known
                       /\ \A k \in Jobs : chain'[k] \in Known /\ writer_base'[k] \in Known
    BY <1>3 DEF Checkout
  <2>2. Quiet(l) => /\ main' \in Known /\ inflight' \subseteq Known
                    /\ \A k \in Jobs : chain'[k] \in Known /\ writer_base'[k] \in Known
    BY DEF Quiet
  <2>3. Took(l) => /\ main' \in Known /\ inflight' \subseteq Known
                   /\ \A k \in Jobs : chain'[k] \in Known /\ writer_base'[k] \in Known
    BY <1>3 DEF Took
  <2> QED
    BY <1>4, <2>1, <2>2, <2>3
<1>5. ASSUME NEW l \in Jobs, Uncertain(l)
      PROVE  /\ main' \in Known /\ inflight' \subseteq Known
             /\ \A k \in Jobs : chain'[k] \in Known /\ writer_base'[k] \in Known
  BY <1>5 DEF Uncertain
<1>6. ASSUME NEW l \in Jobs, Commits(l)
      PROVE  /\ Fine(main')
             /\ \A r \in inflight' : Fine(r)
             /\ \A k \in Jobs : Fine(chain'[k]) /\ Fine(writer_base'[k])
  <2> DEFINE own == Own(l, writer_base[l])
  <2>1. writer_base[l] \in Seq(Commit) /\ own \in Commit
    BY <1>3, OwnCommit
  <2>2. own.by = j => pc[j] # "new"
    BY <1>6 DEF Own, Commits
  <2>3. MadeBy(j, Append(writer_base[l], own))
    <3>1. MadeBy(j, writer_base[l])
      BY <1>0
    <3> QED
      BY <2>1, <2>2, <3>1, MadeByAppend
  <2>4. Fine(Append(writer_base[l], own))
    BY <1>1, <2>3 DEF Fine
  <2>5. chain' = [chain EXCEPT ![l] = Append(writer_base[l], own)]
    BY <1>6 DEF Commits
  <2> HIDE DEF own
  <2>6. \A k \in Jobs : chain'[k] \in Known \/ chain'[k] = Append(writer_base[l], own)
    BY <1>3, <2>5
  <2>7. main' \in Known /\ inflight' \subseteq Known /\ \A k \in Jobs : writer_base'[k] \in Known
    BY <1>6 DEF Commits
  <2> QED
    BY <1>2, <2>4, <2>6, <2>7
<1>7. ASSUME NEW r \in inflight, Land(r)
      PROVE  /\ main' \in Known /\ inflight' \subseteq Known
             /\ \A k \in Jobs : chain'[k] \in Known /\ writer_base'[k] \in Known
  BY <1>7 DEF Land
<1>8. ASSUME DeveloperPush
      PROVE  /\ Fine(main')
             /\ \A r \in inflight' : Fine(r)
             /\ \A k \in Jobs : Fine(chain'[k]) /\ Fine(writer_base'[k])
  <2> DEFINE c == [by |-> Developer, read |-> Len(main)]
  <2>1. c \in Commit /\ c.by # j /\ main \in Seq(Commit)
    BY ForeignCommit, CheckpointAssumption DEF TypeOK
  <2>2. MadeBy(j, main)
    BY <1>0
  <2>3. MadeBy(j, Append(main, c))
    BY <2>1, <2>2, MadeByAppend
  <2>4. Fine(Append(main, c))
    BY <1>1, <2>3 DEF Fine
  <2>5. main' = Append(main, c)
    BY <1>8 DEF DeveloperPush
  <2>6. inflight' \subseteq Known /\ \A k \in Jobs : chain'[k] \in Known /\ writer_base'[k] \in Known
    BY <1>8 DEF DeveloperPush
  <2> QED
    BY <1>2, <2>4, <2>5, <2>6
<1> HIDE DEF Known
<1> QED
  BY <1>2, <1>4, <1>5, <1>6, <1>7, <1>8, StepDoes

LEMMA AckedNext ==
  ASSUME TypeOK, Basis, AckedIsDurable, Next
  PROVE  AckedIsDurable'
<1>0. main \in Seq(Commit) /\ main' \in Seq(Commit) /\ Range(main) \subseteq Range(main')
  BY Grows, PrefixRange DEF TypeOK
<1>1. ASSUME NEW j \in Jobs, Took(j)
      PROVE  acked' \subseteq acked \cup Range(main')
  <2>1. pc[j] \in {"fetch", "push"} /\ main' = chain[j] /\ acked' = acked \cup {Last(chain[j])}
    BY <1>1 DEF Took
  <2>2. chain[j] \in Seq(Commit) /\ Len(chain[j]) > 0
    <3>1. Len(chain[j]) = Len(writer_base[j]) + 1 /\ writer_base[j] \in Seq(Commit)
      BY <2>1, OwnOnTop
    <3>2. Len(writer_base[j]) \in Nat
      BY <3>1, LenProperties
    <3> QED
      BY <2>1, <3>1, <3>2, OwnOnTop
  <2>3. Last(chain[j]) \in Range(main')
    BY <2>1, <2>2, LastInRange
  <2> QED
    BY <2>1, <2>3
<1>2. \A j \in Jobs : Checkout(j) \/ Commits(j) \/ Quiet(j) \/ Uncertain(j) => acked' = acked
  BY DEF Checkout, Commits, Quiet, Uncertain
<1>3. \A r \in inflight : Land(r) => acked' = acked
  BY DEF Land
<1>4. DeveloperPush => acked' = acked
  BY DEF DeveloperPush
<1>5. acked' \subseteq acked \cup Range(main')
  BY <1>1, <1>2, <1>3, <1>4, StepDoes
<1>6. Range(main)' = Range(main')
  BY DEF Range
<1> QED
  BY <1>0, <1>5, <1>6 DEF AckedIsDurable

\* After its first own commit a revision holds nothing but own commits.
OwnTail(j, r) ==
  \A k \in DOMAIN r : r[k].by = j => \A l \in k..Len(r) : r[l].by = j

LEMMA BasisIsOwnNext ==
  ASSUME TypeOK, Basis, Makers, BasisIsOwn, Next
  PROVE  BasisIsOwn'
<1>0. writer_base \in [Jobs -> Seq(Commit)] /\ main \in Seq(Commit)
  BY DEF TypeOK
<1>1. \A j \in Jobs : OwnTail(j, writer_base[j])
  BY DEF BasisIsOwn, OwnTail
<1> SUFFICES ASSUME NEW j \in Jobs
             PROVE  OwnTail(j, writer_base'[j])
  BY DEF BasisIsOwn, OwnTail
<1>2. ASSUME Checkout(j)
      PROVE  OwnTail(j, writer_base'[j])
  <2>1. pc[j] = "new" /\ writer_base'[j] = main
    BY <1>0, <1>2 DEF Checkout
  <2>2. \A k \in 1..Len(main) : main[k].by # j
    BY <2>1 DEF Makers, MadeBy
  <2>3. DOMAIN main = 1..Len(main)
    BY <1>0, LenProperties
  <2> QED
    BY <2>1, <2>2, <2>3 DEF OwnTail
<1>3. ASSUME Took(j)
      PROVE  OwnTail(j, writer_base'[j])
  <2> DEFINE b == writer_base[j]
             c == Own(j, b)
             r == Append(b, c)
  <2>1. writer_base'[j] = chain[j] /\ pc[j] \in {"fetch", "push"}
    BY <1>0, <1>3 DEF Took
  <2>2. b \in Seq(Commit) /\ c \in Commit /\ chain[j] = r
    BY <2>1, OwnOnTop
  <2>3. c.by = j
    BY DEF Own
  <2> HIDE DEF c
  <2>4. /\ r \in Seq(Commit) /\ Len(r) = Len(b) + 1 /\ r[Len(b) + 1] = c
        /\ \A i \in 1..Len(b) : r[i] = b[i]
    BY <2>2, AppendProperties
  <2>5. Len(b) \in Nat /\ DOMAIN r = 1..Len(r) /\ DOMAIN b = 1..Len(b)
    BY <2>2, <2>4, LenProperties
  <2>6. OwnTail(j, b)
    BY <1>1
  <2> HIDE DEF b, r
  <2>7. ASSUME NEW k \in 1..Len(r), r[k].by = j, NEW l \in k..Len(r)
        PROVE  r[l].by = j
    <3>1. CASE l = Len(b) + 1
      BY <2>3, <2>4, <3>1
    <3>2. CASE l # Len(b) + 1
      <4>1. k \in 1..Len(b) /\ l \in k..Len(b) /\ l \in 1..Len(b)
        BY <2>4, <2>5, <3>2
      <4>2. b[k].by = j
        BY <2>4, <2>7, <4>1
      <4>3. b[l].by = j
        BY <2>5, <2>6, <4>1, <4>2 DEF OwnTail
      <4> QED
        BY <2>4, <4>1, <4>3
    <3> QED
      BY <3>1, <3>2
  <2>8. OwnTail(j, r)
    BY <2>5, <2>7 DEF OwnTail
  <2> QED
    BY <2>1, <2>2, <2>8
<1>4. ASSUME NEW k \in Jobs, k # j, Checkout(k) \/ Took(k)
      PROVE  writer_base'[j] = writer_base[j]
  <2>1. Checkout(k) => writer_base'[j] = writer_base[j]
    BY <1>0, <1>4 DEF Checkout
  <2>2. Took(k) => writer_base'[j] = writer_base[j]
    BY <1>0, <1>4 DEF Took
  <2> QED
    BY <1>4, <2>1, <2>2
<1>5. \A k \in Jobs : Commits(k) \/ Quiet(k) \/ Uncertain(k) => writer_base' = writer_base
  BY DEF Commits, Quiet, Uncertain
<1>6. \A r \in inflight : Land(r) => writer_base' = writer_base
  BY DEF Land
<1>7. DeveloperPush => writer_base' = writer_base
  BY DEF DeveloperPush
<1> QED
  BY <1>1, <1>2, <1>3, <1>4, <1>5, <1>6, <1>7, StepDoes

LEMMA InitIInv == Init => IInv
<1> SUFFICES ASSUME Init
             PROVE  IInv
  OBVIOUS
<1> USE DEF Init
<1>1. <<>> \in Seq(Commit) /\ Len(<<>>) = 0 /\ 1..0 = {} /\ DOMAIN <<>> = {}
  BY SMT
<1>2. TypeOK
  BY <1>1, CheckpointAssumption DEF TypeOK
<1>3. Basis
  BY <1>1, PrefixRefl DEF Basis
<1>4. Flights
  BY DEF Flights
<1>5. Makers
  BY <1>1 DEF Makers, MadeBy
<1>6. AckedIsDurable
  BY DEF AckedIsDurable
<1>7. BasisIsOwn
  BY <1>1 DEF BasisIsOwn
<1> QED
  BY <1>2, <1>3, <1>4, <1>5, <1>6, <1>7 DEF IInv

LEMMA StutterIInv == IInv /\ UNCHANGED vars => IInv'
<1> SUFFICES ASSUME IInv, UNCHANGED vars
             PROVE  IInv'
  OBVIOUS
<1>0. /\ main' = main /\ inflight' = inflight /\ chain' = chain
      /\ writer_base' = writer_base /\ attempt' = attempt /\ pc' = pc /\ acked' = acked
  BY DEF vars
<1>1. TypeOK'
  BY <1>0 DEF IInv, TypeOK
<1>2. Basis'
  BY <1>0 DEF IInv, Basis
<1>3. Flights'
  BY <1>0 DEF IInv, Flights, OneAhead
<1>4. Makers'
  BY <1>0 DEF IInv, Makers, MadeBy
<1>5. AckedIsDurable'
  BY <1>0 DEF IInv, AckedIsDurable, Range
<1>6. BasisIsOwn'
  BY <1>0 DEF IInv, BasisIsOwn
<1> QED
  BY <1>1, <1>2, <1>3, <1>4, <1>5, <1>6 DEF IInv

LEMMA Inductive == IInv /\ [Next]_vars => IInv'
<1>1. IInv /\ Next => IInv'
  BY TypeNext, BasisNext, FlightsNext, MakersNext, AckedNext, BasisIsOwnNext DEF IInv
<1> QED
  BY <1>1, StutterIInv

-----------------------------------------------------------------------------
(* Theorems *)

\* The invariant the theorems below follow from: where basis, local revision and pushes
\* in flight stand relative to main, and who made their commits.
THEOREM AlwaysIInv == Spec => []IInv
  BY InitIInv, Inductive, PTL DEF Spec

\* checkpoint_state.sh: revisions, attempts and the place in the script keep their types,
\* whatever git answers (TypeOK).
THEOREM AlwaysTypeOK == Spec => []TypeOK
<1>1. IInv => TypeOK
  BY DEF IInv
<1> QED
  BY <1>1, AlwaysIInv, PTL

\* checkpoint_state.sh exits 0 only when everything the job has done is on main
\* (ReadyIsDurable), for any number of jobs, attempts and late landings.
THEOREM AlwaysReadyIsDurable == Spec => []ReadyIsDurable
<1>1. IInv => ReadyIsDurable
  BY DEF IInv, Basis, ReadyIsDurable
<1> QED
  BY <1>1, AlwaysIInv, PTL

\* A commit the script reported stays on main (AckedIsDurable).
THEOREM AlwaysAckedIsDurable == Spec => []AckedIsDurable
<1>1. IInv => AckedIsDurable
  BY DEF IInv
<1> QED
  BY <1>1, AlwaysIInv, PTL

\* No writer builds on what others added after its checkout (BasisIsOwn).
THEOREM AlwaysBasisIsOwn == Spec => []BasisIsOwn
<1>1. IInv => BasisIsOwn
  BY DEF IInv
<1> QED
  BY <1>1, AlwaysIInv, PTL

-----------------------------------------------------------------------------
(* Refinement *)

\* What an accepted push adds: one commit that was computed from main.
LEMMA PushExtends ==
  ASSUME NEW b \in Seq(Commit), NEW c \in Commit, c.read = Len(b),
         NEW m \in Seq(Commit), IsPrefix(b, m), IsPrefix(m, Append(b, c))
  PROVE  \/ Append(b, c) = m
         \/ Append(b, c) = Append(m, c) /\ c.read = Len(m)
<1>1. /\ Append(b, c) \in Seq(Commit) /\ Len(Append(b, c)) = Len(b) + 1
      /\ Append(b, c)[Len(b) + 1] = c
      /\ \A i \in 1..Len(b) : Append(b, c)[i] = b[i]
  BY AppendProperties
<1>2. Len(b) <= Len(m) /\ \A i \in 1..Len(b) : b[i] = m[i]
  BY PrefixIs
<1> DEFINE r == Append(b, c)
<1>3. Len(m) <= Len(r) /\ \A i \in 1..Len(m) : m[i] = r[i]
  <2>1. r \in Seq(Commit) /\ IsPrefix(m, r)
    BY <1>1
  <2> HIDE DEF r
  <2> QED
    BY <2>1, PrefixIs
<1>4. Len(b) \in Nat /\ Len(m) \in Nat
  BY LenProperties
<1>5. CASE Len(m) = Len(b) + 1
  <2>1. r \in Seq(Commit) /\ Len(r) = Len(m) /\ \A i \in 1..Len(m) : m[i] = r[i]
    BY <1>1, <1>3, <1>5
  <2> HIDE DEF r
  <2>2. m = r
    BY <2>1, SeqEqual
  <2> QED
    BY <2>2 DEF r
<1>6. CASE Len(m) = Len(b)
  <2>1. m = b
    BY <1>2, <1>6, SeqEqual
  <2> QED
    BY <2>1
<1> QED
  BY <1>1, <1>2, <1>3, <1>4, <1>5, <1>6

\* Every step leaves main alone or adds one commit computed from it.
LEMMA MainExtends ==
  ASSUME IInv, Next
  PROVE  \/ main' = main
         \/ \E c \in Commit : main' = Append(main, c) /\ c.read = Len(main)
<1> USE DEF IInv
<1>0. main \in Seq(Commit)
  BY DEF TypeOK
<1>1. \A j \in Jobs : Checkout(j) \/ Commits(j) \/ Quiet(j) => main' = main
  BY DEF Checkout, Commits, Quiet
<1>2. ASSUME NEW j \in Jobs, pc[j] \in {"fetch", "push"}, IsPrefix(main, chain[j]),
             main' = chain[j]
      PROVE  \/ main' = main
             \/ \E c \in Commit : main' = Append(main, c) /\ c.read = Len(main)
  <2> DEFINE b == writer_base[j]
             c == Own(j, b)
  <2>1. b \in Seq(Commit) /\ c \in Commit /\ chain[j] = Append(b, c) /\ IsPrefix(b, main)
    BY <1>2, OwnOnTop
  <2>2. c.read = Len(b)
    BY DEF Own
  <2> HIDE DEF b, c
  <2>3. \/ Append(b, c) = main
        \/ Append(b, c) = Append(main, c) /\ c.read = Len(main)
    BY <1>0, <1>2, <2>1, <2>2, PushExtends
  <2> QED
    BY <1>2, <2>1, <2>3
<1>3. ASSUME NEW j \in Jobs, Took(j)
      PROVE  \/ main' = main
             \/ \E c \in Commit : main' = Append(main, c) /\ c.read = Len(main)
  <2>1. pc[j] \in {"fetch", "push"} /\ IsPrefix(main, chain[j]) /\ main' = chain[j]
    BY <1>3 DEF Took
  <2> QED
    BY <1>2, <2>1
<1>4. ASSUME NEW j \in Jobs, Uncertain(j)
      PROVE  \/ main' = main
             \/ \E c \in Commit : main' = Append(main, c) /\ c.read = Len(main)
  <2>1. pc[j] = "push" /\ (main' = main \/ (IsPrefix(main, chain[j]) /\ main' = chain[j]))
    BY <1>4, Zenon DEF Uncertain
  <2> QED
    BY <1>2, <2>1
<1>5. ASSUME NEW r \in inflight, Land(r)
      PROVE  \/ main' = main
             \/ \E c \in Commit : main' = Append(main, c) /\ c.read = Len(main)
  <2>1. main' = r /\ IsPrefix(main, r)
    BY <1>5 DEF Land, Accepts
  <2>2. PICK b \in Seq(Commit), c \in Commit :
          r = Append(b, c) /\ c.read = Len(b) /\ IsPrefix(b, main)
    BY DEF Flights, OneAhead
  <2>3. \/ Append(b, c) = main
        \/ Append(b, c) = Append(main, c) /\ c.read = Len(main)
    BY <1>0, <2>1, <2>2, PushExtends
  <2> QED
    BY <2>1, <2>2, <2>3
<1>6. ASSUME DeveloperPush
      PROVE  \E c \in Commit : main' = Append(main, c) /\ c.read = Len(main)
  <2> DEFINE c == [by |-> Developer, read |-> Len(main)]
  <2>1. main' = Append(main, c)
    BY <1>6 DEF DeveloperPush
  <2>2. c \in Commit /\ c.read = Len(main)
    BY ForeignCommit
  <2> QED
    BY <2>1, <2>2
<1> QED
  BY <1>1, <1>3, <1>4, <1>5, <1>6, StepDoes

LEMMA AckedConfirmed ==
  ASSUME IInv, Next
  PROVE  acked \subseteq acked' /\ acked' \subseteq acked \cup Range(main')
<1>1. \A j \in Jobs : Checkout(j) \/ Commits(j) \/ Quiet(j) \/ Uncertain(j) => acked' = acked
  BY DEF Checkout, Commits, Quiet, Uncertain
<1>2. \A j \in Jobs : Took(j) => acked \subseteq acked'
  BY DEF Took
<1>3. \A r \in inflight : Land(r) => acked' = acked
  BY DEF Land
<1>4. DeveloperPush => acked' = acked
  BY DEF DeveloperPush
<1>5. acked \subseteq acked'
  BY <1>1, <1>2, <1>3, <1>4, StepDoes DEF IInv
<1>6. AckedIsDurable'
  BY Inductive DEF IInv
<1>7. acked' \subseteq Range(main')
  BY <1>6 DEF AckedIsDurable, Range
<1> QED
  BY <1>5, <1>7

\* The branch as its writers see it is the log of StateStore: it only grows, by one
\* commit at a time, each computed from the one before it (ImplementsStore).
THEOREM StoreRefined == Spec => ImplementsStore
<1>1. Init => Store!SInit
  BY DEF Init, Store!SInit
<1>2. IInv /\ [Next]_vars => [Store!SNext]_(Store!svars)
  <2> SUFFICES ASSUME IInv, Next
               PROVE  Store!SNext
    BY DEF vars, Store!svars
  <2>1. Store!Confirm
    BY AckedConfirmed DEF Store!Confirm, Store!Range, Range
  <2>2. ASSUME NEW c \in Commit, main' = Append(main, c), c.read = Len(main)
        PROVE  main' # <<>> /\ Store!Extend
    <3>1. main \in Seq(Commit) /\ Len(main) \in Nat
      BY LenProperties DEF IInv, TypeOK
    <3>2. Len(main') = Len(main) + 1 /\ main'[Len(main) + 1] = c /\ Len(main') # 0
      BY <2>2, <3>1, AppendProperties
    <3>3. Store!Last(main') = c
      BY <2>2, <3>2 DEF Store!Last
    <3>4. main' # <<>>
      BY <3>2, Len(<<>>) = 0
    <3> QED
      BY <2>2, <3>3, <3>4 DEF Store!Extend
  <2> QED
    BY <2>1, <2>2, MainExtends DEF Store!SNext
<1> QED
  BY <1>1, <1>2, AlwaysIInv, PTL DEF Spec, ImplementsStore, Store!SSpec

====
