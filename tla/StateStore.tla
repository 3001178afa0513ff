---- MODULE StateStore ----
(***************************************************************************)
(* What the remote branch promises to its writers: a log of commits that   *)
(* only grows, in which every commit was computed from the one right       *)
(* before it, so that no writer's update is ever lost, and on which a      *)
(* commit a writer was told about stays.  Checkpoint.tla implements it.    *)
(***************************************************************************)
EXTENDS Naturals, Sequences, SequencesExt

VARIABLES store,         \* the commits of the remote branch, oldest first
          confirmed      \* commits their writers know to be stored

svars == <<store, confirmed>>

SInit == store = <<>> /\ confirmed = {}

\* One commit is added; read says how long the log was when the state it changes
\* was read.
Extend == LET c == Last(store')
          IN  /\ store' = Append(store, c)
              /\ c.read = Len(store)

\* What a writer is told to be stored is stored, and it is not told otherwise later.
Confirm == /\ confirmed \subseteq confirmed'
           /\ confirmed' \subseteq confirmed \cup Range(store')

SNext == (UNCHANGED store \/ (store' # <<>> /\ Extend)) /\ Confirm

SSpec == SInit /\ [][SNext]_svars
====
