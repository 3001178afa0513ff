---- MODULE AlertPolicy ----
(***************************************************************************)
(* What a watcher of one tent on one date is promised, with none of the    *)
(* bookkeeping of events.apply_probe_result: what was last proved visible, *)
(* whether that proof has since become doubtful, and the alerts so far.    *)
(* Availability.tla is shown to implement it.                              *)
(***************************************************************************)
EXTENDS Naturals

CONSTANT Keys            \* the shifts a page can offer

VARIABLES shown,         \* the shifts the last reliable observation proved
          doubt,         \* TRUE once that proof became unreadable
          count,         \* how many alerts have been raised
          alerts         \* {<<n, K>>: the n-th alert announced the shifts K}

avars == <<shown, doubt, count, alerts>>

AInit == /\ shown \in SUBSET Keys
         /\ doubt = FALSE
         /\ count \in Nat
         /\ alerts = {}

\* A reliable observation of the shifts K announces what is news: what was not
\* shown before, or everything when the earlier proof had become doubtful.
Reveal(K) ==
  LET news == IF doubt THEN K ELSE K \ shown
  IN  /\ IF news = {}
           THEN UNCHANGED <<count, alerts>>
           ELSE /\ count' = count + 1
                /\ alerts' = alerts \cup {<<count + 1, news>>}
      /\ shown' = K
      /\ doubt' = FALSE

\* The target can no longer be read: nothing is announced and nothing forgotten.
Cloud == /\ shown # {}
         /\ doubt' = TRUE
         /\ UNCHANGED <<shown, count, alerts>>

ANext == Cloud \/ \E K \in SUBSET Keys : Reveal(K)

ASpec == AInit /\ [][ANext]_avars
====
