---- MODULE MCOutbox ----
\* Small instances of Outbox: bursts of three or two parts instead of eight, two
\* attempts instead of five, delays of a few ticks.
EXTENDS Outbox, TLC

MCGaps == <<2, 3>>
MCGaps2 == <<2>>
MCBackoff == [n \in 1..MaxAttempts |-> 2 * n]
MCGapsLive == <<1>>
MCBackoffLive == [n \in 1..MaxAttempts |-> 1]

\* Event ids are digests: nothing but equality is asked of them.
MCSymmetry == Permutations(Ids)
====
