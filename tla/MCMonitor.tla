---- MODULE MCMonitor ----
\* Three tents in batches of two, so that the last batch of a rotation is short;
\* the first tent's message is a burst.
EXTENDS Monitor

MCTotal == [t \in Tents |-> IF t = 1 THEN 2 ELSE 1]
====
