---- MODULE EventLife ----
(***************************************************************************)
(* What a state file promises about its events, to whoever reads it: each  *)
(* goes through one life, its cursor passes a part only when the provider  *)
(* has accepted it, and it is delivered when the cursor has passed all.    *)
(* Outbox implements it with the file of a runner, whose processes may be  *)
(* killed, and Monitor with the file on main, over all jobs.               *)
(***************************************************************************)
EXTENDS Naturals

CONSTANT Ids

VARIABLES status,        \* per event: "absent", "pending", "delivered", "dead_letter",
                         \* or "quarantined", when it is a placeholder of what it was
          next,          \* the part that comes next
          total,         \* the parts of its message
          accepted       \* the parts that the provider accepted

lvars == <<status, next, total, accepted>>

LInit ==
  /\ status = [i \in Ids |-> "absent"]
  /\ next = [i \in Ids |-> 0]
  /\ accepted = [i \in Ids |-> {}]

Becomes(i, s) == status'[i] = s /\ next'[i] = next[i]

Kept(i) == Becomes(i, status[i])
Enqueued(i) == status[i] = "absent" /\ Becomes(i, "pending")
GivenUp(i) == status[i] = "pending" /\ Becomes(i, "dead_letter")
Requeued(i) == status[i] = "dead_letter" /\ Becomes(i, "pending")
Quarantined(i) == status[i] = "pending" /\ status'[i] = "quarantined" /\ next'[i] = 0

\* The cursor passes a part.
Passed(i) ==
  /\ status[i] = "pending"
  /\ next[i] \in accepted'[i]
  /\ next'[i] = next[i] + 1
  /\ status'[i] = IF next'[i] = total[i] THEN "delivered" ELSE "pending"

\* What one step does to an event.
Lives(i) ==
  \/ (Kept(i) \/ GivenUp(i) \/ Requeued(i) \/ Passed(i)) /\ total'[i] = total[i]
  \/ Enqueued(i) \/ Quarantined(i)

\* The provider forgets nothing, and is sent one part at a time, of a known event.
AcceptsOne ==
  /\ \A i \in Ids : accepted[i] \subseteq accepted'[i]
  /\ \A i \in Ids : accepted'[i] # accepted[i] => status[i] # "absent"
  /\ \A i, j \in Ids : \A p \in accepted'[i] \ accepted[i], q \in accepted'[j] \ accepted[j] :
       i = j /\ p = q

\* One cursor moves at a time.
OnePasses == \A i, j \in Ids : Passed(i) /\ Passed(j) => i = j

LNext == (\A i \in Ids : Lives(i)) /\ AcceptsOne /\ OnePasses

LSpec == LInit /\ [][LNext]_lvars
====
