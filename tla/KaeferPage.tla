---- MODULE KaeferPage ----
(***************************************************************************)
(* kaefer.fetch next to the page it opens.                                 *)
(*                                                                         *)
(* The page fetches its slots, perhaps twice, and may try to write.  The   *)
(* prober waits for three things at once, the navigation, the first        *)
(* response of the slot endpoint and the first of its requests to finish,  *)
(* and the handler of the route runs while it waits.  After the body is    *)
(* read nothing of the page runs any more.                                 *)
(***************************************************************************)
EXTENDS Feeds

CONSTANTS
  MaxSlotRequests,       \* times the page fetches its slots
  SlotAnswers            \* what the endpoint may answer

SlotRequests == 1 .. MaxSlotRequests

VARIABLES
  slot,                  \* state of each GET of the endpoint
  response, finished,    \* what the two waiters caught, 0: nothing yet
  blocked,               \* blocked_methods is not empty
  step,                  \* what fetch waits for
  rows                   \* the answer to be parsed, None without one

kaefer == <<slot, response, finished, blocked, step, rows>>

KaeferInit ==
  /\ slot = [r \in SlotRequests |-> "unsent"]
  /\ response = 0 /\ finished = 0
  /\ blocked = FALSE
  /\ step = "idle" /\ rows = None

Waiting == step \in {"goto", "response", "finish", "body"}

-----------------------------------------------------------------------------
(* The page: external *)

\* Its requests are numbered in the order it sends them.
SendsGet(r) ==
  /\ slot[r] = "unsent" /\ (r > 1 => slot[r - 1] # "unsent")
  /\ slot' = [slot EXCEPT ![r] = "sent"]
  /\ UNCHANGED <<response, finished, blocked>>

\* The headers arrive; the waiter takes the first.
HeadersArrive(r) ==
  /\ slot[r] = "sent"
  /\ slot' = [slot EXCEPT ![r] = "answered"]
  /\ response' = IF response = 0 THEN r ELSE response
  /\ UNCHANGED <<finished, blocked>>

\* The body is complete; the other waiter takes the first.
Completes(r) ==
  /\ slot[r] = "answered"
  /\ slot' = [slot EXCEPT ![r] = "finished"]
  /\ finished' = IF finished = 0 THEN r ELSE finished
  /\ UNCHANGED <<response, blocked>>

\* enforce_read_only aborts every request that is no GET and remembers it.
EnforceReadOnly ==
  /\ ~blocked /\ blocked' = TRUE
  /\ UNCHANGED <<slot, response, finished>>

PageStep ==
  /\ Waiting
  /\ \/ \E r \in SlotRequests : SendsGet(r) \/ HeadersArrive(r) \/ Completes(r)
     \/ EnforceReadOnly
  /\ UNCHANGED <<step, rows>>

-----------------------------------------------------------------------------
(* fetch *)

pageUnchanged == UNCHANGED <<slot, response, finished, blocked>>

Opens ==
  /\ step = "idle" /\ step' = "goto"
  /\ UNCHANGED rows /\ pageUnchanged

\* A deadline of the navigation or of a waiter, or an error of the browser.
TimesOut ==
  /\ step \in {"goto", "response", "finish"}
  /\ step' = "failed"
  /\ UNCHANGED rows /\ pageUnchanged

Navigated ==
  /\ step = "goto" /\ step' = "response"
  /\ UNCHANGED rows /\ pageUnchanged

\* The method and the headers are checked before the body is complete.
ResponseSeen ==
  /\ step = "response" /\ response # 0
  /\ \/ ~blocked /\ step' = "finish"
     \/ step' = "failed"
  /\ UNCHANGED rows /\ pageUnchanged

\* Seeded fault: any finished request of the endpoint will do.
SameAny == TRUE

\* finished_info.value is response.request
Same == finished = response

RequestFinished ==
  /\ step = "finish" /\ finished # 0
  /\ step' = IF Same /\ ~blocked THEN "body" ELSE "failed"
  /\ UNCHANGED rows /\ pageUnchanged

\* Seeded fault: the methods are not looked at again after the body.
TrustedAfterFinish == TRUE

Trusted == ~blocked

\* response.body() returns once its request is finished.
BodyRead ==
  /\ step = "body" /\ slot[response] = "finished"
  /\ \/ /\ Trusted /\ step' = "parse"
        /\ \E answer \in SlotAnswers : rows' = answer
     \/ step' = "failed" /\ UNCHANGED rows
  /\ pageUnchanged

\* The context is closed, and the page with it.
ContextCloses ==
  /\ slot' = [r \in SlotRequests |-> "unsent"]
  /\ response' = 0 /\ finished' = 0
  /\ blocked' = FALSE
  /\ step' = "idle" /\ rows' = None

FetchStep == TimesOut \/ Navigated \/ ResponseSeen \/ RequestFinished \/ BodyRead

====
