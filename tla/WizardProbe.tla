---- MODULE WizardProbe ----
(***************************************************************************)
(* festzelt_os._probe_target, called by fetch for one target date after    *)
(* another on one page of a booking wizard, next to that page.             *)
(*                                                                         *)
(* The prober reads the page in separate calls and the page moves between  *)
(* any two of them: it appends dates, sends requests, is answered, renders.*)
(* Time passes in _wait only, one tick per poll interval.  The page is     *)
(* external: it answers its requests in the order they were sent and       *)
(* renders a finished answer within ApplyTime ticks.  A shift list is one  *)
(* value; Empty stands for one without a bookable label.  A reading that   *)
(* is not what the page shows (an exception, hidden or doubled controls,   *)
(* conflicting labels, a bot, login or error page) is a glitch.            *)
(***************************************************************************)
EXTENDS Integers, Sequences, FiniteSets, SequencesExt

CONSTANTS
  Targets,               \* target dates in the order fetch probes them
  Lists,                 \* shift lists with at least one bookable label
  Empty, NoControl,      \* a list without one; no single shift control
  None,
  LivewireBound,         \* the date control carries wire:model
  StableFor,             \* stable_for_ms in polls
  DateTimeout,           \* max(date_control_timeout_ms, wait_extra_ms)
  UpdateTimeout,         \* max(shift_update_timeout_ms, shift_wait_ms)
  \* the page, and bounds of a model
  LoadTime,              \* all dates are listed by then
  ApplyTime,             \* a finished answer is rendered by then
  MaxOthers,             \* requests of the page that no selection caused
  MaxGlitches

Dates == Range(Targets)
Shown == Lists \cup {Empty, NoControl}

ASSUME WizardAssumption ==
  /\ Targets \in Seq(Dates) /\ Targets # <<>> /\ IsInjective(Targets)
  /\ None \notin Dates /\ None \notin Lists
  /\ {Empty, NoControl} \cap Lists = {} /\ Empty # NoControl
  /\ LivewireBound \in BOOLEAN
  /\ StableFor \in Nat /\ DateTimeout \in Nat /\ UpdateTimeout \in Nat
  /\ LoadTime \in Nat /\ LoadTime < DateTimeout
  /\ ApplyTime \in Nat /\ ApplyTime <= StableFor
  /\ MaxOthers \in Nat /\ MaxGlitches \in Nat

VARIABLES
  \* the page and its server
  offer,                 \* the server's answer per date, None: not offered
  listed,                \* dates in the date control
  selected,              \* value of the date control
  shown,                 \* the shift control
  unsent,                \* a selection whose request is not sent yet
  queue,                 \* requests without an answer
  applying,              \* date of a finished answer that is not rendered
  age, unrendered,       \* ticks since navigation and since that answer
  mutated,               \* the armed observer counted a mutation
  others, glitches,      \* counters of bounded events
  \* _probe_target
  pc, resume,            \* resume: the loop that _wait returns to
  now,                   \* ticks since its deadline was set
  candidate, since,      \* signature and since when it is stable
  initial, armed,        \* the list before the selection; observer_armed
  update,                \* _WizardUpdateMonitor
  read,                  \* the last readings of the update loop
  update_confirmed, response_completion_observed,
  results,
  answered               \* history: when the target's answer was rendered

page == <<offer, listed, selected, shown, unsent, queue, applying, age,
          unrendered, mutated, others>>
reader == <<candidate, since, initial, armed, update, read, update_confirmed,
            response_completion_observed, results>>
vars == <<page, glitches, pc, resume, now, reader, answered>>

target == Targets[Len(results) + 1]
offered == {d \in Dates : offer[d] # None}

NoUpdate == [request_started |-> FALSE, succeeded |-> FALSE, failed |-> FALSE]
NoRead == [one |-> FALSE, selected |-> FALSE, failed |-> FALSE, shifts |-> NoControl]

Init ==
  /\ offer \in [Dates -> Lists \cup {Empty, None}]
  /\ listed = {}
  /\ selected \in offered \cup {None}
  /\ shown = IF selected = None THEN NoControl ELSE offer[selected]
  /\ unsent = None /\ queue = <<>> /\ applying = None
  /\ age = 0 /\ unrendered = 0 /\ mutated = FALSE /\ others = 0 /\ glitches = 0
  /\ pc = "navigate" /\ resume = "discover" /\ now = 0
  /\ candidate = None /\ since = None
  /\ initial = NoControl /\ armed = FALSE /\ update = NoUpdate /\ read = NoRead
  /\ update_confirmed = FALSE /\ response_completion_observed = FALSE
  /\ results = <<>> /\ answered = None

-----------------------------------------------------------------------------
(* The page: external, as the prober's tests and comments describe it *)

ProberUnchanged == UNCHANGED <<glitches, pc, resume, now, candidate, since, initial,
                               armed, read, update_confirmed,
                               response_completion_observed, results>>

AppendDates ==
  /\ \E more \in SUBSET (offered \ listed) :
       more # {} /\ listed' = listed \cup more
  /\ UNCHANGED <<offer, selected, shown, unsent, queue, applying, age, unrendered,
                 mutated, others, update, answered>>
  /\ ProberUnchanged

\* In the update loop; the monitor listens from before the selection on.
Updating == pc \in {"dates", "shifts", "judge"} \/ (pc = "wait" /\ resume = "dates")
Listening == pc = "select" \/ Updating

\* Seeded fault: any request to the endpoint is taken for the target's.
PairsAnyRequest(date) == LivewireBound /\ Listening /\ ~update.request_started

\* _request_matches_selection: of the requests sent while the monitor listens
\* it pairs the first whose payload names the target's option.
Pairs(date) == LivewireBound /\ Listening /\ ~update.request_started /\ date = target

\* by: the target whose monitor paired the request, 0 if none did.
Send(date) ==
  /\ queue' = Append(queue, [date |-> date,
                             by |-> IF Pairs(date) THEN Len(results) + 1 ELSE 0])
  /\ update' = [update EXCEPT !.request_started = @ \/ Pairs(date)]

SendSelection ==
  /\ unsent # None
  /\ Send(unsent) /\ unsent' = None
  /\ UNCHANGED <<offer, listed, selected, shown, applying, age, unrendered, mutated,
                 others, answered>>
  /\ ProberUnchanged

\* Traffic of the page's own: the answer renders what is selected already.
SendOther ==
  /\ others < MaxOthers /\ others' = others + 1
  /\ Send(None)
  /\ UNCHANGED <<offer, listed, selected, shown, unsent, applying, age, unrendered,
                 mutated, answered>>
  /\ ProberUnchanged

\* The first request in line is answered or fails; _on_response,
\* _on_request_finished and _on_request_failed look at the paired one only.
Answer(ok) ==
  /\ queue # <<>> /\ applying = None
  /\ LET request == Head(queue)
         mine == request.by = Len(results) + 1
     IN  /\ update' = [update EXCEPT !.succeeded = @ \/ (mine /\ ok),
                                     !.failed = @ \/ (mine /\ ~ok)]
         /\ applying' = IF ok THEN request.date ELSE None
         /\ mutated' = (mutated \/ (ok /\ request.date = None /\ armed))
  /\ queue' = Tail(queue)
  /\ UNCHANGED <<offer, listed, selected, shown, unsent, age, unrendered, others, answered>>
  /\ ProberUnchanged

\* The list may be emptied before it is filled again.
Blank ==
  /\ applying # None /\ shown # Empty
  /\ shown' = Empty
  /\ mutated' = (mutated \/ armed)
  /\ UNCHANGED <<offer, listed, selected, unsent, queue, applying, age, unrendered,
                 others, update, answered>>
  /\ ProberUnchanged

\* The rendered answer may set the date control to the date it is for.
Render ==
  /\ applying # None
  /\ shown' = offer[applying]
  /\ selected' \in {selected, applying}
  /\ mutated' = (mutated \/ armed)
  /\ answered' = IF Updating /\ applying = target /\ selected' = target
                 THEN now ELSE answered
  /\ applying' = None /\ unrendered' = 0
  /\ UNCHANGED <<offer, listed, unsent, queue, age, others, update>>
  /\ ProberUnchanged

\* The page lives from page.goto to context.close.
Page ==
  /\ pc \notin {"navigate", "done", "raised"}
  /\ \/ AppendDates \/ SendSelection \/ SendOther \/ Blank \/ Render
     \/ \E ok \in BOOLEAN : Answer(ok)

-----------------------------------------------------------------------------
(* Steps of the prober *)

Glitch == glitches < MaxGlitches /\ glitches' = glitches + 1
NoGlitch == UNCHANGED glitches

\* What _scan_date_controls finds; "one" is the true reading of a page that
\* lists dates.
Reading(kind) ==
  \/ kind = (IF listed = {} THEN "none" ELSE "one") /\ NoGlitch
  \/ kind \in {"none", "many", "failed", "conflict"} /\ Glitch

\* _page_type: a bot, login or error page is met.
Blocked == Glitch

\* The control shows the target, and it is one of its options.
SelectionRead(kind) == kind = "one" /\ selected = target /\ target \in listed

Goto(step) == pc' = step /\ UNCHANGED resume
WaitThen(step) == pc' = "wait" /\ resume' = step

\* _wait: the page keeps its promises about LoadTime and ApplyTime.
Wait ==
  /\ pc = "wait"
  /\ age < LoadTime \/ listed = offered
  /\ applying = None \/ unrendered < ApplyTime
  /\ now' = now + 1
  /\ age' = IF age < LoadTime THEN age + 1 ELSE age
  /\ unrendered' = IF applying = None THEN 0 ELSE unrendered + 1
  /\ Goto(resume)
  /\ UNCHANGED <<offer, listed, selected, shown, unsent, queue, applying, mutated, others,
                 glitches, reader, answered>>

\* A ProbeResult; fetch goes on with the next target on the same page.
Result(status, shifts) ==
  /\ results' = Append(results, [status |-> status, shifts |-> shifts, answered |-> answered])
  /\ Goto(IF Len(results) + 1 = Len(Targets) THEN "done" ELSE "discover")
  /\ now' = 0 /\ candidate' = None /\ since' = None
  /\ initial' = NoControl /\ armed' = FALSE /\ update' = NoUpdate /\ read' = NoRead
  /\ update_confirmed' = FALSE /\ response_completion_observed' = FALSE
  /\ answered' = None
  /\ UNCHANGED page

Failed == Result("error", NoControl)
Undecided == Result("unknown", NoControl)

Track(signature, time) == candidate' = signature /\ since' = time
SelectionUnchanged == UNCHANGED <<initial, armed, update, read, update_confirmed,
                                  response_completion_observed, results, answered>>

\* new_context, new_page and page.goto, before the first target.
Navigate ==
  /\ pc = "navigate"
  /\ \/ Goto("discover") /\ NoGlitch /\ UNCHANGED results
     \/ /\ Goto("done") /\ Glitch
        /\ results' = [k \in DOMAIN Targets |->
                         [status |-> "error", shifts |-> NoControl, answered |-> None]]
  /\ UNCHANGED <<page, now, candidate, since, initial, armed, update, read,
                 update_confirmed, response_completion_observed, answered>>

\* An option for the target was listed: unless it is doubled or disabled, the
\* shift controls are scanned next.
TargetListed ==
  \/ /\ Goto("arm") /\ NoGlitch /\ Track(None, None)
     /\ UNCHANGED <<page, now>> /\ SelectionUnchanged
  \/ Glitch /\ (Failed \/ Undecided)

\* Seeded fault: one stable list without the target is taken for absence.
AbsenceClosedAtOnce(kind, signature, time) ==
  IF kind = "one" /\ now - time >= StableFor
  THEN Result("unavailable", NoControl)
  ELSE /\ WaitThen("absence") /\ Track(signature, time)
       /\ UNCHANGED <<page, now>> /\ SelectionUnchanged

\* The end of an iteration of the absence loop, and its classification once the
\* full window has passed.
AbsenceClosed(kind, signature, time) ==
  \/ /\ now < DateTimeout
     /\ WaitThen("absence") /\ Track(signature, time)
     /\ UNCHANGED <<page, now>> /\ SelectionUnchanged
  \/ /\ now >= DateTimeout
     /\ CASE kind # "one" -> Failed
          [] kind = "one" /\ now - time < StableFor -> Undecided
          [] OTHER -> Result("unavailable", NoControl)

\* One iteration of _wait_for_date_control, and the start of the absence loop.
Discover ==
  /\ pc = "discover"
  /\ \/ now > DateTimeout /\ Failed /\ NoGlitch
     \/ /\ now <= DateTimeout
        /\ Blocked \/ Reading("conflict")
        /\ Failed
     \/ /\ now <= DateTimeout
        /\ \E kind \in {"none", "failed", "many"} : Reading(kind)
        /\ WaitThen("discover") /\ Track(None, None)
        /\ UNCHANGED <<page, now>> /\ SelectionUnchanged
     \/ LET start == IF candidate = listed THEN since ELSE now
        IN  /\ now <= DateTimeout /\ listed # {}
            /\ \/ /\ now - start < StableFor /\ NoGlitch
                  /\ WaitThen("discover") /\ Track(listed, start)
                  /\ UNCHANGED <<page, now>> /\ SelectionUnchanged
               \/ now - start >= StableFor /\ target \in listed /\ TargetListed
               \/ /\ now - start >= StableFor /\ target \notin listed /\ NoGlitch
                  /\ AbsenceClosed("one", listed, now - StableFor)

\* One iteration of the loop that confirms the absence of the target.
ConfirmAbsence ==
  /\ pc = "absence"
  /\ \/ (Blocked \/ Reading("conflict")) /\ Failed
     \/ \E kind \in {"none", "many", "failed"} : Reading(kind) /\ AbsenceClosed(kind, None, None)
     \/ target \in listed /\ TargetListed
     \/ /\ listed # {} /\ target \notin listed /\ NoGlitch
        /\ AbsenceClosed("one", listed, IF candidate = listed THEN since ELSE now)

\* initial_shift_controls; an exception here leaves fetch.
ScanInitial ==
  /\ pc = "arm"
  /\ \/ initial' = shown /\ Goto("observe") /\ NoGlitch
     \/ initial' = NoControl /\ Goto("observe") /\ Glitch
     \/ UNCHANGED initial /\ Goto("raised") /\ Glitch
  /\ UNCHANGED <<page, now, candidate, since, armed, update, read, update_confirmed,
                 response_completion_observed, results, answered>>

\* _arm_dom_update_observer, then update_monitor.start().
Arm ==
  /\ pc = "observe"
  /\ \/ armed' = (initial # NoControl) /\ NoGlitch
     \/ armed' = FALSE /\ Glitch
  /\ mutated' = FALSE
  /\ Goto("select")
  /\ UNCHANGED <<offer, listed, selected, shown, unsent, queue, applying, age, unrendered,
                 others, now, candidate, since, initial, update, read, update_confirmed,
                 response_completion_observed, results, answered>>

\* select_option on the target, and a fresh deadline.
Select ==
  /\ pc = "select"
  /\ \/ Glitch /\ Failed
     \/ /\ NoGlitch
        /\ selected' = target /\ unsent' = target
        /\ now' = 0
        /\ response_completion_observed' = ~LivewireBound
        /\ Goto("dates")
        /\ UNCHANGED <<offer, listed, shown, queue, applying, age, unrendered, mutated,
                       others, candidate, since, initial, armed, update, read,
                       update_confirmed, results, answered>>

\* Seeded fault: the deadline counts only while a shift control is there.
ExpiredIfRead == now > UpdateTimeout /\ read.shifts # NoControl
Expired == now > UpdateTimeout

\* The classification of the last readings when the loop has run out of time.
TimedOut == IF read.failed \/ ~read.one THEN Failed ELSE Undecided

\* The update loop: first the date control is read ...
ScanDates ==
  /\ pc = "dates"
  /\ \/ Expired /\ NoGlitch /\ TimedOut
     \/ ~Expired /\ update.failed /\ NoGlitch /\ Failed
     \/ /\ ~Expired /\ ~update.failed
        /\ \/ Reading("conflict") /\ Failed
           \/ /\ \E kind \in {"none", "many", "one"} :
                   /\ Reading(kind)
                   /\ read' = [read EXCEPT !.one = (kind = "one"), !.failed = FALSE,
                                           !.selected = SelectionRead(kind)]
              /\ Goto("shifts")
              /\ UNCHANGED <<page, now, candidate, since, initial, armed, update,
                             update_confirmed, response_completion_observed, results, answered>>
           \/ /\ Reading("failed")
              /\ read' = [read EXCEPT !.failed = TRUE, !.selected = FALSE, !.shifts = NoControl]
              /\ Goto("judge")
              /\ UNCHANGED <<page, now, candidate, since, initial, armed, update,
                             update_confirmed, response_completion_observed, results, answered>>

\* ... then the shift controls ...
ScanShifts ==
  /\ pc = "shifts"
  /\ \/ read' = [read EXCEPT !.shifts = shown] /\ NoGlitch
     \/ read' = [read EXCEPT !.shifts = NoControl] /\ Glitch
     \/ read' = [read EXCEPT !.failed = TRUE, !.selected = FALSE, !.shifts = NoControl] /\ Glitch
  /\ Goto("judge")
  /\ UNCHANGED <<page, now, candidate, since, initial, armed, update, update_confirmed,
                 response_completion_observed, results, answered>>

\* The completed answer is noticed: the page gets one more turn.
TurnAfterResponse ==
  /\ update.succeeded /\ ~response_completion_observed
  /\ response_completion_observed' = TRUE
  /\ UNCHANGED update_confirmed
  /\ Track(None, None) /\ WaitThen("dates")
  /\ UNCHANGED <<page, now, initial, armed, update, read, results, answered>>

dom_changed == initial = NoControl \/ read.shifts # initial \/ (armed /\ mutated)
network_confirmed == ~LivewireBound \/ (update.succeeded /\ response_completion_observed)
Confirmed == update_confirmed \/ (read.selected /\ (dom_changed \/ update.succeeded))

\* Seeded fault: the stability window starts anew with every reading.
StableSinceRestarted == now
\* candidate_since after this reading.
StableSince == IF read.shifts = candidate THEN since ELSE now

Accepts == read.selected /\ Confirmed /\ network_confirmed /\ read.shifts \in Lists
Settled == Accepts /\ now - StableSince >= StableFor

\* The list is believed once selection, update and answer are confirmed and it
\* has been stable; otherwise the loop goes on.
Weigh ==
  /\ update_confirmed' = (IF read.shifts = NoControl THEN update_confirmed ELSE Confirmed)
  /\ IF Accepts THEN Track(read.shifts, StableSince) ELSE Track(None, None)
  /\ WaitThen("dates")
  /\ UNCHANGED <<page, now, initial, armed, update, read, response_completion_observed,
                 results, answered>>

\* ... then both are judged.
Judge ==
  /\ pc = "judge"
  /\ \/ TurnAfterResponse /\ NoGlitch
     \/ /\ ~update.succeeded \/ response_completion_observed
        /\ \/ Settled /\ NoGlitch /\ Result("available", read.shifts)
           \/ ~Settled /\ NoGlitch /\ Weigh
           \/ (Settled \/ (~read.failed /\ ~read.one)) /\ Blocked /\ Failed

Finish == pc \in {"done", "raised"} /\ UNCHANGED vars

Prober == Navigate \/ Wait \/ Discover \/ ConfirmAbsence \/ ScanInitial \/ Arm \/ Select
          \/ ScanDates \/ ScanShifts \/ Judge

Next == Page \/ Prober \/ Finish

Spec == Init /\ [][Next]_vars

-----------------------------------------------------------------------------
(* Properties *)

\* Each loop of _probe_target ends within its timeout: nothing the page does, and
\* no reading that fails or flickers, keeps it polling after its deadlines.
LoopsEnd == now <= (IF Updating THEN UpdateTimeout ELSE DateTimeout) + 1

\* A list reported for a date is the server's list for that date: whatever is
\* still on its way from an earlier target is never attributed to this one.
Attributed ==
  \A k \in DOMAIN results :
    results[k].status = "available" => results[k].shifts = offer[Targets[k]]

\* "unavailable" means that the server does not offer the date, although dates
\* are appended in phases.
AbsenceIsReal ==
  \A k \in DOMAIN results : results[k].status = "unavailable" => Targets[k] \notin offered

\* A date whose answer was rendered early enough is reported as available even
\* when its list is the one that stood there before.
PromptAnswerIsRead ==
  \A k \in DOMAIN results :
    /\ glitches = 0
    /\ results[k].answered # None
    /\ results[k].answered + 2 + StableFor <= UpdateTimeout
    /\ offer[Targets[k]] \in Lists
    => results[k].status = "available"

\* festzelt_os.py:5-7: no list is attributed without evidence of an update for
\* the target, that is unless an answer to its own selection was rendered.
TargetSpecificEvidence ==
  \A k \in DOMAIN results :
    results[k].status = "available" => results[k].answered # None
====
