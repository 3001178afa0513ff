---- MODULE WizardProbe_proofs ----
(***************************************************************************)
(* The probe of a booking wizard, for any dates, shift lists and timeouts  *)
(* and any number of requests of the page and of glitches: types, the end  *)
(* of its loops, and what its results say of the server's offer.           *)
(***************************************************************************)
EXTENDS WizardProbe, TLAPS

-----------------------------------------------------------------------------
(* Types *)

Requests == [date : offered \cup {None}, by : 0..Len(Targets)]
Updates == [request_started : BOOLEAN, succeeded : BOOLEAN, failed : BOOLEAN]
Reads == [one : BOOLEAN, selected : BOOLEAN, failed : BOOLEAN, shifts : Shown]
ProbeResults == [status : {"available", "unavailable", "unknown", "error"},
                 shifts : Shown, answered : Nat \cup {None}]

PageTypeOK ==
  /\ offer \in [Dates -> Lists \cup {Empty, None}]
  /\ listed \subseteq offered
  /\ selected \in offered \cup {None}
  /\ shown \in Shown
  /\ unsent \in offered \cup {None}
  /\ queue \in Seq(Requests)
  /\ applying \in offered \cup {None}
  /\ age \in Nat /\ unrendered \in Nat /\ others \in Nat
  /\ mutated \in BOOLEAN

ProberTypeOK ==
  /\ pc \in {"navigate", "discover", "absence", "arm", "observe", "select", "dates",
             "shifts", "judge", "wait", "done", "raised"}
  /\ resume \in {"discover", "absence", "dates"}
  /\ now \in Nat /\ glitches \in Nat
  /\ candidate \in Lists \cup (SUBSET Dates) \cup {None}
  /\ since \in Int \cup {None}
  /\ initial \in Shown /\ armed \in BOOLEAN
  /\ update \in Updates /\ read \in Reads
  /\ update_confirmed \in BOOLEAN /\ response_completion_observed \in BOOLEAN
  /\ answered \in Nat \cup {None}
  /\ results \in Seq(ProbeResults)

\* There is a target as long as fetch runs, and none is left when it is done.
InTurn ==
  /\ Len(results) <= Len(Targets)
  /\ pc = "done" <=> Len(results) = Len(Targets)

\* A target is selected only once the control lists it, and it stays listed.
Chosen == pc \in {"arm", "observe", "select"} \/ Updating => target \in listed

TypeOK == PageTypeOK /\ ProberTypeOK /\ InTurn /\ Chosen

-----------------------------------------------------------------------------
(* Deadlines *)

Deadlines ==
  /\ pc \in {"navigate", "done"} => now = 0
  /\ pc = "discover" => now <= DateTimeout + 1
  /\ pc \in {"absence", "arm", "observe", "select", "raised"} => now <= DateTimeout
  /\ pc = "wait" /\ resume = "discover" => now <= DateTimeout
  /\ pc = "wait" /\ resume = "absence" => now < DateTimeout
  /\ pc = "dates" => now <= UpdateTimeout + 1
  /\ pc \in {"shifts", "judge"} \/ (pc = "wait" /\ resume = "dates") => now <= UpdateTimeout

\* The loop cannot have run longer than the page lives without all dates listed.
AllListedInTime == age <= LoadTime /\ (now <= age \/ listed = offered)

-----------------------------------------------------------------------------
(* The request of the target's selection *)

Closed == pc \in {"done", "raised"}

\* The dates of earlier targets; None for traffic of the page's own.
Earlier == {Targets[k] : k \in 1..Len(results)} \cup {None}

Foreign(request) == request.date \in Earlier /\ request.by <= Len(results)
Idle(request) == request.date = None /\ request.by <= Len(results)
Own(request) ==
  /\ request.date = target
  /\ request.by = IF LivewireBound THEN Len(results) + 1 ELSE 0

Monitored(started, succeeded, failed) ==
  /\ update.request_started = (LivewireBound /\ started)
  /\ update.succeeded = (LivewireBound /\ succeeded)
  /\ update.failed = (LivewireBound /\ failed)

Unselected ==
  /\ unsent \in Earlier /\ applying \in Earlier
  /\ \A i \in DOMAIN queue : Foreign(queue[i])
  /\ Monitored(FALSE, FALSE, FALSE)

Unsent ==
  /\ unsent = target /\ applying \in Earlier
  /\ \A i \in DOMAIN queue : Foreign(queue[i])
  /\ Monitored(FALSE, FALSE, FALSE)

Sent ==
  /\ unsent = None /\ applying \in Earlier
  /\ \E p \in DOMAIN queue :
       /\ Own(queue[p])
       /\ \A i \in 1..(p - 1) : Foreign(queue[i])
       /\ \A i \in (p + 1)..Len(queue) : Idle(queue[i])
  /\ Monitored(TRUE, FALSE, FALSE)

Applying ==
  /\ unsent = None /\ applying = target
  /\ \A i \in DOMAIN queue : Idle(queue[i])
  /\ Monitored(TRUE, TRUE, FALSE)

Rendered ==
  /\ unsent = None /\ applying = None
  /\ \A i \in DOMAIN queue : Idle(queue[i])
  /\ shown = offer[target]
  /\ Monitored(TRUE, TRUE, FALSE)

Lost ==
  /\ unsent = None /\ applying = None
  /\ \A i \in DOMAIN queue : Idle(queue[i])
  /\ Monitored(TRUE, FALSE, TRUE)

\* The request is in one of five stages; the answer counts as rendered only in
\* the last one of its way, while the control shows the target.
Stages ==
  /\ ~Closed /\ ~Updating => Unselected /\ answered = None
  /\ Updating => Unsent \/ Sent \/ Applying \/ Rendered \/ Lost
  /\ Updating /\ answered # None => Rendered /\ selected = target /\ answered <= now

\* A finished answer does not wait longer than the page promises.
Timely ==
  /\ applying = None => unrendered = 0
  /\ unrendered <= ApplyTime

-----------------------------------------------------------------------------
(* Attribution *)

\* While the answer is not rendered, a candidate is younger than the answer.
Younger(limit) == candidate \in Lists => now - since + 1 <= limit

Tracking ==
  /\ pc \in {"arm", "observe", "select"} => candidate = None
  /\ Updating => candidate \in Lists \cup {None}
  /\ Updating /\ candidate \in Lists => since \in Nat /\ since <= now

Evidence ==
  Updating =>
    /\ response_completion_observed => update.succeeded
    /\ ~response_completion_observed => candidate = None
    /\ response_completion_observed /\ applying # None =>
         /\ pc # "wait" => unrendered >= 1
         /\ Younger(unrendered)
    /\ response_completion_observed /\ pc = "judge" /\ read.shifts \in Lists =>
         \/ read.shifts = offer[target]
         \/ 1 <= ApplyTime /\ Younger(ApplyTime)

-----------------------------------------------------------------------------
(* The prompt answer *)

\* The answer is rendered, and nothing misread it.
Due == Updating /\ glitches = 0 /\ answered # None /\ offer[target] \in Lists

\* Without a glitch every reading after the rendering of the answer is the true
\* one; one more turn later it is confirmed, and then it stays.
Prompt ==
  Due =>
    /\ pc = "shifts" /\ now > answered => read.one /\ read.selected /\ ~read.failed
    /\ pc = "judge" /\ now > answered =>
         read = [one |-> TRUE, selected |-> TRUE, failed |-> FALSE, shifts |-> offer[target]]
    /\ armed => mutated
    /\ now >= (IF pc = "wait" THEN answered + 1 ELSE answered + 2)
         => response_completion_observed
    /\ now >= (IF pc = "wait" THEN answered + 2 ELSE answered + 3)
         => candidate = offer[target] /\ since <= answered + 2
    /\ now <= answered + 2 + StableFor
    /\ pc = "wait" => now < answered + 2 + StableFor

\* The observer stands wherever it has something to observe.
Observed ==
  glitches = 0 /\ (pc = "select" \/ Updating) => armed = (initial # NoControl)
UnboundObserved == Updating /\ ~LivewireBound => response_completion_observed

-----------------------------------------------------------------------------
(* Targets, and the shapes of a step *)

LEMMA Times ==
  /\ StableFor \in Nat /\ DateTimeout \in Nat /\ UpdateTimeout \in Nat
  /\ LoadTime \in Nat /\ LoadTime < DateTimeout
  /\ ApplyTime \in Nat /\ ApplyTime <= StableFor
<1> QED
  BY WizardAssumption DEF WizardAssumption

LEMMA TargetFacts ==
  ASSUME ProberTypeOK, Len(results) < Len(Targets)
  PROVE  /\ target \in Dates
         /\ target \notin Earlier
         /\ target # None
         /\ Len(results) \in Nat
         /\ None \in Earlier
<1>1. /\ Targets \in Seq(Dates)
      /\ \A a, b \in DOMAIN Targets : Targets[a] = Targets[b] => a = b
      /\ None \notin Dates
  BY WizardAssumption DEF IsInjective, WizardAssumption
<1>2. Len(results) \in Nat /\ Len(Targets) \in Nat /\ DOMAIN Targets = 1..Len(Targets)
  BY <1>1 DEF ProberTypeOK
<1>3. Len(results) + 1 \in DOMAIN Targets
  BY <1>2
<1>4. target \in Dates
  BY <1>1, <1>3 DEF target
<1>5. ASSUME NEW k \in 1..Len(results)
      PROVE  Targets[k] # target
  <2>1. k \in DOMAIN Targets /\ k # Len(results) + 1
    BY <1>2, <1>5
  <2> QED
    BY <2>1, <1>1, <1>3 DEF target
<1> QED
  BY <1>1, <1>2, <1>4, <1>5 DEF Earlier

LEMMA SameTurn ==
  ASSUME UNCHANGED results
  PROVE  target' = target /\ Earlier' = Earlier
<1> QED
  BY DEF target, Earlier

\* What the server offers never changes while the page is open.
LEMMA OfferFixed ==
  ASSUME [Next]_vars
  PROVE  offer' = offer /\ offered' = offered
<1>1. offer' = offer
  <2>1. ASSUME Page PROVE offer' = offer
    BY <2>1 DEF Page, AppendDates, SendSelection, SendOther, Blank, Render, Answer
  <2>2. ASSUME Navigate \/ Wait \/ ScanInitial \/ Arm PROVE offer' = offer
    BY <2>2 DEF Navigate, Wait, ScanInitial, Arm, page
  <2>3. ASSUME Select \/ ScanDates PROVE offer' = offer
    BY <2>3 DEF Select, ScanDates, TimedOut, Failed, Undecided, Result, page
  <2>4. ASSUME ScanShifts \/ Judge PROVE offer' = offer
    BY <2>4 DEF ScanShifts, Judge, TurnAfterResponse, Weigh, Failed, Result, page
  <2>5. ASSUME Discover PROVE offer' = offer
    BY <2>5 DEF Discover, TargetListed, AbsenceClosed, Failed, Undecided, Result, page
  <2>6. ASSUME ConfirmAbsence PROVE offer' = offer
    BY <2>6 DEF ConfirmAbsence, TargetListed, AbsenceClosed, Failed, Undecided, Result, page
  <2> QED
    BY <2>1, <2>2, <2>3, <2>4, <2>5, <2>6 DEF Next, Prober, Finish, vars, page
<1> QED
  BY <1>1 DEF offered

Counted == glitches' = glitches \/ glitches' = glitches + 1

\* A step of the date loops that does not end the probe of the target.
Searching == UNCHANGED <<page, now>> /\ SelectionUnchanged

Tracked ==
  /\ candidate' \in (SUBSET Dates) \cup {None}
  /\ since' \in Int \cup {None}

\* What an iteration of one of the two date loops does.
LEMMA DateLoops ==
  ASSUME TypeOK, Discover \/ ConfirmAbsence
  PROVE  /\ Counted /\ pc \in {"discover", "absence"}
         /\ \/ \E status \in {"error", "unknown"} : Result(status, NoControl)
            \/ Result("unavailable", NoControl) /\ now >= DateTimeout /\ target \notin listed
            \/ pc = "discover" /\ now <= DateTimeout /\ WaitThen("discover")
               /\ Searching /\ Tracked
            \/ now < DateTimeout /\ WaitThen("absence") /\ Searching /\ Tracked
            \/ /\ pc = "discover" => now <= DateTimeout
               /\ target \in listed /\ Goto("arm") /\ Searching
               /\ candidate' = None /\ since' = None
<1> USE DEF Counted
<1>0. /\ now \in Nat /\ listed \in SUBSET Dates /\ since \in Int \cup {None}
      /\ StableFor \in Nat /\ DateTimeout \in Nat
  BY Times DEF TypeOK, PageTypeOK, ProberTypeOK, offered
<1> DEFINE Out ==
      \/ \E status \in {"error", "unknown"} : Result(status, NoControl)
      \/ Result("unavailable", NoControl) /\ now >= DateTimeout /\ target \notin listed
      \/ now < DateTimeout /\ WaitThen("absence") /\ Searching /\ Tracked
<1>1. ASSUME NEW kind, NEW signature \in (SUBSET Dates) \cup {None},
             NEW time \in Int \cup {None}, AbsenceClosed(kind, signature, time),
             kind = "one" => target \notin listed
      PROVE  Out
  <2>1. CASE now < DateTimeout
    BY <1>0, <1>1, <2>1 DEF AbsenceClosed, Searching, Tracked, Track
  <2>2. CASE ~(now < DateTimeout)
    <3>1. CASE kind # "one"
      BY <1>1, <2>2, <3>1 DEF AbsenceClosed, Failed
    <3>2. CASE kind = "one"
      BY <1>0, <1>1, <2>2, <3>2 DEF AbsenceClosed, Undecided
    <3> QED
      BY <3>1, <3>2
  <2> QED
    BY <2>1, <2>2
<1>2. ASSUME TargetListed
      PROVE  /\ Counted
             /\ \/ \E status \in {"error", "unknown"} : Result(status, NoControl)
                \/ Goto("arm") /\ Searching /\ candidate' = None /\ since' = None
  BY <1>2 DEF TargetListed, Searching, Failed, Undecided, Track, Glitch, NoGlitch
<1>3. \A kind : Reading(kind) => Counted
  BY DEF Reading, Glitch, NoGlitch
<1>4. Blocked => Counted
  BY DEF Blocked, Glitch
<1>5. ASSUME ConfirmAbsence
      PROVE  /\ Counted /\ pc = "absence"
             /\ Out \/ (target \in listed /\ Goto("arm") /\ Searching
                        /\ candidate' = None /\ since' = None)
  <2>1. pc = "absence"
    BY <1>5 DEF ConfirmAbsence
  <2>2. CASE (Blocked \/ Reading("conflict")) /\ Failed
    BY <2>1, <2>2, <1>3, <1>4 DEF Failed
  <2>3. CASE \E kind \in {"none", "many", "failed"} :
               Reading(kind) /\ AbsenceClosed(kind, None, None)
    <3> PICK kind \in {"none", "many", "failed"} :
               Reading(kind) /\ AbsenceClosed(kind, None, None)
      BY <2>3
    <3> HIDE DEF Out
    <3> QED
      BY <2>1, <1>1, <1>3
  <2>4. CASE target \in listed /\ TargetListed
    BY <2>1, <2>4, <1>2
  <2>5. CASE /\ listed # {} /\ target \notin listed /\ NoGlitch
             /\ AbsenceClosed("one", listed, IF candidate = listed THEN since ELSE now)
    <3>1. (IF candidate = listed THEN since ELSE now) \in Int \cup {None}
      BY <1>0
    <3> HIDE DEF Out
    <3> QED
      BY <2>1, <2>5, <3>1, <1>0, <1>1 DEF NoGlitch
  <2> QED
    BY <1>5, <2>2, <2>3, <2>4, <2>5 DEF ConfirmAbsence
<1>6. ASSUME Discover
      PROVE  /\ Counted /\ pc = "discover"
             /\ \/ Out
                \/ now <= DateTimeout /\ WaitThen("discover") /\ Searching /\ Tracked
                \/ /\ now <= DateTimeout /\ target \in listed /\ Goto("arm") /\ Searching
                   /\ candidate' = None /\ since' = None
  <2>1. pc = "discover"
    BY <1>6 DEF Discover
  <2>2. CASE now > DateTimeout /\ Failed /\ NoGlitch
    BY <2>1, <2>2 DEF Failed, NoGlitch
  <2>3. CASE (Blocked \/ Reading("conflict")) /\ Failed
    BY <2>1, <2>3, <1>3, <1>4 DEF Failed
  <2>4. CASE /\ now <= DateTimeout
             /\ \E kind \in {"none", "failed", "many"} : Reading(kind)
             /\ WaitThen("discover") /\ Track(None, None)
             /\ UNCHANGED <<page, now>> /\ SelectionUnchanged
    BY <2>1, <2>4, <1>3 DEF Searching, Tracked, Track
  <2> DEFINE start == IF candidate = listed THEN since ELSE now
  <2>5. start \in Int \cup {None}
    BY <1>0
  <2>6. CASE /\ now <= DateTimeout /\ NoGlitch
             /\ WaitThen("discover") /\ Track(listed, start)
             /\ UNCHANGED <<page, now>> /\ SelectionUnchanged
    BY <2>1, <2>5, <2>6, <1>0 DEF Searching, Tracked, Track, NoGlitch
  <2>7. CASE now <= DateTimeout /\ target \in listed /\ TargetListed
    BY <2>1, <2>7, <1>2
  <2>8. CASE /\ target \notin listed /\ NoGlitch
             /\ AbsenceClosed("one", listed, now - StableFor)
    <3>1. now - StableFor \in Int
      BY <1>0
    <3> HIDE DEF Out
    <3> QED
      BY <2>1, <2>8, <3>1, <1>0, <1>1 DEF NoGlitch
  <2> HIDE DEF Out
  <2> QED
    BY <1>6, <2>2, <2>3, <2>4, <2>6, <2>7, <2>8 DEF Discover
<1> QED
  BY <1>5, <1>6
-----------------------------------------------------------------------------
(* Type correctness *)

LEMMA PageKept ==
  ASSUME PageTypeOK, UNCHANGED page
  PROVE  PageTypeOK'
<1>1. offered' = offered
  BY DEF offered, page
<1>2. Requests' = Requests
  BY <1>1 DEF Requests
<1> QED
  BY <1>1, <1>2 DEF PageTypeOK, page

LEMMA ResultTypes ==
  ASSUME TypeOK, pc # "done", Counted,
         NEW status \in {"available", "unavailable", "unknown", "error"},
         NEW shifts \in Shown, Result(status, shifts)
  PROVE  /\ TypeOK'
         /\ Len(results') = Len(results) + 1
         /\ \A k \in DOMAIN results : results'[k] = results[k]
         /\ DOMAIN results' = 1..(Len(results) + 1)
         /\ results'[Len(results) + 1] =
              [status |-> status, shifts |-> shifts, answered |-> answered]
<1> DEFINE result == [status |-> status, shifts |-> shifts, answered |-> answered]
<1>1. result \in ProbeResults
  BY DEF ProbeResults, TypeOK, ProberTypeOK
<1>2. results' = Append(results, result)
  BY DEF Result
<1>3. /\ results \in Seq(ProbeResults) /\ Len(results) \in Nat
      /\ Len(results) < Len(Targets) /\ Len(Targets) \in Nat
  BY WizardAssumption DEF TypeOK, InTurn, ProberTypeOK, WizardAssumption
<1>4. /\ results' \in Seq(ProbeResults)
      /\ Len(results') = Len(results) + 1
      /\ \A k \in DOMAIN results : results'[k] = results[k]
      /\ DOMAIN results' = 1..(Len(results) + 1)
      /\ results'[Len(results) + 1] = result
  <2> HIDE DEF result
  <2> QED
    BY <1>1, <1>2, <1>3
<1>5. PageTypeOK'
  BY PageKept DEF Result, TypeOK
<1>6. ProberTypeOK'
  <2>1. /\ pc' \in {"done", "discover"} /\ resume' = resume /\ now' = 0
        /\ candidate' = None /\ since' = None
        /\ initial' = NoControl /\ armed' = FALSE /\ update' = NoUpdate /\ read' = NoRead
        /\ update_confirmed' = FALSE /\ response_completion_observed' = FALSE
        /\ answered' = None
    BY DEF Result, Goto
  <2>2. glitches' \in Nat
    BY DEF Counted, TypeOK, ProberTypeOK
  <2>3. NoUpdate \in Updates /\ NoRead \in Reads
    BY DEF NoUpdate, NoRead, Updates, Reads, Shown
  <2> QED
    BY <1>4, <2>1, <2>2, <2>3 DEF ProberTypeOK, TypeOK, Shown
<1>7. InTurn' /\ Chosen'
  BY <1>3, <1>4 DEF InTurn, Chosen, Updating, Result, Goto
<1> QED
  BY <1>4, <1>5, <1>6, <1>7 DEF TypeOK

LEMMA TypeInit == Init => TypeOK
<1> SUFFICES ASSUME Init
             PROVE  TypeOK
  OBVIOUS
<1>1. PageTypeOK
  <2>1. shown \in Shown
    BY DEF Init, offered, Shown
  <2>2. queue = <<>> /\ <<>> \in Seq(Requests)
    BY DEF Init
  <2>3. /\ offer \in [Dates -> Lists \cup {Empty, None}]
        /\ listed = {} /\ selected \in offered \cup {None}
        /\ unsent = None /\ applying = None
        /\ age = 0 /\ unrendered = 0 /\ mutated = FALSE /\ others = 0
    BY DEF Init
  <2> QED
    BY <2>1, <2>2, <2>3 DEF PageTypeOK
<1>2. ProberTypeOK
  <2>1. results = <<>> /\ <<>> \in Seq(ProbeResults)
    BY DEF Init
  <2>2. update \in Updates /\ read \in Reads /\ initial \in Shown
    BY DEF Init, Updates, Reads, NoUpdate, NoRead, Shown
  <2>3. /\ glitches = 0 /\ pc = "navigate" /\ resume = "discover" /\ now = 0
        /\ candidate = None /\ since = None /\ armed = FALSE
        /\ update_confirmed = FALSE /\ response_completion_observed = FALSE
        /\ answered = None
    BY DEF Init
  <2> QED
    BY <2>1, <2>2, <2>3 DEF ProberTypeOK
<1>3. InTurn /\ Chosen
  BY WizardAssumption DEF Init, InTurn, Chosen, Updating, WizardAssumption
<1> QED
  BY <1>1, <1>2, <1>3 DEF TypeOK

LEMMA PageTypes ==
  ASSUME TypeOK, Page
  PROVE  TypeOK'
<1>0. Len(results) < Len(Targets) /\ pc # "done" /\ Len(results) + 1 \in 1..Len(Targets)
      /\ Len(results) \in Nat
  BY WizardAssumption DEF Page, TypeOK, InTurn, ProberTypeOK, WizardAssumption
<1>1. /\ UNCHANGED <<glitches, pc, resume, now, candidate, since, initial, armed, read,
                     update_confirmed, response_completion_observed, results>>
      /\ offer' = offer
  BY DEF Page, AppendDates, SendSelection, SendOther, Blank, Render, Answer, ProberUnchanged
<1>2. offered' = offered /\ Requests' = Requests
  BY <1>1 DEF offered, Requests
<1>3. update' \in Updates /\ answered' \in Nat \cup {None}
  <2> USE DEF TypeOK, ProberTypeOK, Updates
  <2>1. ASSUME NEW date, Send(date) PROVE update' \in Updates
    <3>1. CASE Pairs(date)
      <4>1. update' = [update EXCEPT !.request_started = TRUE]
        BY <2>1, <3>1 DEF Send
      <4> QED
        BY <4>1
    <3>2. CASE ~Pairs(date)
      <4>1. update' = [update EXCEPT !.request_started = @]
        BY <2>1, <3>2 DEF Send
      <4> QED
        BY <4>1
    <3> QED
      BY <3>1, <3>2
  <2>2. ASSUME AppendDates \/ Blank PROVE UNCHANGED <<update, answered>>
    BY <2>2 DEF AppendDates, Blank
  <2>3. ASSUME SendSelection \/ SendOther PROVE update' \in Updates /\ answered' = answered
    BY <2>1, <2>3 DEF SendSelection, SendOther
  <2>4. ASSUME Render PROVE update' = update /\ answered' \in {now, answered}
    BY <2>4 DEF Render
  <2>5. ASSUME NEW ok \in BOOLEAN, Answer(ok) PROVE update' \in Updates /\ answered' = answered
    <3>1. answered' = answered
      BY <2>5 DEF Answer
    <3>2. \E mine \in BOOLEAN :
            update' = [update EXCEPT !.succeeded = @ \/ (mine /\ ok),
                                     !.failed = @ \/ (mine /\ ~ok)]
      BY <2>5 DEF Answer
    <3> QED
      BY <3>1, <3>2, <2>5
  <2> QED
    BY <2>2, <2>3, <2>4, <2>5 DEF Page
<1>4. PageTypeOK'
  <2>1. ASSUME AppendDates PROVE PageTypeOK'
    BY <1>2, <2>1 DEF AppendDates, TypeOK, PageTypeOK
  <2>2. ASSUME NEW date \in offered \cup {None}, Send(date) PROVE queue' \in Seq(Requests)
    <3>1. [date |-> date, by |-> IF Pairs(date) THEN Len(results) + 1 ELSE 0] \in Requests
      BY <1>0 DEF Requests
    <3> QED
      BY <2>2, <3>1 DEF Send, TypeOK, PageTypeOK
  <2>3. ASSUME SendSelection PROVE PageTypeOK'
    <3>1. queue' \in Seq(Requests)
      BY <2>2, <2>3 DEF SendSelection, TypeOK, PageTypeOK
    <3> QED
      BY <1>2, <2>3, <3>1 DEF SendSelection, TypeOK, PageTypeOK
  <2>4. ASSUME SendOther PROVE PageTypeOK'
    <3>1. queue' \in Seq(Requests)
      BY <2>2, <2>4 DEF SendOther
    <3> QED
      BY <1>2, <2>4, <3>1 DEF SendOther, TypeOK, PageTypeOK
  <2>5. ASSUME Blank PROVE PageTypeOK'
    <3>1. mutated' \in BOOLEAN
      BY <2>5 DEF Blank, TypeOK, PageTypeOK, ProberTypeOK
    <3> QED
      BY <1>2, <2>5, <3>1 DEF Blank, TypeOK, PageTypeOK, Shown
  <2>6. ASSUME Render PROVE PageTypeOK'
    <3>1. mutated' \in BOOLEAN
      BY <2>6 DEF Render, TypeOK, PageTypeOK, ProberTypeOK
    <3>2. applying \in offered /\ offer[applying] \in Shown
      BY <2>6 DEF Render, TypeOK, PageTypeOK, offered, Shown
    <3> QED
      BY <1>2, <2>6, <3>1, <3>2 DEF Render, TypeOK, PageTypeOK
  <2>7. ASSUME NEW ok \in BOOLEAN, Answer(ok) PROVE PageTypeOK'
    <3>1. mutated' \in BOOLEAN
      BY <2>7 DEF Answer, TypeOK, PageTypeOK, ProberTypeOK
    <3>2. queue' \in Seq(Requests) /\ Head(queue) \in Requests
      BY <2>7 DEF Answer, TypeOK, PageTypeOK
    <3>3. applying' \in offered \cup {None}
      BY <2>7, <3>2 DEF Answer, Requests
    <3> QED
      BY <1>2, <2>7, <3>1, <3>2, <3>3 DEF Answer, TypeOK, PageTypeOK
  <2> QED
    BY <2>1, <2>3, <2>4, <2>5, <2>6, <2>7 DEF Page
<1>5. Chosen'
  <2>1. target' = target /\ Updating' = Updating
    BY <1>1, SameTurn DEF Updating
  <2>2. listed \subseteq listed'
    BY DEF Page, AppendDates, SendSelection, SendOther, Blank, Render, Answer
  <2> QED
    BY <1>1, <2>1, <2>2 DEF TypeOK, Chosen
<1> QED
  BY <1>1, <1>3, <1>4, <1>5 DEF TypeOK, ProberTypeOK, InTurn

LEMMA NavigateTypes ==
  ASSUME TypeOK, Navigate
  PROVE  TypeOK'
<1>1. PageTypeOK'
  BY PageKept DEF Navigate, TypeOK
<1>2. /\ Len(Targets) \in Nat /\ DOMAIN Targets = 1..Len(Targets)
      /\ Len(results) \in Nat
  BY WizardAssumption DEF WizardAssumption, TypeOK, ProberTypeOK
<1>3. /\ pc = "navigate" /\ pc' \in {"discover", "done"} /\ resume' = resume
      /\ UNCHANGED <<now, candidate, since, initial, armed, update, read,
                     update_confirmed, response_completion_observed, answered>>
      /\ glitches' \in Nat
  BY DEF Navigate, Goto, Glitch, NoGlitch, TypeOK, ProberTypeOK
<1>4. CASE pc' = "discover" /\ results' = results
  BY <1>1, <1>3, <1>4 DEF TypeOK, ProberTypeOK, InTurn, Chosen, Updating
<1>5. CASE /\ pc' = "done"
           /\ results' = [k \in DOMAIN Targets |->
                [status |-> "error", shifts |-> NoControl, answered |-> None]]
  <2>1. [status |-> "error", shifts |-> NoControl, answered |-> None] \in ProbeResults
    BY DEF ProbeResults, Shown
  <2>2. results' \in Seq(ProbeResults) /\ Len(results') = Len(Targets)
    <3> DEFINE failure == [status |-> "error", shifts |-> NoControl, answered |-> None]
    <3>1. results' = [k \in 1..Len(Targets) |-> failure] /\ failure \in ProbeResults
      BY <1>2, <1>5, <2>1
    <3> HIDE DEF failure
    <3> QED
      BY <3>1, <1>2
  <2> QED
    BY <1>1, <1>2, <1>3, <1>5, <2>2 DEF TypeOK, ProberTypeOK, InTurn, Chosen, Updating
<1> QED
  BY <1>4, <1>5 DEF Navigate, Goto

LEMMA WaitTypes ==
  ASSUME TypeOK, Wait
  PROVE  TypeOK'
<1>1. /\ now' = now + 1 /\ pc = "wait" /\ pc' = resume /\ resume' = resume
      /\ age' \in {age, age + 1} /\ unrendered' \in {0, unrendered + 1}
      /\ UNCHANGED <<offer, listed, selected, shown, unsent, queue, applying, mutated, others,
                     glitches, answered>>
      /\ UNCHANGED reader
  BY DEF Wait, Goto
<1>2. /\ candidate' = candidate /\ since' = since /\ initial' = initial /\ armed' = armed
      /\ update' = update /\ read' = read /\ update_confirmed' = update_confirmed
      /\ response_completion_observed' = response_completion_observed /\ results' = results
  BY <1>1 DEF reader
<1>3. offered' = offered /\ Requests' = Requests
  BY <1>1 DEF offered, Requests
<1>4. PageTypeOK'
  BY <1>1, <1>3 DEF TypeOK, PageTypeOK
<1>5. ProberTypeOK' /\ InTurn'
  BY <1>1, <1>2 DEF TypeOK, ProberTypeOK, InTurn
<1>6. Chosen'
  BY <1>1, <1>2, SameTurn DEF TypeOK, ProberTypeOK, Chosen, Updating
<1> QED
  BY <1>4, <1>5, <1>6 DEF TypeOK

LEMMA DateLoopTypes ==
  ASSUME TypeOK, Discover \/ ConfirmAbsence
  PROVE  TypeOK'
<1>1. Counted /\ pc \in {"discover", "absence"}
  BY DateLoops
<1>2. ASSUME NEW status \in {"error", "unknown", "unavailable"}, Result(status, NoControl)
      PROVE  TypeOK'
  BY <1>1, <1>2, ResultTypes DEF Shown
<1>3. ASSUME Searching, Tracked,
             \/ WaitThen("discover") \/ WaitThen("absence")
             \/ Goto("arm") /\ target \in listed
      PROVE  TypeOK'
  <2>1. PageTypeOK'
    BY <1>3, PageKept DEF Searching, TypeOK
  <2>2. glitches' \in Nat
    BY <1>1 DEF Counted, TypeOK, ProberTypeOK
  <2>3. ProberTypeOK' /\ InTurn'
    BY <1>1, <1>3, <2>2
    DEF Searching, SelectionUnchanged, Tracked, TypeOK, ProberTypeOK, InTurn, WaitThen, Goto
  <2>4. Chosen'
    <3>1. target' = target /\ listed' = listed
      BY <1>3, SameTurn DEF Searching, SelectionUnchanged, page
    <3> QED
      BY <1>3, <3>1 DEF Chosen, Updating, WaitThen, Goto
  <2> QED
    BY <2>1, <2>3, <2>4 DEF TypeOK
<1> QED
  BY <1>2, <1>3, DateLoops DEF Tracked

LEMMA SelectionTypes ==
  ASSUME TypeOK, ScanInitial \/ Arm \/ Select
  PROVE  TypeOK'
<1>1. Counted
  BY DEF ScanInitial, Arm, Select, Glitch, NoGlitch, Counted
<1>2. glitches' \in Nat
  BY <1>1 DEF Counted, TypeOK, ProberTypeOK
<1>3. CASE ScanInitial
  <2>1. /\ pc = "arm" /\ pc' \in {"observe", "raised"} /\ resume' = resume
        /\ initial' \in {shown, NoControl, initial}
        /\ UNCHANGED <<page, now, candidate, since, armed, update, read, update_confirmed,
                       response_completion_observed, results, answered>>
    BY <1>3 DEF ScanInitial, Goto
  <2>2. PageTypeOK' /\ shown \in Shown
    BY <2>1, PageKept DEF TypeOK, PageTypeOK
  <2> QED
    BY <1>2, <2>1, <2>2, SameTurn
    DEF TypeOK, ProberTypeOK, InTurn, Shown, Chosen, Updating, page
<1>4. CASE Arm
  <2>1. /\ pc = "observe" /\ pc' = "select" /\ resume' = resume
        /\ mutated' = FALSE
        /\ UNCHANGED <<offer, listed, selected, shown, unsent, queue, applying, age,
                       unrendered, others>>
        /\ UNCHANGED <<now, candidate, since, initial, update, read, update_confirmed,
                       response_completion_observed, results, answered>>
    BY <1>4 DEF Arm, Goto
  <2>2. offered' = offered /\ Requests' = Requests
    BY <2>1 DEF offered, Requests
  <2>3. PageTypeOK'
    BY <2>1, <2>2 DEF TypeOK, PageTypeOK
  <2>4. armed' \in BOOLEAN
    BY <1>4 DEF Arm
  <2> QED
    BY <1>2, <2>1, <2>3, <2>4, SameTurn DEF TypeOK, ProberTypeOK, InTurn, Chosen, Updating
<1>5. CASE Select /\ ~Failed
  <2>0. target \in listed /\ target \in offered
    BY <1>5 DEF Select, TypeOK, Chosen, PageTypeOK
  <2>1. /\ pc = "select" /\ pc' = "dates" /\ resume' = resume
        /\ selected' = target /\ unsent' = target /\ now' = 0
        /\ response_completion_observed' = ~LivewireBound
        /\ UNCHANGED <<offer, listed, shown, queue, applying, age, unrendered, mutated, others>>
        /\ UNCHANGED <<candidate, since, initial, armed, update, read, update_confirmed,
                       results, answered>>
    BY <1>5 DEF Select, Goto
  <2>2. offered' = offered /\ Requests' = Requests
    BY <2>1 DEF offered, Requests
  <2>3. PageTypeOK'
    BY <2>0, <2>1, <2>2 DEF TypeOK, PageTypeOK
  <2>4. response_completion_observed' \in BOOLEAN
    BY <2>1
  <2> QED
    BY <1>2, <2>0, <2>1, <2>3, <2>4, SameTurn
    DEF TypeOK, ProberTypeOK, InTurn, Chosen, Updating
<1>6. CASE Failed /\ Select
  BY <1>1, <1>6, ResultTypes DEF Failed, Select, Shown
<1> QED
  BY <1>3, <1>4, <1>5, <1>6

\* A step of the update loop that reads and does not end the probe.
Reread == UNCHANGED <<page, now, candidate, since, initial, armed, update, update_confirmed,
                      response_completion_observed, results, answered>>

\* What reading the date control in the update loop does.
LEMMA DateScans ==
  ASSUME TypeOK, ScanDates
  PROVE  /\ pc = "dates" /\ Counted
         /\ \/ /\ \E status \in {"error", "unknown"} : Result(status, NoControl)
               /\ Expired \/ update.failed \/ glitches' = glitches + 1
            \/ /\ Reread /\ ~Expired /\ Goto("shifts") /\ read' \in Reads
               /\ glitches' = glitches =>
                    read'.one /\ ~read'.failed /\ read'.selected = (selected = target)
            \/ /\ Reread /\ ~Expired /\ Goto("judge") /\ read' \in Reads
               /\ read'.shifts = NoControl /\ glitches' = glitches + 1
<1> USE DEF Counted
<1>1. pc = "dates"
  BY DEF ScanDates
<1>2. target \in listed
  BY <1>1 DEF TypeOK, Chosen, Updating
<1>3. \A kind : Reading(kind) => Counted
  BY DEF Reading, Glitch, NoGlitch
<1>4. \A kind : Reading(kind) /\ glitches' = glitches => kind = "one"
  BY <1>2 DEF Reading, Glitch, NoGlitch, TypeOK, ProberTypeOK
<1>5. ASSUME TimedOut \/ Failed
      PROVE  \E status \in {"error", "unknown"} : Result(status, NoControl)
  BY <1>5 DEF TimedOut, Failed, Undecided
<1>6. CASE (Expired /\ NoGlitch /\ TimedOut) \/ (~Expired /\ update.failed /\ NoGlitch /\ Failed)
  BY <1>1, <1>5, <1>6 DEF NoGlitch
<1>7. CASE Reading("conflict") /\ Failed
  <2>1. glitches' = glitches + 1
    BY <1>3, <1>4, <1>7
  <2> QED
    BY <1>1, <1>5, <1>7, <2>1
<1>8. ASSUME ~Expired,
             NEW kind \in {"none", "many", "one"}, Reading(kind),
             read' = [read EXCEPT !.one = (kind = "one"), !.failed = FALSE,
                                  !.selected = SelectionRead(kind)],
             Goto("shifts"), Reread
      PROVE  /\ read' \in Reads
             /\ glitches' = glitches =>
                  read'.one /\ ~read'.failed /\ read'.selected = (selected = target)
  <2>1. SelectionRead(kind) \in BOOLEAN
    BY DEF SelectionRead
  <2>2. read \in Reads
    BY DEF TypeOK, ProberTypeOK
  <2>3. /\ read' \in Reads /\ read'.one = (kind = "one") /\ read'.failed = FALSE
        /\ read'.selected = SelectionRead(kind)
    BY <1>8, <2>1, <2>2 DEF Reads
  <2> QED
    BY <1>2, <1>4, <1>8, <2>3 DEF SelectionRead
<1>9. ASSUME Reading("failed"), Goto("judge"),
             read' = [read EXCEPT !.failed = TRUE, !.selected = FALSE, !.shifts = NoControl]
      PROVE  read' \in Reads /\ read'.shifts = NoControl /\ glitches' = glitches + 1
  BY <1>3, <1>4, <1>9 DEF Reads, TypeOK, ProberTypeOK, Shown
<1> QED
  BY <1>1, <1>3, <1>6, <1>7, <1>8, <1>9 DEF ScanDates, Reread

\* What reading the shift controls in the update loop does.
LEMMA ShiftScans ==
  ASSUME TypeOK, ScanShifts
  PROVE  /\ pc = "shifts" /\ Counted /\ Reread /\ Goto("judge") /\ read' \in Reads
         /\ read'.shifts \in {shown, NoControl}
         /\ glitches' = glitches => read' = [read EXCEPT !.shifts = shown]
<1>1. read \in Reads /\ shown \in Shown /\ NoControl \in Shown /\ glitches \in Nat
  BY DEF TypeOK, PageTypeOK, ProberTypeOK, Shown
<1>2. /\ pc = "shifts" /\ Counted /\ Reread /\ Goto("judge")
      /\ \/ read' = [read EXCEPT !.shifts = shown]
         \/ read' = [read EXCEPT !.shifts = NoControl] /\ glitches' = glitches + 1
         \/ /\ read' = [read EXCEPT !.failed = TRUE, !.selected = FALSE, !.shifts = NoControl]
            /\ glitches' = glitches + 1
  BY DEF ScanShifts, Reread, Counted, Glitch, NoGlitch
<1>3. glitches + 1 # glitches
  BY <1>1
<1>4. CASE read' = [read EXCEPT !.shifts = shown]
  <2>1. read' \in Reads /\ read'.shifts = shown
    BY <1>1, <1>4 DEF Reads
  <2> QED
    BY <1>2, <1>4, <2>1
<1>5. CASE /\ read' = [read EXCEPT !.shifts = NoControl] /\ glitches' = glitches + 1
  <2>1. read' \in Reads /\ read'.shifts = NoControl
    BY <1>1, <1>5 DEF Reads
  <2> QED
    BY <1>2, <1>3, <1>5, <2>1
<1>6. CASE /\ read' = [read EXCEPT !.failed = TRUE, !.selected = FALSE, !.shifts = NoControl]
           /\ glitches' = glitches + 1
  <2>1. read' \in Reads /\ read'.shifts = NoControl
    BY <1>1, <1>6 DEF Reads
  <2> QED
    BY <1>2, <1>3, <1>6, <2>1
<1> QED
  BY <1>2, <1>4, <1>5, <1>6

\* What judging the readings does.
LEMMA Judgements ==
  ASSUME TypeOK, Judge
  PROVE  /\ pc = "judge" /\ Counted
         /\ \/ TurnAfterResponse
            \/ /\ ~update.succeeded \/ response_completion_observed
               /\ \/ Settled /\ Result("available", read.shifts)
                  \/ ~Settled /\ Weigh
            \/ Result("error", NoControl) /\ glitches' = glitches + 1
<1> QED
  BY DEF Judge, Counted, NoGlitch, Blocked, Glitch, Failed

LEMMA UpdateTypes ==
  ASSUME TypeOK, ScanDates \/ ScanShifts \/ Judge
  PROVE  TypeOK'
<1>1. Counted /\ pc \in {"dates", "shifts", "judge"}
  BY DateScans, ShiftScans, Judgements
<1>2. ASSUME NEW status \in {"error", "unknown", "available"}, NEW shifts \in Shown,
             Result(status, shifts)
      PROVE  TypeOK'
  BY <1>1, <1>2, ResultTypes
<1>3. NoControl \in Shown /\ read.shifts \in Shown /\ read \in Reads
  BY DEF Shown, TypeOK, ProberTypeOK, Reads
<1>4. glitches' \in Nat /\ pc # "done"
  BY <1>1 DEF Counted, TypeOK, ProberTypeOK
<1>5. target \in listed
  BY <1>1 DEF TypeOK, Chosen, Updating
<1>6. ASSUME Reread, read' \in Reads, Goto("shifts") \/ Goto("judge")
      PROVE  TypeOK'
  <2>1. PageTypeOK'
    BY <1>6, PageKept DEF Reread, TypeOK
  <2>2. target' = target /\ listed' = listed
    BY <1>6, SameTurn DEF Reread, page
  <2> QED
    BY <1>4, <1>5, <1>6, <2>1, <2>2
    DEF Reread, Goto, TypeOK, ProberTypeOK, InTurn, Chosen
<1>7. ASSUME UNCHANGED <<page, now, initial, armed, update, read, results, answered>>,
             candidate' \in Lists \cup {None}, since' \in Int \cup {None}, WaitThen("dates"),
             update_confirmed' \in BOOLEAN, response_completion_observed' \in BOOLEAN
      PROVE  TypeOK'
  <2>1. PageTypeOK'
    BY <1>7, PageKept DEF TypeOK
  <2>2. target' = target /\ listed' = listed
    BY <1>7, SameTurn DEF page
  <2> QED
    BY <1>4, <1>5, <1>7, <2>1, <2>2
    DEF WaitThen, TypeOK, ProberTypeOK, InTurn, Chosen
<1>8. TurnAfterResponse => TypeOK'
  BY <1>7 DEF TurnAfterResponse, Track, TypeOK, ProberTypeOK
<1>9. Weigh => TypeOK'
  <2> SUFFICES ASSUME Weigh
               PROVE  TypeOK'
    OBVIOUS
  <2>1. update_confirmed' \in BOOLEAN
    BY <1>3 DEF Weigh, Confirmed, dom_changed, TypeOK, ProberTypeOK, Reads
  <2>2. candidate' \in Lists \cup {None} /\ since' \in Int \cup {None}
    BY DEF Weigh, Track, Accepts, StableSince, TypeOK, ProberTypeOK
  <2>3. response_completion_observed' \in BOOLEAN
    BY DEF Weigh, TypeOK, ProberTypeOK
  <2> QED
    BY <1>7, <2>1, <2>2, <2>3 DEF Weigh
<1> QED
  BY <1>2, <1>3, <1>6, <1>8, <1>9, DateScans, ShiftScans, Judgements

LEMMA TypeNext == TypeOK /\ [Next]_vars => TypeOK'
<1> SUFFICES ASSUME TypeOK, [Next]_vars
             PROVE  TypeOK'
  OBVIOUS
<1>1. CASE UNCHANGED vars
  <2>1. PageTypeOK'
    BY <1>1, PageKept DEF vars, TypeOK
  <2>2. target' = target /\ listed' = listed
    BY <1>1, SameTurn DEF vars, reader, page
  <2> QED
    BY <1>1, <2>1, <2>2
    DEF vars, reader, TypeOK, ProberTypeOK, InTurn, Chosen, Updating
<1> QED
  BY <1>1, PageTypes, NavigateTypes, WaitTypes, DateLoopTypes, SelectionTypes, UpdateTypes
  DEF Next, Prober, Finish

\* Every variable keeps its type, results are for a prefix of the targets, and the
\* target that is selected is one the date control lists.
THEOREM TypeCorrect == Spec => []TypeOK
<1> QED
  BY TypeInit, TypeNext, PTL DEF Spec

-----------------------------------------------------------------------------
(* The end of the loops *)

LEMMA ResultClock ==
  ASSUME NEW status, NEW shifts, Result(status, shifts)
  PROVE  /\ now' = 0 /\ pc' \in {"done", "discover"} /\ resume' = resume
         /\ UNCHANGED page /\ answered' = None /\ update' = NoUpdate
<1> QED
  BY DEF Result, Goto

LEMMA DeadlinesNext == TypeOK /\ Deadlines /\ [Next]_vars => Deadlines'
<1> SUFFICES ASSUME TypeOK, Deadlines, [Next]_vars
             PROVE  Deadlines'
  OBVIOUS
<1>0. now \in Nat /\ DateTimeout \in Nat /\ UpdateTimeout \in Nat
  BY Times DEF TypeOK, ProberTypeOK
<1>1. ASSUME NEW status, NEW shifts, Result(status, shifts)
      PROVE  Deadlines'
  BY <1>0, <1>1, ResultClock DEF Deadlines
<1>2. CASE Page
  <2>1. pc' = pc /\ resume' = resume /\ now' = now
    BY <1>2 DEF Page, AppendDates, SendSelection, SendOther, Blank, Render, Answer,
                ProberUnchanged
  <2> QED
    BY <2>1 DEF Deadlines
<1>3. CASE Navigate
  BY <1>0, <1>3 DEF Navigate, Goto, Deadlines
<1>4. CASE Wait
  <2>1. pc = "wait" /\ pc' = resume /\ resume' = resume /\ now' = now + 1
    BY <1>4 DEF Wait, Goto
  <2>2. resume \in {"discover", "absence", "dates"}
    BY DEF TypeOK, ProberTypeOK
  <2> QED
    BY <1>0, <2>1, <2>2 DEF Deadlines
<1>5. CASE Discover \/ ConfirmAbsence
  <2>1. ASSUME Searching,
               \/ pc = "discover" /\ now <= DateTimeout /\ WaitThen("discover")
               \/ now < DateTimeout /\ WaitThen("absence")
               \/ Goto("arm") /\ (pc = "discover" => now <= DateTimeout)
        PROVE  Deadlines'
    <3>1. now' = now /\ pc \in {"discover", "absence"}
      BY <1>5, <2>1, DateLoops DEF Searching
    <3>2. pc = "absence" => now <= DateTimeout
      BY DEF Deadlines
    <3> QED
      BY <1>0, <2>1, <3>1, <3>2 DEF Deadlines, WaitThen, Goto
  <2> QED
    BY <1>1, <1>5, <2>1, DateLoops
<1>6. CASE ScanInitial \/ Arm
  BY <1>0, <1>6 DEF ScanInitial, Arm, Goto, Deadlines
<1>7. CASE Select
  <2>1. CASE Failed
    BY <1>1, <2>1 DEF Failed
  <2>2. CASE now' = 0 /\ Goto("dates")
    BY <1>0, <2>2 DEF Goto, Deadlines
  <2> QED
    BY <1>7, <2>1, <2>2 DEF Select
<1>8. CASE ScanDates \/ ScanShifts
  <2>1. ASSUME Reread, ~Expired \/ pc = "shifts", pc \in {"dates", "shifts"},
               Goto("shifts") \/ Goto("judge")
        PROVE  Deadlines'
    <3>1. now' = now /\ now <= UpdateTimeout
      BY <1>0, <2>1 DEF Reread, Expired, Deadlines
    <3> QED
      BY <1>0, <2>1, <3>1 DEF Deadlines, Goto
  <2> QED
    BY <1>1, <1>8, <2>1, DateScans, ShiftScans
<1>9. CASE Judge
  <2>1. ASSUME TurnAfterResponse \/ Weigh
        PROVE  Deadlines'
    <3>1. now' = now /\ now <= UpdateTimeout
      BY <1>0, <1>9, <2>1, Judgements DEF TurnAfterResponse, Weigh, Deadlines
    <3>2. pc' = "wait" /\ resume' = "dates"
      BY <2>1 DEF TurnAfterResponse, Weigh, WaitThen
    <3> QED
      BY <1>0, <3>1, <3>2 DEF Deadlines
  <2> QED
    BY <1>1, <1>9, <2>1, Judgements
<1>10. CASE UNCHANGED vars
  BY <1>10 DEF vars, Deadlines
<1> QED
  BY <1>2, <1>3, <1>4, <1>5, <1>6, <1>7, <1>8, <1>9, <1>10 DEF Next, Prober, Finish

\* Each loop of _probe_target ends within its timeout: nothing the page does, and
\* no reading that fails or flickers, keeps it polling after its deadlines.
THEOREM LoopsEndInTime == Spec => []LoopsEnd
<1>1. Init => Deadlines
  BY Times DEF Init, Deadlines
<1>2. TypeOK /\ Deadlines => LoopsEnd
  BY Times DEF TypeOK, ProberTypeOK, Deadlines, LoopsEnd, Updating
<1> QED
  BY <1>1, <1>2, DeadlinesNext, TypeCorrect, PTL DEF Spec

-----------------------------------------------------------------------------
(* Absence *)

LEMMA AllListedNext == TypeOK /\ AllListedInTime /\ [Next]_vars => AllListedInTime'
<1> SUFFICES ASSUME TypeOK, AllListedInTime, [Next]_vars
             PROVE  AllListedInTime'
  OBVIOUS
<1>0. now \in Nat /\ age \in Nat /\ LoadTime \in Nat /\ offered' = offered
      /\ listed \subseteq offered
  BY Times, OfferFixed DEF TypeOK, ProberTypeOK, PageTypeOK
<1>1. ASSUME NEW status, NEW shifts, Result(status, shifts)
      PROVE  AllListedInTime'
  BY <1>0, <1>1, ResultClock DEF AllListedInTime, page
<1>2. ASSUME UNCHANGED <<listed, age, now>>
      PROVE  AllListedInTime'
  BY <1>0, <1>2 DEF AllListedInTime
<1>3. CASE AppendDates
  <2>1. now' = now /\ age' = age /\ listed \subseteq listed' /\ listed' \subseteq offered
    BY <1>0, <1>3 DEF AppendDates, ProberUnchanged
  <2> QED
    BY <1>0, <2>1 DEF AllListedInTime
<1>4. CASE Page /\ ~AppendDates
  <2>1. listed' = listed /\ age' = age /\ now' = now
    BY <1>4 DEF Page, SendSelection, SendOther, Blank, Render, Answer, ProberUnchanged
  <2> QED
    BY <1>2, <2>1
<1>5. CASE Wait
  <2>1. /\ now' = now + 1 /\ listed' = listed
        /\ age < LoadTime \/ listed = offered
        /\ age' = IF age < LoadTime THEN age + 1 ELSE age
    BY <1>5 DEF Wait
  <2> QED
    BY <1>0, <2>1 DEF AllListedInTime
<1>6. CASE Discover \/ ConfirmAbsence
  <2>1. Searching => AllListedInTime'
    BY <1>2 DEF Searching, page
  <2> QED
    BY <1>1, <1>6, <2>1, DateLoops
<1>7. CASE Navigate \/ ScanInitial \/ Arm
  BY <1>2, <1>7 DEF Navigate, ScanInitial, Arm, page
<1>8. CASE Select
  <2>1. CASE Failed
    BY <1>1, <2>1 DEF Failed
  <2>2. CASE now' = 0 /\ UNCHANGED <<listed, age>>
    BY <1>0, <2>2 DEF AllListedInTime
  <2> QED
    BY <1>8, <2>1, <2>2 DEF Select
<1>9. CASE ScanDates \/ ScanShifts \/ Judge
  <2>1. Reread => AllListedInTime'
    BY <1>2 DEF Reread, page
  <2>2. TurnAfterResponse \/ Weigh => AllListedInTime'
    BY <1>2 DEF TurnAfterResponse, Weigh, page
  <2> QED
    BY <1>1, <1>9, <2>1, <2>2, DateScans, ShiftScans, Judgements
<1>10. CASE UNCHANGED vars
  BY <1>2, <1>10 DEF vars, page
<1> QED
  BY <1>3, <1>4, <1>5, <1>6, <1>7, <1>8, <1>9, <1>10 DEF Next, Prober, Finish, Page

\* Every verdict of a step: which results it adds, where, and why.
Verdict(status, shifts) ==
  \/ /\ status \in {"error", "unknown"} /\ shifts = NoControl
     /\ \/ pc \in {"discover", "absence", "select"}
        \/ pc = "dates" /\ (Expired \/ update.failed)
        \/ pc \in {"dates", "judge"} /\ glitches' = glitches + 1
  \/ /\ status = "unavailable" /\ shifts = NoControl
     /\ pc \in {"discover", "absence"} /\ now >= DateTimeout /\ target \notin listed
  \/ /\ status = "available" /\ shifts = read.shifts
     /\ pc = "judge" /\ Settled /\ (~update.succeeded \/ response_completion_observed)

LEMMA Verdicts ==
  ASSUME TypeOK, [Next]_vars
  PROVE  /\ Counted
         /\ \/ results' = results
            \/ \A k \in DOMAIN results' :
                 results'[k] = [status |-> "error", shifts |-> NoControl, answered |-> None]
            \/ \E status \in {"available", "unavailable", "unknown", "error"}, shifts \in Shown :
                 /\ Verdict(status, shifts)
                 /\ \A k \in DOMAIN results' :
                      \/ k \in DOMAIN results /\ results'[k] = results[k]
                      \/ /\ k = Len(results) + 1
                         /\ results'[k] =
                              [status |-> status, shifts |-> shifts, answered |-> answered]
<1> DEFINE Added(status, shifts) ==
      \A k \in DOMAIN results' :
        \/ k \in DOMAIN results /\ results'[k] = results[k]
        \/ /\ k = Len(results) + 1
           /\ results'[k] = [status |-> status, shifts |-> shifts, answered |-> answered]
<1>1. ASSUME NEW status \in {"available", "unavailable", "unknown", "error"},
             NEW shifts \in Shown, Result(status, shifts), Counted, pc # "done"
      PROVE  Added(status, shifts)
  <2>1. /\ Len(results) \in Nat /\ DOMAIN results = 1..Len(results)
    BY DEF TypeOK, ProberTypeOK
  <2>2. /\ \A k \in DOMAIN results : results'[k] = results[k]
        /\ DOMAIN results' = 1..(Len(results) + 1)
        /\ results'[Len(results) + 1] =
             [status |-> status, shifts |-> shifts, answered |-> answered]
    BY <1>1, ResultTypes
  <2>3. \A k \in 1..(Len(results) + 1) : k \in 1..Len(results) \/ k = Len(results) + 1
    BY <2>1
  <2> QED
    BY <2>1, <2>2, <2>3
<1>2. NoControl \in Shown /\ read.shifts \in Shown
  BY DEF Shown, TypeOK, ProberTypeOK, Reads
<1> DEFINE Judged == \E status \in {"available", "unavailable", "unknown", "error"},
                       shifts \in Shown : Verdict(status, shifts) /\ Added(status, shifts)
<1> HIDE DEF Added
<1>3. ASSUME NEW status \in {"available", "unavailable", "unknown", "error"},
             NEW shifts \in Shown, Result(status, shifts), Counted, pc # "done",
             Verdict(status, shifts)
      PROVE  Judged
  BY <1>1, <1>3
<1> HIDE DEF Judged
<1>4. CASE Page \/ Wait \/ ScanInitial \/ Arm \/ UNCHANGED vars
  <2>1. results' = results /\ Counted
    <3>1. CASE Page
      BY <3>1 DEF Page, AppendDates, SendSelection, SendOther, Blank, Render, Answer,
                  ProberUnchanged, Counted
    <3> QED
      BY <1>4, <3>1 DEF Wait, ScanInitial, Arm, vars, reader, Counted, Glitch, NoGlitch
  <2> QED
    BY <2>1
<1>5. CASE Navigate
  <2>1. Counted
    BY <1>5 DEF Navigate, Counted, Glitch, NoGlitch
  <2>2. \/ results' = results
        \/ \A k \in DOMAIN results' :
             results'[k] = [status |-> "error", shifts |-> NoControl, answered |-> None]
    BY <1>5 DEF Navigate
  <2> QED
    BY <2>1, <2>2
<1>6. CASE Discover \/ ConfirmAbsence
  <2>1. Counted /\ pc \in {"discover", "absence"}
    BY <1>6, DateLoops
  <2>2. ASSUME NEW status \in {"error", "unknown"}, Result(status, NoControl)
        PROVE  Judged
    BY <1>2, <1>3, <2>1, <2>2 DEF Verdict
  <2>3. ASSUME Result("unavailable", NoControl), now >= DateTimeout, target \notin listed
        PROVE  Judged
    BY <1>2, <1>3, <2>1, <2>3 DEF Verdict
  <2>4. Searching => results' = results
    BY DEF Searching, SelectionUnchanged
  <2> QED
    BY <1>6, <2>1, <2>2, <2>3, <2>4, DateLoops DEF Judged, Added
<1>7. CASE Select
  <2>1. Counted /\ pc = "select"
    BY <1>7 DEF Select, Counted, Glitch, NoGlitch
  <2>2. Failed => Judged
    BY <1>2, <1>3, <2>1 DEF Failed, Verdict
  <2>3. ~Failed => results' = results
    BY <1>7 DEF Select
  <2> QED
    BY <2>1, <2>2, <2>3 DEF Judged, Added
<1>8. CASE ScanDates
  <2>1. pc = "dates" /\ Counted
    BY <1>8, DateScans
  <2>2. ASSUME NEW status \in {"error", "unknown"}, Result(status, NoControl),
               Expired \/ update.failed \/ glitches' = glitches + 1
        PROVE  Judged
    BY <1>2, <1>3, <2>1, <2>2 DEF Verdict
  <2>3. Reread => results' = results
    BY DEF Reread
  <2> QED
    BY <1>8, <2>1, <2>2, <2>3, DateScans DEF Judged, Added
<1>9. CASE ScanShifts
  BY <1>9, ShiftScans DEF Reread
<1>10. CASE Judge
  <2>1. pc = "judge" /\ Counted
    BY <1>10, Judgements
  <2>2. ASSUME Result("error", NoControl), glitches' = glitches + 1
        PROVE  Judged
    BY <1>2, <1>3, <2>1, <2>2 DEF Verdict
  <2>3. ASSUME ~update.succeeded \/ response_completion_observed,
               Settled, Result("available", read.shifts)
        PROVE  Judged
    BY <1>2, <1>3, <2>1, <2>3 DEF Verdict
  <2>4. TurnAfterResponse \/ Weigh => results' = results
    BY DEF TurnAfterResponse, Weigh
  <2> QED
    BY <1>10, <2>1, <2>2, <2>3, <2>4, Judgements DEF Judged, Added
<1> QED
  BY <1>4, <1>5, <1>6, <1>7, <1>8, <1>9, <1>10 DEF Next, Prober, Finish, Judged, Added

LEMMA AbsenceNext ==
  TypeOK /\ AllListedInTime /\ AbsenceIsReal /\ [Next]_vars => AbsenceIsReal'
<1> SUFFICES ASSUME TypeOK, AllListedInTime, AbsenceIsReal, [Next]_vars,
                    NEW k \in DOMAIN results', results'[k].status = "unavailable"
             PROVE  Targets[k] \notin offered
  BY OfferFixed DEF AbsenceIsReal
<1>1. CASE k \in DOMAIN results /\ results'[k] = results[k]
  BY <1>1 DEF AbsenceIsReal
<1>2. CASE ~(k \in DOMAIN results /\ results'[k] = results[k])
  <2>1. now >= DateTimeout /\ target \notin listed /\ k = Len(results) + 1
    BY <1>2, Verdicts DEF Verdict
  <2>2. listed = offered
    BY <2>1, Times DEF AllListedInTime, TypeOK, ProberTypeOK, PageTypeOK
  <2> QED
    BY <2>1, <2>2 DEF target
<1> QED
  BY <1>1, <1>2

\* "unavailable" means that the server does not offer the date, although dates
\* are appended in phases: by the end of the full window everything is listed.
THEOREM AbsencesAreReal == Spec => []AbsenceIsReal
<1>1. Init => AllListedInTime /\ AbsenceIsReal
  BY Times DEF Init, AllListedInTime, AbsenceIsReal
<1> QED
  BY <1>1, AllListedNext, AbsenceNext, TypeCorrect, PTL DEF Spec

-----------------------------------------------------------------------------
(* The stages of a request *)

LEMMA Appended ==
  ASSUME queue \in Seq(Requests), NEW request \in Requests, queue' = Append(queue, request)
  PROVE  /\ Len(queue) \in Nat /\ DOMAIN queue = 1..Len(queue)
         /\ Len(queue') = Len(queue) + 1
         /\ DOMAIN queue' = 1..(Len(queue) + 1)
         /\ \A i \in 1..Len(queue) : queue'[i] = queue[i]
         /\ queue'[Len(queue) + 1] = request
<1> QED
  OBVIOUS

LEMMA Taken ==
  ASSUME queue \in Seq(Requests), queue # <<>>, queue' = Tail(queue)
  PROVE  /\ Len(queue) \in Nat \ {0} /\ DOMAIN queue = 1..Len(queue)
         /\ Len(queue') = Len(queue) - 1
         /\ DOMAIN queue' = 1..(Len(queue) - 1)
         /\ \A i \in 1..(Len(queue) - 1) : queue'[i] = queue[i + 1]
         /\ Head(queue) = queue[1]
<1> QED
  OBVIOUS

\* What the page never changes.
LEMMA PageFrame ==
  ASSUME TypeOK, Page
  PROVE  /\ UNCHANGED <<offer, pc, resume, now, results, glitches>>
         /\ target' = target /\ Earlier' = Earlier /\ Updating' = Updating
         /\ target # None /\ target \notin Earlier /\ None \in Earlier
         /\ Len(results) \in Nat /\ ~Closed
<1>1. UNCHANGED <<offer, pc, resume, now, results, glitches>>
  BY DEF Page, AppendDates, SendSelection, SendOther, Blank, Render, Answer, ProberUnchanged
<1>2. ~Closed /\ Len(results) < Len(Targets)
  BY WizardAssumption
  DEF Page, Closed, TypeOK, InTurn, ProberTypeOK, WizardAssumption
<1> QED
  BY <1>1, <1>2, SameTurn, TargetFacts DEF Updating, TypeOK

\* Without a change to the request's way it stays in its stage.
LEMMA StagesKept ==
  ASSUME Stages, UNCHANGED <<offer, unsent, applying, queue, update, results, shown>>
  PROVE  /\ Unselected => Unselected'
         /\ Unsent => Unsent'
         /\ Sent => Sent'
         /\ Applying => Applying'
         /\ Rendered => Rendered'
         /\ Lost => Lost'
<1>1. target' = target /\ Earlier' = Earlier
  BY SameTurn
<1> QED
  BY <1>1 DEF Unselected, Unsent, Sent, Applying, Rendered, Lost, Monitored, Foreign, Idle, Own

LEMMA SendSelectionStages ==
  ASSUME TypeOK, Stages, Page, SendSelection
  PROVE  Stages'
<1> DEFINE request == [date |-> unsent, by |-> IF Pairs(unsent) THEN Len(results) + 1 ELSE 0]
<1>1. /\ unsent # None /\ unsent' = None /\ queue' = Append(queue, request)
      /\ update' = [update EXCEPT !.request_started = @ \/ Pairs(unsent)]
      /\ UNCHANGED <<offer, selected, shown, applying, answered>>
  BY DEF SendSelection, Send
<1>2. /\ UNCHANGED <<offer, pc, resume, now, results>>
      /\ target' = target /\ Earlier' = Earlier /\ Updating' = Updating
      /\ target # None /\ target \notin Earlier /\ None \in Earlier
      /\ Len(results) \in Nat /\ ~Closed /\ Closed' = Closed
  BY PageFrame DEF Closed
<1>3. /\ queue \in Seq(Requests) /\ unsent \in offered \cup {None} /\ update \in Updates
      /\ Len(results) + 1 <= Len(Targets)
  BY WizardAssumption, PageFrame
  DEF TypeOK, PageTypeOK, ProberTypeOK, InTurn, Page, WizardAssumption
<1>4. request \in Requests
  BY <1>2, <1>3, WizardAssumption DEF Requests, WizardAssumption
<1>5. /\ Len(queue) \in Nat /\ DOMAIN queue = 1..Len(queue)
      /\ Len(queue') = Len(queue) + 1
      /\ DOMAIN queue' = 1..(Len(queue) + 1)
      /\ \A i \in 1..Len(queue) : queue'[i] = queue[i]
      /\ queue'[Len(queue) + 1] = request
  <2> HIDE DEF request
  <2> QED
    BY <1>1, <1>3, <1>4, Appended
<1>6. CASE ~Updating
  <2>1. Unselected /\ answered = None
    BY <1>2, <1>6 DEF Stages
  <2>2. ~Pairs(unsent)
    BY <1>2, <2>1 DEF Pairs, Unselected
  <2>3. update' = update
    BY <1>1, <1>3, <2>2 DEF Updates
  <2>4. request.date \in Earlier /\ request.by <= Len(results)
    BY <1>2, <2>1, <2>2 DEF Unselected
  <2>5. \A i \in DOMAIN queue' : queue'[i].date \in Earlier /\ queue'[i].by <= Len(results)
    <3> HIDE DEF request
    <3> QED
      BY <1>5, <2>1, <2>4 DEF Unselected, Foreign
  <2>6. Unselected'
    BY <1>1, <1>2, <2>1, <2>3, <2>5 DEF Unselected, Foreign, Monitored
  <2> QED
    BY <1>1, <1>2, <1>6, <2>1, <2>6 DEF Stages
<1>7. CASE Updating
  <2>1. Unsent /\ answered = None
    BY <1>1, <1>2, <1>7 DEF Stages, Unsent, Sent, Applying, Rendered, Lost
  <2>2. LivewireBound \in BOOLEAN
    BY WizardAssumption DEF WizardAssumption
  <2>3. ASSUME LivewireBound PROVE Own(request) /\ Monitored(TRUE, FALSE, FALSE)'
    <3>1. Pairs(unsent)
      BY <1>7, <2>1, <2>3 DEF Pairs, Unsent, Listening, Monitored
    <3>2. request.date = target /\ request.by = Len(results) + 1
      BY <2>1, <3>1 DEF Unsent
    <3>3. update' = [update EXCEPT !.request_started = TRUE]
      BY <1>1, <3>1
    <3>4. Monitored(TRUE, FALSE, FALSE)'
      BY <1>3, <2>1, <2>3, <3>3 DEF Unsent, Monitored, Updates
    <3> HIDE DEF request
    <3> QED
      BY <2>3, <3>2, <3>4 DEF Own
  <2>4. ASSUME ~LivewireBound PROVE Own(request) /\ Monitored(TRUE, FALSE, FALSE)'
    <3>1. ~Pairs(unsent)
      BY <2>4 DEF Pairs
    <3>2. request.date = target /\ request.by = 0
      BY <2>1, <3>1 DEF Unsent
    <3>3. update' = update
      BY <1>1, <1>3, <3>1 DEF Updates
    <3>4. Monitored(TRUE, FALSE, FALSE)'
      BY <2>1, <2>4, <3>3 DEF Unsent, Monitored
    <3> HIDE DEF request
    <3> QED
      BY <2>4, <3>2, <3>4 DEF Own
  <2>5. Own(request) /\ Monitored(TRUE, FALSE, FALSE)'
    BY <2>3, <2>4
  <2>6. \A i \in 1..Len(queue) : Foreign(queue'[i])
    BY <1>5, <2>1 DEF Unsent
  <2>7. Sent'
    <3> HIDE DEF request
    <3>1. \E p \in DOMAIN queue' :
            /\ Own(queue'[p])
            /\ \A i \in 1..(p - 1) : Foreign(queue'[i])
            /\ \A i \in (p + 1)..Len(queue') : Idle(queue'[i])
      <4>1. Len(queue) + 1 \in DOMAIN queue' /\ Own(queue'[Len(queue) + 1])
        BY <1>5, <2>5
      <4>2. \A i \in 1..((Len(queue) + 1) - 1) : Foreign(queue'[i])
        BY <1>5, <2>6
      <4>3. \A i \in ((Len(queue) + 1) + 1)..Len(queue') : FALSE
        BY <1>5
      <4> QED
        BY <4>1, <4>2, <4>3
    <3>2. unsent' = None /\ applying' \in Earlier'
      BY <1>1, <1>2, <2>1 DEF Unsent
    <3> QED
      BY <1>1, <1>2, <2>5, <3>1, <3>2 DEF Sent, Foreign, Own, Idle
  <2> QED
    BY <1>1, <1>2, <1>7, <2>1, <2>7 DEF Stages
<1> QED
  BY <1>6, <1>7

LEMMA SendOtherStages ==
  ASSUME TypeOK, Stages, Page, SendOther
  PROVE  Stages'
<1> DEFINE request == [date |-> None, by |-> 0]
<1>1. /\ UNCHANGED <<offer, pc, resume, now, results>>
      /\ target' = target /\ Earlier' = Earlier /\ Updating' = Updating
      /\ target # None /\ target \notin Earlier /\ None \in Earlier
      /\ Len(results) \in Nat /\ ~Closed /\ Closed' = Closed
  BY PageFrame DEF Closed
<1>2. ~Pairs(None)
  BY <1>1 DEF Pairs
<1>3. /\ queue' = Append(queue, request) /\ update' = update
      /\ UNCHANGED <<selected, shown, unsent, applying, answered>>
  <2>1. update \in Updates /\ update' = [update EXCEPT !.request_started = @ \/ Pairs(None)]
    BY DEF TypeOK, ProberTypeOK, SendOther, Send
  <2>2. update' = update
    BY <1>2, <2>1 DEF Updates
  <2> QED
    BY <1>2, <2>2 DEF SendOther, Send
<1>4. queue \in Seq(Requests) /\ request \in Requests
  BY WizardAssumption DEF TypeOK, PageTypeOK, Requests, WizardAssumption
<1>5. /\ Len(queue) \in Nat /\ DOMAIN queue = 1..Len(queue)
      /\ Len(queue') = Len(queue) + 1
      /\ DOMAIN queue' = 1..(Len(queue) + 1)
      /\ \A i \in 1..Len(queue) : queue'[i] = queue[i]
      /\ queue'[Len(queue) + 1] = request
  <2> HIDE DEF request
  <2> QED
    BY <1>3, <1>4, Appended
<1>6. Idle(request) /\ Foreign(request)
  BY <1>1 DEF Idle, Foreign
<1> HIDE DEF request
<1>7. (\A i \in DOMAIN queue : Foreign(queue[i])) => \A i \in DOMAIN queue' : Foreign(queue'[i])
  BY <1>5, <1>6
<1>8. (\A i \in DOMAIN queue : Idle(queue[i])) => \A i \in DOMAIN queue' : Idle(queue'[i])
  BY <1>5, <1>6
<1>9. Sent => Sent'
  <2> SUFFICES ASSUME Sent
               PROVE  Sent'
    OBVIOUS
  <2> PICK p \in DOMAIN queue :
        /\ Own(queue[p])
        /\ \A i \in 1..(p - 1) : Foreign(queue[i])
        /\ \A i \in (p + 1)..Len(queue) : Idle(queue[i])
    BY DEF Sent
  <2>1. p \in DOMAIN queue' /\ Own(queue'[p])
    BY <1>5
  <2>2. \A i \in 1..(p - 1) : Foreign(queue'[i])
    BY <1>5
  <2>3. \A i \in (p + 1)..Len(queue') : Idle(queue'[i])
    BY <1>5, <1>6
  <2> QED
    BY <1>1, <1>3, <2>1, <2>2, <2>3 DEF Sent, Monitored, Foreign, Own, Idle
<1>10. /\ Unselected => Unselected'
       /\ Unsent => Unsent'
  BY <1>1, <1>3, <1>7 DEF Unselected, Unsent, Monitored, Foreign
<1>11. /\ Applying => Applying'
       /\ Rendered => Rendered'
       /\ Lost => Lost'
  BY <1>1, <1>3, <1>8 DEF Applying, Rendered, Lost, Monitored, Idle
<1> QED
  BY <1>1, <1>3, <1>9, <1>10, <1>11 DEF Stages

\* What the monitor notes when an answer ends.
LEMMA Noted ==
  ASSUME update \in Updates, NEW mine \in BOOLEAN, NEW ok \in BOOLEAN,
         update' = [update EXCEPT !.succeeded = @ \/ (mine /\ ok),
                                  !.failed = @ \/ (mine /\ ~ok)]
  PROVE  /\ update'.request_started = update.request_started
         /\ mine /\ ok => update'.succeeded = TRUE /\ update'.failed = update.failed
         /\ mine /\ ~ok => update'.failed = TRUE /\ update'.succeeded = update.succeeded
         /\ ~mine => update' = update
<1> DEFINE s == update.succeeded \/ (mine /\ ok)
           f == update.failed \/ (mine /\ ~ok)
<1>1. update' = [update EXCEPT !.succeeded = s, !.failed = f]
  OBVIOUS
<1>2. update.succeeded \in BOOLEAN /\ update.failed \in BOOLEAN
  BY DEF Updates
<1>3. /\ mine /\ ok => s = TRUE /\ f = update.failed
      /\ mine /\ ~ok => f = TRUE /\ s = update.succeeded
      /\ ~mine => s = update.succeeded /\ f = update.failed
  BY <1>2, Zenon
<1> HIDE DEF s, f
<1>4. /\ update'.request_started = update.request_started
      /\ update'.succeeded = s /\ update'.failed = f
  BY <1>1 DEF Updates
<1>5. ASSUME s = update.succeeded, f = update.failed
      PROVE  update' = update
  <2>1. update' = [update EXCEPT !.succeeded = update.succeeded, !.failed = update.failed]
    BY <1>1, <1>5
  <2> QED
    BY <2>1 DEF Updates
<1> QED
  BY <1>3, <1>4, <1>5

LEMMA AnswerStages ==
  ASSUME TypeOK, Stages, Page, NEW ok \in BOOLEAN, Answer(ok)
  PROVE  Stages'
<1> DEFINE mine == Head(queue).by = Len(results) + 1
<1>1. /\ UNCHANGED <<offer, pc, resume, now, results>>
      /\ target' = target /\ Earlier' = Earlier /\ Updating' = Updating
      /\ target # None /\ target \notin Earlier /\ None \in Earlier
      /\ Len(results) \in Nat /\ ~Closed /\ Closed' = Closed
  BY PageFrame DEF Closed
<1>2. /\ queue # <<>> /\ applying = None /\ queue' = Tail(queue)
      /\ update' = [update EXCEPT !.succeeded = @ \/ (mine /\ ok),
                                  !.failed = @ \/ (mine /\ ~ok)]
      /\ applying' = IF ok THEN Head(queue).date ELSE None
      /\ UNCHANGED <<selected, shown, unsent, answered>>
  BY DEF Answer
<1>3. queue \in Seq(Requests) /\ update \in Updates
  BY DEF TypeOK, PageTypeOK, ProberTypeOK
<1>4. /\ Len(queue) \in Nat \ {0} /\ DOMAIN queue = 1..Len(queue)
      /\ Len(queue') = Len(queue) - 1
      /\ DOMAIN queue' = 1..(Len(queue) - 1)
      /\ \A i \in 1..(Len(queue) - 1) : queue'[i] = queue[i + 1]
      /\ Head(queue) = queue[1]
  BY <1>2, <1>3, Taken
<1>5. queue[1] \in Requests
  BY <1>3, <1>4
<1>6. ASSUME queue[1].by <= Len(results)
      PROVE  update' = update
  <2>1. ~mine /\ mine \in BOOLEAN
    BY <1>1, <1>4, <1>5, <1>6 DEF Requests
  <2> HIDE DEF mine
  <2> QED
    BY <1>2, <1>3, <2>1, Noted
<1>7. ASSUME \A i \in DOMAIN queue : Foreign(queue[i])
      PROVE  /\ \A i \in DOMAIN queue' : Foreign(queue'[i])
             /\ update' = update /\ applying' \in Earlier
  BY <1>1, <1>2, <1>4, <1>6, <1>7 DEF Foreign
<1>8. ASSUME \A i \in DOMAIN queue : Idle(queue[i])
      PROVE  /\ \A i \in DOMAIN queue' : Idle(queue'[i])
             /\ update' = update /\ applying' = None
  BY <1>1, <1>2, <1>4, <1>6, <1>8 DEF Idle
<1>9. Unselected => Unselected'
  BY <1>1, <1>2, <1>7 DEF Unselected, Monitored, Foreign
<1>10. Unsent => Unsent'
  BY <1>1, <1>2, <1>7 DEF Unsent, Monitored, Foreign
<1>11. Rendered => Rendered'
  BY <1>1, <1>2, <1>8 DEF Rendered, Monitored, Idle
<1>12. Lost => Lost'
  BY <1>1, <1>2, <1>8 DEF Lost, Monitored, Idle
<1>13. ~Applying
  BY <1>1, <1>2 DEF Applying
<1>14. ASSUME Sent
       PROVE  Sent' \/ Applying' \/ Lost'
  <2> PICK p \in DOMAIN queue :
        /\ Own(queue[p])
        /\ \A i \in 1..(p - 1) : Foreign(queue[i])
        /\ \A i \in (p + 1)..Len(queue) : Idle(queue[i])
    BY <1>14 DEF Sent
  <2>1. CASE p = 1
    <3>1. \A i \in DOMAIN queue' : Idle(queue'[i])
      BY <1>4, <2>1
    <3>2. mine <=> LivewireBound
      BY <1>1, <1>4, <2>1 DEF Own
    <3>3. LivewireBound \in BOOLEAN
      BY WizardAssumption DEF WizardAssumption
    <3>7. mine \in BOOLEAN
      OBVIOUS
    <3> HIDE DEF mine
    <3>4. Monitored(TRUE, FALSE, FALSE)
      BY <1>14 DEF Sent
    <3>5. CASE ok
      <4>1. update'.request_started = update.request_started /\ update'.failed = update.failed
            /\ update'.succeeded = LivewireBound
        BY <1>2, <1>3, <3>2, <3>3, <3>4, <3>5, <3>7, Noted DEF Monitored
      <4>2. applying' = target
        BY <1>2, <1>4, <2>1, <3>5 DEF Own
      <4> QED
        BY <1>1, <1>2, <1>14, <3>1, <3>3, <3>4, <4>1, <4>2 DEF Applying, Sent, Monitored, Idle
    <3>6. CASE ~ok
      <4>1. update'.request_started = update.request_started
            /\ update'.succeeded = update.succeeded
            /\ update'.failed = LivewireBound
        BY <1>2, <1>3, <3>2, <3>3, <3>4, <3>6, <3>7, Noted DEF Monitored
      <4>2. applying' = None
        BY <1>2, <3>6
      <4> QED
        BY <1>1, <1>2, <1>14, <3>1, <3>3, <3>4, <4>1, <4>2 DEF Lost, Sent, Monitored, Idle
    <3> QED
      BY <3>5, <3>6
  <2>2. CASE p # 1
    <3>1. p - 1 \in DOMAIN queue' /\ Own(queue'[p - 1])
      BY <1>4, <2>2
    <3>2. Foreign(queue[1])
      BY <1>4, <2>2
    <3>3. \A i \in 1..((p - 1) - 1) : Foreign(queue'[i])
      BY <1>4, <2>2
    <3>4. \A i \in ((p - 1) + 1)..Len(queue') : Idle(queue'[i])
      BY <1>4, <2>2
    <3>5. update' = update /\ applying' \in Earlier
      BY <1>1, <1>2, <1>4, <1>6, <3>2 DEF Foreign
    <3>6. \E q \in DOMAIN queue' :
            /\ Own(queue'[q])
            /\ \A i \in 1..(q - 1) : Foreign(queue'[i])
            /\ \A i \in (q + 1)..Len(queue') : Idle(queue'[i])
      BY <3>1, <3>3, <3>4
    <3> QED
      BY <1>1, <1>2, <1>14, <3>5, <3>6 DEF Sent, Monitored, Foreign, Own, Idle
  <2> QED
    BY <2>1, <2>2
<1> QED
  BY <1>1, <1>2, <1>9, <1>10, <1>11, <1>12, <1>13, <1>14 DEF Stages

LEMMA RenderStages ==
  ASSUME TypeOK, Stages, Page, Render
  PROVE  /\ Stages'
         /\ answered' = answered \/ Applying
<1>1. /\ UNCHANGED <<offer, pc, resume, now, results>>
      /\ target' = target /\ Earlier' = Earlier /\ Updating' = Updating
      /\ target # None /\ target \notin Earlier /\ None \in Earlier
      /\ ~Closed /\ Closed' = Closed
  BY PageFrame DEF Closed
<1>2. /\ applying # None /\ applying' = None
      /\ shown' = offer[applying] /\ selected' \in {selected, applying}
      /\ answered' = IF Updating /\ applying = target /\ selected' = target
                     THEN now ELSE answered
      /\ UNCHANGED <<unsent, queue, update>>
  BY DEF Render
<1>3. now <= now
  BY DEF TypeOK, ProberTypeOK
<1>4. /\ Unselected => Unselected'
      /\ Unsent => Unsent'
      /\ Sent => Sent'
  BY <1>1, <1>2 DEF Unselected, Unsent, Sent, Monitored, Foreign, Idle, Own
<1>5. Applying => Rendered'
  BY <1>1, <1>2 DEF Applying, Rendered, Monitored, Idle
<1>6. ~Rendered /\ ~Lost
  BY <1>2 DEF Rendered, Lost
<1>7. CASE ~Updating
  BY <1>1, <1>2, <1>4, <1>7 DEF Stages
<1>8. CASE Updating
  <2>1. answered = None
    BY <1>6, <1>8 DEF Stages
  <2>2. answered' # None => Applying /\ selected' = target /\ answered' = now
    <3>1. applying = target => ~Unsent /\ ~Sent
      BY <1>1 DEF Unsent, Sent
    <3> QED
      BY <1>2, <1>6, <1>8, <2>1, <3>1 DEF Stages
  <2> QED
    BY <1>1, <1>3, <1>4, <1>5, <1>6, <1>8, <2>1, <2>2 DEF Stages
<1> QED
  BY <1>7, <1>8

LEMMA PageStages ==
  ASSUME TypeOK, Stages, Page
  PROVE  Stages'
<1>1. CASE AppendDates
  <2>1. /\ UNCHANGED <<offer, unsent, applying, queue, update, results, shown>>
        /\ UNCHANGED <<pc, resume, now, selected, answered>>
    BY <1>1 DEF AppendDates, ProberUnchanged
  <2> QED
    BY <2>1, StagesKept, PageFrame DEF Stages, Closed
<1>2. CASE Blank
  <2>1. /\ UNCHANGED <<offer, unsent, applying, queue, update, results>>
        /\ UNCHANGED <<pc, resume, now, selected, answered>>
        /\ applying # None
    BY <1>2 DEF Blank, ProberUnchanged
  <2>2. /\ target' = target /\ Earlier' = Earlier /\ Updating' = Updating
    BY PageFrame
  <2>3. ~Rendered /\ ~Lost
    BY <2>1 DEF Rendered, Lost
  <2>4. /\ Unselected => Unselected'
        /\ Unsent => Unsent'
        /\ Sent => Sent'
        /\ Applying => Applying'
    BY <2>1, <2>2 DEF Unselected, Unsent, Sent, Applying, Monitored, Foreign, Idle, Own
  <2> QED
    BY <2>1, <2>2, <2>3, <2>4 DEF Stages, Closed
<1> QED
  BY <1>1, <1>2, SendSelectionStages, SendOtherStages, RenderStages, AnswerStages DEF Page

\* Once a target has its result, all that is on the way for it is earlier traffic.
LEMMA ResultStages ==
  ASSUME TypeOK, Stages, ~Closed, Counted,
         NEW status \in {"available", "unavailable", "unknown", "error"},
         NEW shifts \in Shown, Result(status, shifts)
  PROVE  Stages'
<1>1. /\ UNCHANGED page /\ pc' \in {"done", "discover"} /\ update' = NoUpdate /\ answered' = None
  BY ResultClock
<1>2. pc # "done" /\ Len(results') = Len(results) + 1 /\ Len(results) \in Nat
  <2>1. pc # "done" /\ Len(results) \in Nat
    BY DEF Closed, TypeOK, ProberTypeOK
  <2> QED
    BY <2>1, ResultTypes
<1>3. Earlier' = Earlier \cup {target}
  <2>1. 1..Len(results') = (1..Len(results)) \cup {Len(results) + 1}
    BY <1>2
  <2> QED
    BY <2>1 DEF Earlier, target
<1>4. /\ None \in Earlier
      /\ queue \in Seq(Requests)
  BY DEF Earlier, TypeOK, PageTypeOK
<1>5. /\ unsent \in Earlier \cup {target} /\ applying \in Earlier \cup {target}
  BY <1>4 DEF Stages, Unselected, Unsent, Sent, Applying, Rendered, Lost
<1>6. ASSUME NEW i \in DOMAIN queue
      PROVE  queue[i].date \in Earlier \cup {target} /\ queue[i].by <= Len(results) + 1
  <2>1. queue[i].by \in Nat
    <3>1. queue[i] \in Requests
      BY <1>4, <1>6
    <3> QED
      BY <3>1 DEF Requests
  <2>2. Foreign(queue[i]) \/ Idle(queue[i]) \/ Own(queue[i])
    <3>1. CASE Unselected \/ Unsent \/ Applying \/ Rendered \/ Lost
      BY <3>1 DEF Unselected, Unsent, Applying, Rendered, Lost
    <3>2. CASE Sent
      <4> PICK p \in DOMAIN queue :
            /\ Own(queue[p])
            /\ \A j \in 1..(p - 1) : Foreign(queue[j])
            /\ \A j \in (p + 1)..Len(queue) : Idle(queue[j])
        BY <3>2 DEF Sent
      <4>1. i \in 1..(p - 1) \/ i = p \/ i \in (p + 1)..Len(queue)
        BY <1>4
      <4> QED
        BY <4>1
    <3> QED
      BY <3>1, <3>2 DEF Stages
  <2>3. CASE Foreign(queue[i])
    BY <1>2, <2>1, <2>3 DEF Foreign
  <2>4. CASE Idle(queue[i])
    BY <1>2, <1>4, <2>1, <2>4 DEF Idle
  <2>5. CASE Own(queue[i])
    BY <1>2, <2>1, <2>5 DEF Own
  <2> QED
    BY <2>2, <2>3, <2>4, <2>5
<1>7. Unselected'
  <2>1. unsent' \in Earlier' /\ applying' \in Earlier'
    BY <1>1, <1>3, <1>5 DEF page
  <2>2. \A i \in DOMAIN queue' :
          queue'[i].date \in Earlier' /\ queue'[i].by <= Len(results')
    BY <1>1, <1>2, <1>3, <1>6 DEF page
  <2>3. Monitored(FALSE, FALSE, FALSE)'
    BY <1>1 DEF Monitored, NoUpdate
  <2> QED
    BY <2>1, <2>2, <2>3 DEF Unselected, Foreign
<1> QED
  BY <1>1, <1>7 DEF Stages, Updating

LEMMA StagesNext == TypeOK /\ Stages /\ [Next]_vars => Stages'
<1> SUFFICES ASSUME TypeOK, Stages, [Next]_vars
             PROVE  Stages'
  OBVIOUS
<1>0. now \in Nat /\ update \in Updates
  BY DEF TypeOK, ProberTypeOK
<1>1. ASSUME UNCHANGED <<offer, unsent, applying, queue, update, results, shown>>,
             answered' = answered, selected' = selected, now <= now',
             Closed' \/ (Closed' = Closed /\ Updating' = Updating)
      PROVE  Stages'
  <2>1. target' = target
    BY <1>1, SameTurn
  <2>2. ~Closed' => ~Closed /\ Updating' = Updating
    BY <1>1
  <2>3. answered \in Nat \cup {None} /\ now' \in Nat
    BY TypeNext DEF TypeOK, ProberTypeOK
  <2>4. CASE Closed'
    <3>1. ~Updating'
      BY <2>4 DEF Closed, Updating
    <3> QED
      BY <2>4, <3>1 DEF Stages
  <2>5. CASE ~Closed'
    <3>1. answered # None /\ answered <= now => answered <= now'
      BY <1>0, <1>1, <2>3
    <3> QED
      BY <1>1, <2>1, <2>2, <2>5, <3>1, StagesKept DEF Stages
  <2> QED
    BY <2>4, <2>5
<1>2. ASSUME NEW status \in {"available", "unavailable", "unknown", "error"},
             NEW shifts \in Shown, Result(status, shifts), Counted, ~Closed
      PROVE  Stages'
  BY <1>2, ResultStages
<1>3. NoControl \in Shown /\ read.shifts \in Shown
  BY DEF Shown, TypeOK, ProberTypeOK, Reads
<1>4. CASE Navigate
  <2>1. /\ UNCHANGED page /\ pc = "navigate" /\ update' = update /\ answered' = answered
        /\ now' = now /\ \/ pc' = "done"
                         \/ pc' = "discover" /\ results' = results
    BY <1>4 DEF Navigate, Goto
  <2>2. CASE pc' = "done"
    BY <2>2 DEF Stages, Closed, Updating
  <2>3. CASE pc' = "discover" /\ results' = results
    BY <1>0, <1>1, <2>1, <2>3 DEF page, Closed, Updating
  <2> QED
    BY <2>1, <2>2, <2>3
<1>5. CASE Wait
  <2>1. /\ UNCHANGED <<offer, unsent, applying, queue, update, results, shown>>
        /\ answered' = answered /\ selected' = selected /\ now' = now + 1
        /\ pc = "wait" /\ pc' = resume
    BY <1>5 DEF Wait, Goto, reader
  <2>2. resume \in {"discover", "absence", "dates"}
    BY DEF TypeOK, ProberTypeOK
  <2>3. now <= now'
    BY <1>0, <2>1
  <2> QED
    BY <1>1, <2>1, <2>2, <2>3 DEF Closed, Updating
<1>6. CASE Discover \/ ConfirmAbsence
  <2>1. Counted /\ pc \in {"discover", "absence"}
    BY <1>6, DateLoops
  <2>2. ASSUME Searching, WaitThen("discover") \/ WaitThen("absence") \/ Goto("arm")
        PROVE  Stages'
    BY <1>0, <1>1, <2>1, <2>2
    DEF Searching, SelectionUnchanged, page, Closed, Updating, WaitThen, Goto
  <2> QED
    BY <1>2, <1>3, <1>6, <2>1, <2>2, DateLoops DEF Closed
<1>7. CASE ScanInitial \/ Arm
  <2>1. /\ UNCHANGED <<offer, unsent, applying, queue, update, results, shown>>
        /\ answered' = answered /\ selected' = selected /\ now' = now
        /\ pc \in {"arm", "observe"} /\ pc' \in {"observe", "raised", "select"}
    BY <1>7 DEF ScanInitial, Arm, Goto, page
  <2> QED
    BY <1>0, <1>1, <2>1 DEF Closed, Updating
<1>8. CASE Select
  <2>1. Counted /\ pc = "select"
    BY <1>8 DEF Select, Counted, Glitch, NoGlitch
  <2>2. CASE Failed
    BY <1>2, <1>3, <2>1, <2>2 DEF Failed, Closed
  <2>3. CASE ~Failed
    <3>1. /\ unsent' = target /\ pc' = "dates"
          /\ UNCHANGED <<offer, applying, queue, update, results, answered>>
      BY <1>8, <2>3 DEF Select, Goto
    <3>2. Unselected /\ answered = None
      BY <2>1 DEF Stages, Closed, Updating
    <3>3. target' = target /\ Earlier' = Earlier
      BY <3>1, SameTurn
    <3>4. Unsent'
      BY <3>1, <3>2, <3>3 DEF Unselected, Unsent, Monitored, Foreign
    <3> QED
      BY <3>1, <3>2, <3>4 DEF Stages, Closed, Updating
  <2> QED
    BY <2>2, <2>3
<1>9. CASE ScanDates \/ ScanShifts
  <2>1. Counted /\ pc \in {"dates", "shifts"}
    BY <1>9, DateScans, ShiftScans
  <2>2. ASSUME Reread, Goto("shifts") \/ Goto("judge")
        PROVE  Stages'
    BY <1>0, <1>1, <2>1, <2>2 DEF Reread, page, Closed, Updating, Goto
  <2> QED
    BY <1>2, <1>3, <1>9, <2>1, <2>2, DateScans, ShiftScans DEF Closed
<1>10. CASE Judge
  <2>1. Counted /\ pc = "judge"
    BY <1>10, Judgements
  <2>2. ASSUME TurnAfterResponse \/ Weigh
        PROVE  Stages'
    BY <1>0, <1>1, <2>1, <2>2 DEF TurnAfterResponse, Weigh, WaitThen, page, Closed, Updating
  <2> QED
    BY <1>2, <1>3, <1>10, <2>1, <2>2, Judgements DEF Closed
<1>11. CASE UNCHANGED vars
  BY <1>0, <1>1, <1>11 DEF vars, page, reader, Closed, Updating
<1> QED
  BY <1>4, <1>5, <1>6, <1>7, <1>8, <1>9, <1>10, <1>11, PageStages DEF Next, Prober, Finish

LEMMA TimelyNext == TypeOK /\ Timely /\ [Next]_vars => Timely'
<1> SUFFICES ASSUME TypeOK, Timely, [Next]_vars
             PROVE  Timely'
  OBVIOUS
<1>0. unrendered \in Nat /\ ApplyTime \in Nat
  BY Times DEF TypeOK, PageTypeOK
<1>1. CASE Page
  <2>1. CASE AppendDates \/ SendSelection \/ SendOther \/ Blank
    BY <2>1 DEF AppendDates, SendSelection, SendOther, Blank, Timely
  <2>2. CASE Render
    BY <1>0, <2>2 DEF Render, Timely
  <2>3. ASSUME NEW ok \in BOOLEAN, Answer(ok)
        PROVE  Timely'
    <3>1. applying = None /\ unrendered' = unrendered
      BY <2>3 DEF Answer
    <3> QED
      BY <3>1 DEF Timely
  <2> QED
    BY <1>1, <2>1, <2>2, <2>3 DEF Page
<1>2. CASE Wait
  <2>1. /\ applying' = applying /\ (applying = None \/ unrendered < ApplyTime)
        /\ unrendered' = IF applying = None THEN 0 ELSE unrendered + 1
    BY <1>2 DEF Wait
  <2> QED
    BY <1>0, <2>1 DEF Timely
<1>3. ASSUME UNCHANGED <<applying, unrendered>>
      PROVE  Timely'
  BY <1>3 DEF Timely
<1>4. CASE ~Page /\ ~Wait
  <2>1. \A status, shifts : Result(status, shifts) => UNCHANGED <<applying, unrendered>>
    BY DEF Result, page
  <2>2. Searching \/ Reread \/ TurnAfterResponse \/ Weigh => UNCHANGED <<applying, unrendered>>
    BY DEF Searching, Reread, TurnAfterResponse, Weigh, page
  <2>3. CASE Navigate \/ ScanInitial \/ Arm \/ UNCHANGED vars
    BY <1>3, <2>3 DEF Navigate, ScanInitial, Arm, vars, page
  <2>4. CASE Select
    BY <1>3, <2>1, <2>4 DEF Select, Failed
  <2>5. CASE Discover \/ ConfirmAbsence
    BY <1>3, <2>1, <2>2, <2>5, DateLoops
  <2>6. CASE ScanDates \/ ScanShifts \/ Judge
    BY <1>3, <2>1, <2>2, <2>6, DateScans, ShiftScans, Judgements
  <2> QED
    BY <1>4, <2>3, <2>4, <2>5, <2>6 DEF Next, Prober, Finish
<1> QED
  BY <1>1, <1>2, <1>4

-----------------------------------------------------------------------------
(* Attribution *)

\* What a step leaves to the page: the prober's own variables.
LEMMA PageReader ==
  ASSUME Page
  PROVE  UNCHANGED <<glitches, pc, resume, now, candidate, since, initial, armed, read,
                     update_confirmed, response_completion_observed, results, offer>>
<1> QED
  BY DEF Page, AppendDates, SendSelection, SendOther, Blank, Render, Answer, ProberUnchanged

LEMMA TrackingNext == TypeOK /\ Tracking /\ [Next]_vars => Tracking'
<1> SUFFICES ASSUME TypeOK, Tracking, [Next]_vars
             PROVE  Tracking'
  OBVIOUS
<1>0. now \in Nat /\ now' \in Nat /\ None \notin Lists
  BY TypeNext, WizardAssumption DEF TypeOK, ProberTypeOK, WizardAssumption
<1>1. ASSUME UNCHANGED <<candidate, since>>, now <= now', Updating' => Updating,
             pc' \in {"arm", "observe", "select"} => pc \in {"arm", "observe", "select"}
      PROVE  Tracking'
  BY <1>0, <1>1 DEF Tracking
<1>2. ASSUME ~Updating', pc' \notin {"arm", "observe", "select"}
      PROVE  Tracking'
  BY <1>2 DEF Tracking
<1>3. \A status, shifts : Result(status, shifts) => Tracking'
  BY <1>2, ResultClock DEF Updating
<1>4. CASE Page
  BY <1>0, <1>1, <1>4, PageReader DEF Updating
<1>5. CASE Navigate
  BY <1>2, <1>5 DEF Navigate, Goto, Updating
<1>6. CASE Wait
  <2>1. /\ now' = now + 1 /\ pc = "wait" /\ pc' = resume
        /\ UNCHANGED <<candidate, since>>
    BY <1>6 DEF Wait, Goto, reader
  <2>2. resume \in {"discover", "absence", "dates"}
    BY DEF TypeOK, ProberTypeOK
  <2> QED
    BY <1>0, <1>1, <2>1, <2>2 DEF Updating
<1>7. CASE Discover \/ ConfirmAbsence
  <2>1. WaitThen("discover") \/ WaitThen("absence") => Tracking'
    BY <1>2 DEF WaitThen, Updating
  <2>2. Goto("arm") /\ candidate' = None => Tracking'
    BY <1>0 DEF Goto, Updating, Tracking
  <2> QED
    BY <1>3, <1>7, <2>1, <2>2, DateLoops
<1>8. CASE ScanInitial \/ Arm
  <2>1. /\ UNCHANGED <<candidate, since, now>>
        /\ pc \in {"arm", "observe"} /\ pc' \in {"observe", "raised", "select"}
    BY <1>8 DEF ScanInitial, Arm, Goto
  <2> QED
    BY <1>0, <1>1, <2>1 DEF Updating
<1>9. CASE Select
  <2>1. CASE Failed
    BY <1>3, <2>1 DEF Failed
  <2>2. CASE ~Failed
    <3>1. pc = "select" /\ pc' = "dates" /\ candidate' = candidate
      BY <1>9, <2>2 DEF Select, Goto
    <3> QED
      BY <1>0, <3>1 DEF Tracking, Updating
  <2> QED
    BY <2>1, <2>2
<1>10. CASE ScanDates \/ ScanShifts
  <2>1. ASSUME Reread, Goto("shifts") \/ Goto("judge"), pc \in {"dates", "shifts"}
        PROVE  Tracking'
    BY <1>0, <1>1, <2>1 DEF Reread, Goto, Updating
  <2> QED
    BY <1>3, <1>10, <2>1, DateScans, ShiftScans
<1>11. CASE Judge
  <2>1. pc = "judge"
    BY <1>11, Judgements
  <2>2. TurnAfterResponse => Tracking'
    BY <1>0 DEF TurnAfterResponse, Track, WaitThen, Tracking, Updating
  <2>3. ASSUME Weigh
        PROVE  Tracking'
    <3>1. /\ now' = now /\ pc' = "wait"
          /\ \/ candidate' = None
             \/ read.shifts \in Lists /\ candidate' = read.shifts /\ since' = StableSince
      BY <2>3 DEF Weigh, Track, WaitThen, Accepts
    <3>2. read.shifts \in Lists => StableSince \in Nat /\ StableSince <= now
      BY <1>0, <2>1 DEF StableSince, Tracking, Updating
    <3> QED
      BY <1>0, <3>1, <3>2 DEF Tracking, Updating
  <2> QED
    BY <1>3, <1>11, <2>2, <2>3, Judgements
<1>12. CASE UNCHANGED vars
  BY <1>0, <1>1, <1>12 DEF vars, reader, Updating
<1> QED
  BY <1>4, <1>5, <1>6, <1>7, <1>8, <1>9, <1>10, <1>11, <1>12 DEF Next, Prober, Finish

\* When the page's own request for the selection is known, its success means that
\* the answer is being rendered or is rendered.
LEMMA SucceededStages ==
  ASSUME TypeOK, Stages, LivewireBound, Updating, update.succeeded
  PROVE  Applying \/ Rendered
<1>1. LivewireBound = TRUE
  BY WizardAssumption DEF WizardAssumption
<1> QED
  BY <1>1 DEF Stages, Unsent, Sent, Lost, Monitored

LEMMA PageEvidence ==
  ASSUME TypeOK, Stages, Evidence, LivewireBound, Page
  PROVE  Evidence'
<1>1. UNCHANGED <<glitches, pc, resume, now, candidate, since, read,
                  response_completion_observed, results, offer>>
  BY PageReader
<1>2. target' = target /\ Updating' = Updating /\ target # None
  BY PageFrame
<1>3. SUFFICES ASSUME Updating PROVE Evidence'
  BY <1>2 DEF Evidence
<1>4. update.succeeded => update'.succeeded
  <2>1. update \in Updates
    BY DEF TypeOK, ProberTypeOK
  <2>2. ASSUME NEW date, Send(date) PROVE update'.succeeded = update.succeeded
    BY <2>1, <2>2 DEF Send, Updates
  <2>3. ASSUME NEW ok \in BOOLEAN, Answer(ok) PROVE update.succeeded => update'.succeeded
    <3> DEFINE mine == Head(queue).by = Len(results) + 1
    <3>1. /\ mine \in BOOLEAN
          /\ update' = [update EXCEPT !.succeeded = @ \/ (mine /\ ok),
                                      !.failed = @ \/ (mine /\ ~ok)]
      BY <2>3 DEF Answer
    <3> HIDE DEF mine
    <3> QED
      BY <2>1, <3>1, Noted
  <2> QED
    BY <2>2, <2>3 DEF Page, AppendDates, SendSelection, SendOther, Blank, Render
<1>5. response_completion_observed /\ applying' # None => applying # None
  <2>1. ASSUME NEW ok \in BOOLEAN, Answer(ok), response_completion_observed
        PROVE  applying' = None
    <3>1. applying = None /\ queue # <<>> /\ applying' \in {Head(queue).date, None}
          /\ queue' = Tail(queue)
      BY <2>1 DEF Answer
    <3>2. Rendered
      BY <1>2, <1>3, <2>1, <3>1, SucceededStages DEF Evidence, Applying
    <3>3. 1 \in DOMAIN queue /\ Head(queue) = queue[1]
      BY <3>1, Taken DEF TypeOK, PageTypeOK
    <3> QED
      BY <3>1, <3>2, <3>3 DEF Rendered, Idle
  <2> QED
    BY <2>1 DEF Page, AppendDates, SendSelection, SendOther, Blank, Render
<1>6. applying' # None => unrendered' = unrendered
  BY DEF Page, AppendDates, SendSelection, SendOther, Blank, Render, Answer
<1> QED
  BY <1>1, <1>2, <1>3, <1>4, <1>5, <1>6 DEF Evidence, Younger

LEMMA EvidenceNext ==
  TypeOK /\ Stages /\ Timely /\ Tracking /\ Evidence /\ LivewireBound /\ [Next]_vars => Evidence'
<1> SUFFICES ASSUME TypeOK, Stages, Timely, Tracking, Evidence, LivewireBound, [Next]_vars
             PROVE  Evidence'
  OBVIOUS
<1>0. /\ now \in Nat /\ unrendered \in Nat /\ ApplyTime \in Nat
      /\ None \notin Lists /\ NoControl \notin Lists
  BY Times, WizardAssumption DEF TypeOK, PageTypeOK, ProberTypeOK, WizardAssumption
<1>1. ~Updating' => Evidence'
  BY DEF Evidence
<1>2. \A status, shifts : Result(status, shifts) => Evidence'
  BY <1>1, ResultClock DEF Updating
<1>3. CASE Navigate \/ ScanInitial \/ Arm
  <2>1. pc' \in {"discover", "done", "observe", "raised", "select"}
    BY <1>3 DEF Navigate, ScanInitial, Arm, Goto
  <2> QED
    BY <1>1, <2>1 DEF Updating
<1>4. CASE Wait
  <2>1. /\ now' = now + 1 /\ pc = "wait" /\ pc' = resume
        /\ UNCHANGED <<offer, candidate, since, update, read, response_completion_observed,
                       results, applying>>
        /\ unrendered' = IF applying = None THEN 0 ELSE unrendered + 1
    BY <1>4 DEF Wait, Goto, reader
  <2>2. resume \in {"discover", "absence", "dates"}
    BY DEF TypeOK, ProberTypeOK
  <2>3. CASE resume = "dates"
    <3>1. Updating /\ pc' = "dates"
      BY <2>1, <2>3 DEF Updating
    <3>2. Younger(unrendered) /\ applying # None => Younger(unrendered)'
      BY <1>0, <2>1, <3>1 DEF Younger, Tracking
    <3> QED
      BY <1>0, <2>1, <3>1, <3>2 DEF Evidence
  <2> QED
    BY <1>1, <2>1, <2>2, <2>3 DEF Updating
<1>5. CASE Discover \/ ConfirmAbsence
  <2>1. WaitThen("discover") \/ WaitThen("absence") \/ Goto("arm") => ~Updating'
    BY DEF WaitThen, Goto, Updating
  <2> QED
    BY <1>1, <1>2, <1>5, <2>1, DateLoops
<1>6. CASE Select
  <2>1. CASE Failed
    BY <1>2, <2>1 DEF Failed
  <2>2. CASE ~Failed
    <3>1. /\ pc = "select" /\ pc' = "dates" /\ candidate' = candidate
          /\ response_completion_observed' = ~LivewireBound
      BY <1>6, <2>2 DEF Select, Goto
    <3> QED
      BY <3>1 DEF Tracking, Evidence
  <2> QED
    BY <2>1, <2>2
<1>7. CASE ScanDates
  <2>1. ASSUME Reread, pc = "dates", Goto("shifts")
        PROVE  Evidence'
    BY <2>1 DEF Reread, page, Goto, Evidence, Younger, Updating
  <2>2. ASSUME Reread, pc = "dates", Goto("judge"), read'.shifts = NoControl
        PROVE  Evidence'
    BY <1>0, <2>2 DEF Reread, page, Goto, Evidence, Younger, Updating
  <2> QED
    BY <1>2, <1>7, <2>1, <2>2, DateScans
<1>8. CASE ScanShifts
  <2>1. /\ pc = "shifts" /\ pc' = "judge" /\ Reread
        /\ read'.shifts \in {shown, NoControl}
    BY <1>8, ShiftScans DEF Goto
  <2>2. target' = target /\ Updating
    BY <2>1, SameTurn DEF Reread, Updating
  <2>3. ASSUME response_completion_observed, read'.shifts \in Lists
        PROVE  read'.shifts = offer[target] \/ (1 <= ApplyTime /\ Younger(ApplyTime))
    <3>1. read'.shifts = shown
      BY <1>0, <2>1, <2>3
    <3>2. Applying \/ Rendered
      BY <2>2, <2>3, SucceededStages DEF Evidence
    <3>3. CASE Applying
      <4>1. applying # None
        BY <3>3, <2>1, TargetFacts DEF Applying, TypeOK, InTurn, ProberTypeOK
      <4>2. unrendered >= 1 /\ Younger(unrendered) /\ unrendered <= ApplyTime
        BY <2>1, <2>2, <2>3, <4>1 DEF Evidence, Timely
      <4> QED
        BY <1>0, <2>2, <4>2 DEF Younger, Tracking
    <3> QED
      BY <3>1, <3>2, <3>3 DEF Rendered
  <2> QED
    BY <2>1, <2>2, <2>3 DEF Reread, page, Evidence, Younger
<1>9. CASE Judge
  <2>1. pc = "judge" /\ Updating
    BY <1>9, Judgements DEF Updating
  <2>2. TurnAfterResponse => Evidence'
    BY <1>0, <2>1 DEF TurnAfterResponse, Track, WaitThen, Evidence, Updating, Younger
  <2>3. ASSUME Weigh
        PROVE  Evidence'
    <3>1. /\ now' = now /\ pc' = "wait" /\ Updating'
          /\ UNCHANGED <<offer, update, response_completion_observed, applying, unrendered>>
          /\ \/ candidate' = None
             \/ /\ read.shifts \in Lists /\ candidate' = read.shifts /\ since' = StableSince
                /\ response_completion_observed
      BY <2>3 DEF Weigh, Track, WaitThen, Accepts, network_confirmed, page, Updating
    <3>2. ASSUME response_completion_observed, applying # None, candidate' \in Lists
          PROVE  now - since' + 1 <= unrendered
      <4>1. unrendered >= 1 /\ Younger(unrendered)
        BY <2>1, <3>2 DEF Evidence
      <4>2. since' = StableSince /\ candidate' = read.shifts
        BY <1>0, <3>1, <3>2
      <4>3. CASE read.shifts = candidate
        BY <3>2, <4>1, <4>2, <4>3 DEF StableSince, Younger
      <4>4. CASE read.shifts # candidate
        BY <1>0, <4>1, <4>2, <4>4 DEF StableSince
      <4> QED
        BY <4>3, <4>4
    <3> QED
      BY <2>1, <3>1, <3>2 DEF Evidence, Younger
  <2> QED
    BY <1>2, <1>9, <2>2, <2>3, Judgements
<1>10. CASE UNCHANGED vars
  BY <1>10, SameTurn DEF vars, page, reader, Evidence, Younger, Updating
<1> QED
  BY <1>3, <1>4, <1>5, <1>6, <1>7, <1>8, <1>9, <1>10, PageEvidence DEF Next, Prober, Finish

LEMMA AttributedNext ==
  TypeOK /\ Tracking /\ Evidence /\ Attributed /\ LivewireBound /\ [Next]_vars => Attributed'
<1> SUFFICES ASSUME TypeOK, Tracking, Evidence, Attributed, LivewireBound, [Next]_vars,
                    NEW k \in DOMAIN results', results'[k].status = "available"
             PROVE  results'[k].shifts = offer[Targets[k]]
  BY OfferFixed DEF Attributed
<1>1. CASE k \in DOMAIN results /\ results'[k] = results[k]
  BY <1>1 DEF Attributed
<1>2. CASE ~(k \in DOMAIN results /\ results'[k] = results[k])
  <2>1. /\ pc = "judge" /\ Settled /\ k = Len(results) + 1
        /\ results'[k].shifts = read.shifts
    BY <1>2, Verdicts DEF Verdict
  <2>2. Updating /\ now \in Nat
    BY <2>1 DEF Updating, TypeOK, ProberTypeOK
  <2>3. /\ response_completion_observed /\ read.shifts \in Lists
        /\ now - StableSince >= StableFor
    BY <2>1 DEF Settled, Accepts, network_confirmed
  <2>4. ~(1 <= ApplyTime /\ Younger(ApplyTime))
    <3> SUFFICES ASSUME 1 <= ApplyTime, Younger(ApplyTime)
                 PROVE  FALSE
      OBVIOUS
    <3>1. CASE read.shifts = candidate
      BY <2>2, <2>3, <3>1, Times DEF StableSince, Younger, Tracking
    <3>2. CASE read.shifts # candidate
      BY <2>2, <2>3, <3>2, Times DEF StableSince
    <3> QED
      BY <3>1, <3>2
  <2>5. read.shifts = offer[target]
    BY <2>1, <2>2, <2>3, <2>4 DEF Evidence
  <2> QED
    BY <2>1, <2>5 DEF target
<1> QED
  BY <1>1, <1>2

LEMMA StagesInit == Init => Stages /\ Timely /\ Tracking /\ Evidence
<1> SUFFICES ASSUME Init
             PROVE  Stages /\ Timely /\ Tracking /\ Evidence
  OBVIOUS
<1>1. pc = "navigate" /\ ~Updating
  BY DEF Init, Updating
<1>2. Unselected
  <2>1. /\ unsent = None /\ applying = None /\ queue = <<>>
        /\ update.request_started = FALSE /\ update.succeeded = FALSE /\ update.failed = FALSE
    BY DEF Init, NoUpdate
  <2>2. Monitored(FALSE, FALSE, FALSE)
    BY <2>1 DEF Monitored
  <2>3. \A i \in DOMAIN queue : Foreign(queue[i])
    BY <2>1
  <2> QED
    BY <2>1, <2>2, <2>3 DEF Unselected, Earlier
<1>3. answered = None /\ applying = None /\ unrendered = 0 /\ candidate = None
  BY DEF Init
<1> QED
  BY <1>1, <1>2, <1>3, Times DEF Stages, Timely, Tracking, Evidence

\* A list reported for a date is the server's list for that date: whatever is
\* still on its way from an earlier target is never attributed to this one. It
\* needs the paired request, that is a control that carries wire:model.
THEOREM ListsAreAttributed == LivewireBound => (Spec => []Attributed)
<1> SUFFICES ASSUME LivewireBound
             PROVE  Spec => []Attributed
  OBVIOUS
<1> DEFINE Inv == TypeOK /\ Stages /\ Timely /\ Tracking /\ Evidence /\ Attributed
<1>1. Init => Inv
  BY TypeInit, StagesInit DEF Init, Attributed
<1>2. Inv /\ [Next]_vars => Inv'
  BY TypeNext, StagesNext, TimelyNext, TrackingNext, EvidenceNext, AttributedNext
<1>3. Inv => Attributed
  OBVIOUS
<1> HIDE DEF Inv
<1> QED
  BY <1>1, <1>2, <1>3, PTL DEF Spec

-----------------------------------------------------------------------------
(* The prompt answer *)

LEMMA GlitchesCount == TypeOK /\ [Next]_vars => glitches \in Nat /\ (glitches' = 0 => glitches = 0)
<1> QED
  BY Verdicts DEF Counted, TypeOK, ProberTypeOK

LEMMA ObservedNext ==
  TypeOK /\ Observed /\ UnboundObserved /\ [Next]_vars => Observed' /\ UnboundObserved'
<1> SUFFICES ASSUME TypeOK, Observed, UnboundObserved, [Next]_vars
             PROVE  Observed' /\ UnboundObserved'
  OBVIOUS
<1>0. glitches' = 0 => glitches = 0
  BY GlitchesCount
<1>1. ASSUME UNCHANGED <<initial, armed>>,
             response_completion_observed => response_completion_observed',
             Updating' => Updating, pc' = "select" => pc = "select" \/ Updating
      PROVE  Observed' /\ UnboundObserved'
  BY <1>0, <1>1 DEF Observed, UnboundObserved
<1>2. ~Updating' /\ pc' # "select" => Observed' /\ UnboundObserved'
  BY DEF Observed, UnboundObserved
<1>3. \A status, shifts : Result(status, shifts) => Observed' /\ UnboundObserved'
  BY <1>2, ResultClock DEF Updating
<1>4. CASE Page
  BY <1>1, <1>4, PageReader DEF Updating
<1>5. CASE Navigate \/ ScanInitial
  <2>1. pc' \in {"discover", "done", "observe", "raised"}
    BY <1>5 DEF Navigate, ScanInitial, Goto
  <2> QED
    BY <1>2, <2>1 DEF Updating
<1>6. CASE Wait
  <2>1. /\ pc = "wait" /\ pc' = resume
        /\ UNCHANGED <<initial, armed, response_completion_observed>>
    BY <1>6 DEF Wait, Goto, reader
  <2>2. resume \in {"discover", "absence", "dates"}
    BY DEF TypeOK, ProberTypeOK
  <2> QED
    BY <1>1, <2>1, <2>2 DEF Updating
<1>7. CASE Discover \/ ConfirmAbsence
  <2>1. WaitThen("discover") \/ WaitThen("absence") \/ Goto("arm")
          => Observed' /\ UnboundObserved'
    BY <1>2 DEF WaitThen, Goto, Updating
  <2> QED
    BY <1>3, <1>7, <2>1, DateLoops
<1>8. CASE Arm
  <2>1. /\ pc' = "select" /\ initial' = initial
        /\ armed' = (initial # NoControl) \/ glitches' = glitches + 1
    BY <1>8 DEF Arm, Goto, Glitch
  <2>2. glitches + 1 # 0
    BY DEF TypeOK, ProberTypeOK
  <2> QED
    BY <2>1, <2>2 DEF Observed, UnboundObserved, Updating
<1>9. CASE Select
  <2>1. CASE Failed
    BY <1>3, <2>1 DEF Failed
  <2>2. CASE ~Failed
    <3>1. /\ pc = "select" /\ pc' = "dates" /\ UNCHANGED <<initial, armed>>
          /\ response_completion_observed' = ~LivewireBound
      BY <1>9, <2>2 DEF Select, Goto
    <3> QED
      BY <1>0, <3>1 DEF Observed, UnboundObserved
  <2> QED
    BY <2>1, <2>2
<1>10. CASE ScanDates \/ ScanShifts
  <2>1. ASSUME Reread, Goto("shifts") \/ Goto("judge"), pc \in {"dates", "shifts"}
        PROVE  Observed' /\ UnboundObserved'
    BY <1>1, <2>1 DEF Reread, Goto, Updating
  <2> QED
    BY <1>3, <1>10, <2>1, DateScans, ShiftScans
<1>11. CASE Judge
  <2>1. TurnAfterResponse \/ Weigh => Observed' /\ UnboundObserved'
    BY <1>1, <1>11, Judgements DEF TurnAfterResponse, Weigh, WaitThen, Updating
  <2> QED
    BY <1>3, <1>11, <2>1, Judgements
<1>12. CASE UNCHANGED vars
  BY <1>1, <1>12 DEF vars, reader, Updating
<1> QED
  BY <1>4, <1>5, <1>6, <1>7, <1>8, <1>9, <1>10, <1>11, <1>12 DEF Next, Prober, Finish

LEMMA PagePrompt ==
  ASSUME TypeOK, Stages, Prompt, Page, glitches' = 0 => glitches = 0
  PROVE  Prompt'
<1>1. /\ UNCHANGED <<glitches, pc, resume, now, candidate, since, initial, armed, read,
                     response_completion_observed, results, offer>>
      /\ target' = target /\ Updating' = Updating
  BY PageReader, PageFrame
<1>2. /\ now \in Nat /\ StableFor \in Nat /\ mutated \in BOOLEAN /\ armed \in BOOLEAN
  BY Times DEF TypeOK, PageTypeOK, ProberTypeOK
<1>3. CASE answered' = answered
  <2>1. mutated => mutated'
    BY <1>2 DEF Page, AppendDates, SendSelection, SendOther, Blank, Render, Answer
  <2> QED
    BY <1>1, <1>3, <2>1 DEF Prompt, Due
<1>4. CASE answered' # answered
  <2>1. answered' = now /\ mutated' = (mutated \/ armed)
    BY <1>4 DEF Page, AppendDates, SendSelection, SendOther, Blank, Render, Answer
  <2>2. armed => mutated'
    BY <1>2, <2>1
  <2>3. /\ ~(now > answered') /\ ~(now >= answered' + 1) /\ ~(now >= answered' + 2)
        /\ ~(now >= answered' + 3)
        /\ now <= answered' + 2 + StableFor /\ now < answered' + 2 + StableFor
    BY <1>2, <2>1
  <2> QED
    BY <1>1, <2>2, <2>3 DEF Prompt, Due
<1> QED
  BY <1>3, <1>4

\* What a rendered answer means for the prober.
LEMMA DueFacts ==
  ASSUME TypeOK, Stages, Observed, UnboundObserved, Prompt, Due
  PROVE  /\ answered \in Nat /\ now \in Nat /\ StableFor \in Nat
         /\ shown = offer[target] /\ selected = target
         /\ ~update.failed
         /\ LivewireBound => update.succeeded
         /\ ~LivewireBound => response_completion_observed
         /\ initial = NoControl \/ (armed /\ mutated)
<1>1. answered \in Nat /\ now \in Nat /\ StableFor \in Nat
  BY Times DEF Due, TypeOK, ProberTypeOK
<1>2. Rendered /\ selected = target
  BY DEF Due, Stages
<1>3. ~update.failed /\ (LivewireBound => update.succeeded)
  <2>1. LivewireBound \in BOOLEAN
    BY WizardAssumption DEF WizardAssumption
  <2>2. update.failed = (LivewireBound /\ FALSE) /\ update.succeeded = (LivewireBound /\ TRUE)
    BY <1>2 DEF Rendered, Monitored
  <2> QED
    BY <2>1, <2>2, Zenon
<1>4. armed = (initial # NoControl) /\ (armed => mutated)
  BY DEF Due, Observed, Prompt
<1>5. ~LivewireBound => response_completion_observed
  BY DEF Due, UnboundObserved
<1> QED
  BY <1>1, <1>2, <1>3, <1>4, <1>5 DEF Rendered

\* A turn after a true reading was judged, it is accepted.
LEMMA TrueReadingAccepted ==
  ASSUME TypeOK, Stages, Observed, UnboundObserved, Prompt, Due, pc = "judge",
         ~update.succeeded \/ response_completion_observed, now > answered
  PROVE  Accepts /\ read.shifts = offer[target]
<1>1. read = [one |-> TRUE, selected |-> TRUE, failed |-> FALSE, shifts |-> offer[target]]
  BY DEF Prompt
<1>2. read.selected /\ read.shifts = offer[target] /\ read.shifts \in Lists
  BY <1>1 DEF Due
<1>3. network_confirmed /\ (dom_changed \/ update.succeeded)
  BY DueFacts DEF network_confirmed, dom_changed
<1> QED
  BY <1>2, <1>3 DEF Accepts, Confirmed

LEMMA PromptNext ==
  TypeOK /\ Stages /\ Tracking /\ Observed /\ UnboundObserved /\ Prompt /\ [Next]_vars => Prompt'
<1> SUFFICES ASSUME TypeOK, Stages, Tracking, Observed, UnboundObserved, Prompt, [Next]_vars
             PROVE  Prompt'
  OBVIOUS
<1>0. glitches \in Nat /\ (glitches' = 0 => glitches = 0)
  BY GlitchesCount
<1>1. ~Updating' \/ glitches' # 0 => Prompt'
  BY DEF Prompt, Due
<1>2. \A status, shifts : Result(status, shifts) => Prompt'
  BY <1>1, ResultClock DEF Updating
<1>3. CASE Page
  BY <1>0, <1>3, PagePrompt
<1>4. CASE Navigate \/ ScanInitial \/ Arm
  <2>1. pc' \in {"discover", "done", "observe", "raised", "select"}
    BY <1>4 DEF Navigate, ScanInitial, Arm, Goto
  <2> QED
    BY <1>1, <2>1 DEF Updating
<1>5. CASE Wait
  <2>1. /\ now' = now + 1 /\ pc = "wait" /\ pc' = resume
        /\ UNCHANGED <<offer, glitches, candidate, since, armed, read, results, mutated,
                       response_completion_observed, answered>>
    BY <1>5 DEF Wait, Goto, reader
  <2>2. resume \in {"discover", "absence", "dates"} /\ target' = target
    BY <2>1, SameTurn DEF TypeOK, ProberTypeOK
  <2>3. CASE resume = "dates"
    <3>1. pc' = "dates" /\ (Due' <=> Due)
      BY <2>1, <2>2, <2>3 DEF Due, Updating
    <3>2. SUFFICES ASSUME Due PROVE Prompt'
      BY <3>1 DEF Prompt
    <3>3. answered \in Nat /\ now \in Nat /\ StableFor \in Nat
      BY <3>2, DueFacts
    <3>4. now < answered + 2 + StableFor
      BY <2>1, <3>2 DEF Prompt
    <3>5. /\ armed => mutated
          /\ now >= answered + 1 => response_completion_observed
          /\ now >= answered + 2 => candidate = offer[target] /\ since <= answered + 2
      BY <2>1, <3>2 DEF Prompt
    <3>6. now' <= answered + 2 + StableFor
      BY <2>1, <3>3, <3>4
    <3> QED
      BY <2>1, <2>2, <3>1, <3>3, <3>5, <3>6 DEF Prompt
  <2> QED
    BY <1>1, <2>1, <2>2, <2>3 DEF Updating
<1>6. CASE Discover \/ ConfirmAbsence
  <2>1. WaitThen("discover") \/ WaitThen("absence") \/ Goto("arm") => ~Updating'
    BY DEF WaitThen, Goto, Updating
  <2> QED
    BY <1>1, <1>2, <1>6, <2>1, DateLoops
<1>7. CASE Select
  <2>1. CASE Failed
    BY <1>2, <2>1 DEF Failed
  <2>2. CASE ~Failed
    <3>1. pc = "select" /\ answered' = answered
      BY <1>7, <2>2 DEF Select
    <3> QED
      BY <3>1 DEF Stages, Closed, Updating, Prompt, Due
  <2> QED
    BY <2>1, <2>2
<1>8. CASE ScanDates
  <2>1. ASSUME Reread, pc = "dates", Goto("shifts"),
               glitches' = glitches =>
                 read'.one /\ ~read'.failed /\ read'.selected = (selected = target)
        PROVE  Prompt'
    <3>1. /\ UNCHANGED <<offer, now, candidate, since, armed, results, mutated,
                         response_completion_observed, answered>>
          /\ target' = target /\ pc' = "shifts"
      BY <2>1, SameTurn DEF Reread, page, Goto
    <3>2. SUFFICES ASSUME Due' PROVE Prompt'
      BY DEF Prompt
    <3>3. Due /\ glitches' = glitches
      BY <1>0, <2>1, <3>1, <3>2 DEF Due, Updating
    <3>4. read'.one /\ ~read'.failed /\ read'.selected
      BY <2>1, <3>3, DueFacts
    <3> QED
      BY <2>1, <3>1, <3>3, <3>4 DEF Prompt
  <2>2. glitches' = glitches + 1 => Prompt'
    BY <1>0, <1>1
  <2> QED
    BY <1>2, <1>8, <2>1, <2>2, DateScans
<1>9. CASE ScanShifts
  <2>1. /\ UNCHANGED <<offer, now, candidate, since, armed, results, mutated,
                       response_completion_observed, answered>>
        /\ target' = target /\ pc = "shifts" /\ pc' = "judge" /\ Counted
        /\ glitches' = glitches => read' = [read EXCEPT !.shifts = shown]
    BY <1>9, ShiftScans, SameTurn DEF Reread, page, Goto
  <2>2. SUFFICES ASSUME Due' PROVE Prompt'
    BY DEF Prompt
  <2>3. Due /\ glitches' = glitches
    BY <1>0, <2>1, <2>2 DEF Due, Updating, Counted
  <2>4. shown = offer[target] /\ read \in Reads
    BY <2>3, DueFacts DEF TypeOK, ProberTypeOK
  <2>5. ASSUME now > answered
        PROVE  read' = [one |-> TRUE, selected |-> TRUE, failed |-> FALSE,
                        shifts |-> offer[target]]
    <3>1. read.one = TRUE /\ read.selected = TRUE /\ read.failed = FALSE
      BY <2>1, <2>3, <2>4, <2>5 DEF Prompt, Reads
    <3> QED
      BY <2>1, <2>3, <2>4, <3>1 DEF Reads
  <2> QED
    BY <2>1, <2>3, <2>5 DEF Prompt
<1>10. CASE TurnAfterResponse /\ Judge
  <2>1. /\ UNCHANGED <<offer, now, armed, results, mutated, answered>>
        /\ target' = target /\ pc = "judge" /\ pc' = "wait"
        /\ response_completion_observed' = TRUE /\ ~response_completion_observed
    BY <1>10, Judgements, SameTurn DEF TurnAfterResponse, page, WaitThen
  <2>2. SUFFICES ASSUME Due' PROVE Prompt'
    BY DEF Prompt
  <2>3. Due
    BY <1>0, <2>1, <2>2 DEF Due, Updating
  <2>4. answered \in Nat /\ now \in Nat /\ StableFor \in Nat
    BY <2>3, DueFacts
  <2>5. ~(now >= answered + 2) /\ (armed => mutated)
    BY <2>1, <2>3 DEF Prompt
  <2>6. now < answered + 2 + StableFor
    BY <2>4, <2>5
  <2> QED
    BY <2>1, <2>4, <2>5, <2>6 DEF Prompt
<1>11. CASE /\ ~update.succeeded \/ response_completion_observed
            /\ ~Settled /\ Weigh /\ Judge
  <2>1. /\ UNCHANGED <<offer, now, armed, results, mutated, response_completion_observed,
                       answered>>
        /\ target' = target /\ pc = "judge" /\ pc' = "wait"
    BY <1>11, Judgements, SameTurn DEF Weigh, page, WaitThen
  <2>2. SUFFICES ASSUME Due' PROVE Prompt'
    BY DEF Prompt
  <2>3. Due
    BY <1>0, <2>1, <2>2 DEF Due, Updating
  <2>4. answered \in Nat /\ now \in Nat /\ StableFor \in Nat /\ response_completion_observed
    BY <1>11, <2>3, DueFacts
  <2>5. armed => mutated
    BY <2>3 DEF Prompt
  <2>6. ASSUME now >= answered + 2
        PROVE  /\ candidate' = offer[target] /\ since' <= answered + 2
               /\ now < answered + 2 + StableFor
    <3>1. now > answered
      BY <2>4, <2>6
    <3>2. Accepts /\ read.shifts = offer[target]
      BY <1>11, <2>1, <2>3, <3>1, TrueReadingAccepted
    <3>3. candidate' = read.shifts /\ since' = StableSince
      BY <1>11, <3>2 DEF Weigh, Track
    <3>4. StableSince \in Nat /\ StableSince <= answered + 2
      <4>1. CASE read.shifts = candidate
        <5>1. since \in Nat /\ since <= now
          BY <2>3, <3>2, <4>1 DEF Tracking, Due
        <5>2. now >= answered + 3 => since <= answered + 2
          BY <2>1, <2>3 DEF Prompt
        <5> QED
          BY <2>4, <4>1, <5>1, <5>2 DEF StableSince
      <4>2. CASE read.shifts # candidate
        <5>1. ~(now >= answered + 3)
          BY <2>1, <2>3, <3>2, <4>2 DEF Prompt
        <5> QED
          BY <2>4, <4>2, <5>1 DEF StableSince
      <4> QED
        BY <4>1, <4>2
    <3>5. ~(now - StableSince >= StableFor)
      BY <1>11, <3>2 DEF Settled
    <3> QED
      BY <2>4, <3>2, <3>3, <3>4, <3>5
  <2>7. now < answered + 2 + StableFor
    BY <2>4, <2>6
  <2> QED
    BY <2>1, <2>4, <2>5, <2>6, <2>7 DEF Prompt
<1>12. CASE Judge
  <2>1. glitches' = glitches + 1 => Prompt'
    BY <1>0, <1>1
  <2> QED
    BY <1>2, <1>10, <1>11, <1>12, <2>1, Judgements
<1>13. CASE UNCHANGED vars
  BY <1>13, SameTurn DEF vars, page, reader, Prompt, Due, Updating
<1> QED
  BY <1>3, <1>4, <1>5, <1>6, <1>7, <1>8, <1>9, <1>12, <1>13 DEF Next, Prober, Finish

LEMMA PromptAnswerNext ==
  /\ TypeOK /\ Stages /\ Observed /\ UnboundObserved /\ Prompt /\ PromptAnswerIsRead
  /\ [Next]_vars
  => PromptAnswerIsRead'
<1> SUFFICES ASSUME TypeOK, Stages, Observed, UnboundObserved, Prompt, PromptAnswerIsRead,
                    [Next]_vars, NEW k \in DOMAIN results',
                    glitches' = 0, results'[k].answered # None,
                    results'[k].answered + 2 + StableFor <= UpdateTimeout,
                    offer[Targets[k]] \in Lists
             PROVE  results'[k].status = "available"
  BY OfferFixed DEF PromptAnswerIsRead
<1>0. glitches = 0 /\ glitches' # glitches + 1
  BY GlitchesCount
<1>1. CASE k \in DOMAIN results /\ results'[k] = results[k]
  BY <1>0, <1>1 DEF PromptAnswerIsRead
<1>2. CASE results'[k] = [status |-> "error", shifts |-> NoControl, answered |-> None]
  BY <1>2
<1>3. ASSUME NEW status \in {"available", "unavailable", "unknown", "error"}, NEW shifts \in Shown,
             Verdict(status, shifts), k = Len(results) + 1,
             results'[k] = [status |-> status, shifts |-> shifts, answered |-> answered]
      PROVE  results'[k].status = "available"
  <2>1. /\ results'[k].status = status
        /\ answered # None /\ answered + 2 + StableFor <= UpdateTimeout
        /\ offer[target] \in Lists
    BY <1>3 DEF target
  <2>2. pc \notin {"discover", "absence", "select"}
    BY <2>1 DEF Stages, Closed, Updating
  <2>3. ~(pc = "dates" /\ (Expired \/ update.failed))
    <3> SUFFICES ASSUME pc = "dates"
                 PROVE  ~Expired /\ ~update.failed
      OBVIOUS
    <3>1. Due
      BY <1>0, <2>1 DEF Due, Updating
    <3>2. ~update.failed /\ answered \in Nat /\ now \in Nat
      BY <3>1, DueFacts
    <3>3. now <= answered + 2 + StableFor
      BY <3>1 DEF Prompt
    <3> QED
      BY <2>1, <3>2, <3>3, Times DEF Expired
  <2> QED
    BY <1>0, <1>3, <2>1, <2>2, <2>3 DEF Verdict
<1> QED
  BY <1>1, <1>2, <1>3, Verdicts

\* A date whose answer was rendered early enough is reported as available even
\* when its list is the one that stood there before: without a glitch the loop
\* needs two turns after it and the time of stability, whatever the control.
THEOREM PromptAnswersAreRead == Spec => []PromptAnswerIsRead
<1> DEFINE Inv == /\ TypeOK /\ Stages /\ Tracking /\ Observed /\ UnboundObserved /\ Prompt
                  /\ PromptAnswerIsRead
<1>1. Init => Inv
  <2>1. Init => Observed /\ UnboundObserved /\ Prompt /\ PromptAnswerIsRead
    BY DEF Init, Observed, UnboundObserved, Prompt, Due, Updating, PromptAnswerIsRead
  <2> QED
    BY <2>1, TypeInit, StagesInit
<1>2. Inv /\ [Next]_vars => Inv'
  BY TypeNext, StagesNext, TrackingNext, ObservedNext, PromptNext, PromptAnswerNext
<1>3. Inv => PromptAnswerIsRead
  OBVIOUS
<1> HIDE DEF Inv
<1> QED
  BY <1>1, <1>2, <1>3, PTL DEF Spec
====
