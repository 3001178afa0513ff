---- MODULE StructuredProbe ----
(***************************************************************************)
(* The structured tents of one batch in main.probe_run: Kaefer in the      *)
(* browser, the Reservierungsmanager and the Floesserstadl each in a       *)
(* thread of its own under a wall clock (_run_bounded_http_adapter).       *)
(*                                                                         *)
(* A thread outlives the wall clock: a portal that keeps sending headers   *)
(* holds it forever, and it goes on while main probes the next tent.  Time *)
(* passes in ticks while a portal answers and main waits.                  *)
(***************************************************************************)
EXTENDS KaeferPage, Sequences

CONSTANTS
  Batch,                 \* modes of the tents of the batch
  RequestTime,           \* _MAX_REQUEST_SECONDS, _TOTAL_DEADLINE_SECONDS
  FetchTime,             \* _MAX_FETCH_SECONDS
  Wall,                  \* wall clock of main per mode of a thread
  Widgets,               \* configurations of the widget, as in ParseEventDays
  TicketAnswers,         \* sets of tickets the API may answer
  FormAnswers,           \* sets of fields the form may have
  \* the portals
  Prompt,                \* a request is prompt when it takes no longer
  MaxRotations           \* bound: times the site changes its token

Modes == {"reservierungsmanager", "floesserstadl"}

\* The budgets nest: the requests of a refresh fit the fetch, the fetch the wall.
ASSUME ProbeAssumption ==
  /\ Batch \in Seq(Modes \cup {"kaefer"}) /\ Batch # <<>>
  /\ RequestTime \in Nat /\ FetchTime \in Nat \ {0} /\ Prompt \in Nat
  /\ Wall \in [Modes -> Nat]
  /\ Prompt <= RequestTime /\ 4 * Prompt <= FetchTime
  /\ FetchTime < Wall["reservierungsmanager"] /\ RequestTime < Wall["floesserstadl"]

\* Answers are finite, and None is none of the shifts they offer.
ASSUME AnswerAssumption ==
  /\ \A answer \in TicketAnswers : IsFiniteSet(answer) /\ \A t \in answer : IsFiniteSet(t.days)
  /\ \A answer \in FormAnswers : IsFiniteSet(answer) /\ \A f \in answer : IsFiniteSet(f.options)
  /\ \A answer \in SlotAnswers : /\ IsFiniteSet(answer)
                                 /\ \A r \in answer : {r.inside, r.outside, r.day} \subseteq Nat
  /\ \A shifts \in SUBSET Fits : shifts # None
  /\ \A shifts \in SUBSET FormShifts : shifts # None
  /\ \A shifts \in SUBSET SlotTimes : shifts # None

Threads == {i \in 1 .. Len(Batch) : Batch[i] # "kaefer"}

VARIABLES
  current,               \* the tent main is at
  pc,                    \* "start", "wait" for a thread, "kaefer" or "end"
  result,                \* what was observed of the last tent, None: handed on
  thread,                \* per thread where it is, its age and when its request began
  outcome,               \* per queue the item in it, None: empty
  token,                 \* the token the site accepts
  blame                  \* history: what its portal did to the current thread

main == <<current, pc, result>>
threads == <<thread, outcome, token, blame>>
vars == <<main, threads, kaefer>>

Error(error_class) ==
  [status |-> "error", shifts |-> None, health |-> "error", page_type |-> "unknown",
   error_class |-> error_class, evidence |-> NoEvidence]

NoThread == [at |-> "none", attempt |-> 0, age |-> 0, began |-> 0,
             token |-> 0, payload |-> None]
Blameless == [failed |-> FALSE, slow |-> FALSE, rotations |-> 0]

Init ==
  /\ KaeferInit
  /\ current = 1 /\ pc = "start" /\ result = None
  /\ thread = [i \in Threads |-> NoThread]
  /\ outcome = [i \in Threads |-> None]
  /\ token = 0
  /\ blame = Blameless

Alive(i) == thread[i].at \in {"landing", "api", "form"}
Parsing == \E i \in Threads : thread[i].at = "parse"

-----------------------------------------------------------------------------
(* A thread *)

\* Seeded fault: one queue for all adapters.
SharedQueue(i) == CHOOSE j \in Threads : TRUE

QueueOf(i) == i

\* put_nowait; a full queue drops the item.
Puts(i, value) ==
  /\ thread' = [thread EXCEPT ![i] = NoThread]
  /\ outcome' = IF outcome[QueueOf(i)] = None
                  THEN [outcome EXCEPT ![QueueOf(i)] = [by |-> i, value |-> value]]
                  ELSE outcome

Raises(i) == Puts(i, Error("probe_exception"))

\* request_deadline is not exceeded.
InTime(i) ==
  /\ thread[i].age - thread[i].began <= RequestTime
  /\ Batch[i] = "reservierungsmanager" => thread[i].age <= FetchTime

\* The next request of the adapter begins if there is time left for it.
Requests(i, next) ==
  IF thread[i].age < FetchTime
    THEN /\ thread' = [thread EXCEPT ![i] = [next EXCEPT !.began = thread[i].age]]
         /\ UNCHANGED outcome
    ELSE Raises(i)

\* Connection, status, size or encoding are wrong.
RequestFails(i) ==
  /\ Alive(i) /\ Raises(i)
  /\ blame' = [blame EXCEPT !.failed = @ \/ i = current]
  /\ UNCHANGED token

\* The landing page is not the one whose script was validated.
WidgetInvalid(i) ==
  /\ thread[i].at = "landing" /\ InTime(i) /\ Raises(i)
  /\ blame' = [blame EXCEPT !.failed = @ \/ i = current]
  /\ UNCHANGED token

AnswersLate(i) ==
  /\ Alive(i) /\ ~InTime(i) /\ Raises(i)
  /\ UNCHANGED <<token, blame>>

LandingAnswers(i) ==
  /\ thread[i].at = "landing" /\ InTime(i)
  /\ Requests(i, [thread[i] EXCEPT !.at = "api", !.token = token])
  /\ UNCHANGED <<token, blame>>

\* Seeded fault: a rejected token is final.
MayRefreshNever(i) == FALSE

MayRefresh(i) == thread[i].attempt = 0

Unauthorized(i) ==
  /\ thread[i].at = "api" /\ InTime(i) /\ thread[i].token # token
  /\ IF MayRefresh(i)
       THEN Requests(i, [thread[i] EXCEPT !.at = "landing", !.attempt = 1])
       ELSE Raises(i)
  /\ UNCHANGED <<token, blame>>

\* The body is complete; parsing it takes no time.
Answers(i) ==
  /\ InTime(i)
  /\ \/ /\ thread[i].at = "api" /\ thread[i].token = token
        /\ \E widget \in Widgets, tickets \in TicketAnswers :
             thread' = [thread EXCEPT ![i].at = "parse",
                          ![i].payload = [widget |-> widget, tickets |-> tickets]]
     \/ /\ thread[i].at = "form"
        /\ \E fields \in FormAnswers :
             thread' = [thread EXCEPT ![i].at = "parse", ![i].payload = fields]
  /\ UNCHANGED <<outcome, token, blame>>

Parsed(i) ==
  IF Batch[i] = "floesserstadl"
    THEN ParseFormFields(thread[i].payload)
    ELSE ParseEventDays(thread[i].payload.widget, thread[i].payload.tickets)

Parses(i) ==
  /\ thread[i].at = "parse"
  /\ Puts(i, Parsed(i))
  /\ UNCHANGED <<token, blame>>

\* The site changes its token: external.  What it does to an abandoned thread
\* makes no difference to anybody.
Rotates ==
  /\ token < MaxRotations
  /\ pc = "wait" /\ thread[current].at \in {"landing", "api"}
  /\ token' = token + 1
  /\ blame' = [blame EXCEPT !.rotations = @ + 1]
  /\ UNCHANGED <<thread, outcome>>

-----------------------------------------------------------------------------
(* main *)

Ages(i) == Alive(i) /\ thread[i].age < Wall[Batch[i]]

Tick ==
  /\ \/ pc = "wait" /\ Ages(current)
     \/ pc = "kaefer" /\ \E i \in Threads : Ages(i)
  /\ thread' = [i \in Threads |-> IF Ages(i) THEN [thread[i] EXCEPT !.age = @ + 1]
                                             ELSE thread[i]]
  /\ blame' = [blame EXCEPT !.slow = @ \/ /\ pc = "wait"
                                          /\ thread[current].age - thread[current].began >= Prompt]
  /\ UNCHANGED <<main, outcome, token, kaefer>>

\* The observation is handed to _apply_observation before the next tent.
Records(by, value) ==
  /\ result' = [tent |-> current, by |-> by, value |-> value]
  /\ IF current = Len(Batch) THEN pc' = "end" /\ UNCHANGED current
                             ELSE pc' = "start" /\ current' = current + 1

StartThread ==
  /\ pc = "start" /\ current \in Threads
  /\ pc' = "wait" /\ result' = None /\ blame' = Blameless
  /\ thread' = [thread EXCEPT ![current].at =
                  IF Batch[current] = "floesserstadl" THEN "form" ELSE "landing"]
  /\ UNCHANGED <<current, outcome, token, kaefer>>

\* outcome.get, and its exception becomes an error of the tent.
Takes ==
  /\ pc = "wait" /\ outcome[QueueOf(current)] # None
  /\ LET item == outcome[QueueOf(current)] IN Records(item.by, item.value)
  /\ outcome' = [outcome EXCEPT ![QueueOf(current)] = None]
  /\ UNCHANGED <<thread, token, blame, kaefer>>

\* Seeded fault: outcome.get() without a timeout.
GivesUpNever == FALSE

GivesUp ==
  /\ pc = "wait" /\ outcome[QueueOf(current)] = None
  /\ thread[current].age = Wall[Batch[current]]
  /\ Records(current, Error("probe_exception"))
  /\ UNCHANGED <<threads, kaefer>>

\* launch_browser may have failed.
StartKaefer ==
  /\ pc = "start" /\ current \notin Threads
  /\ \/ Opens /\ pc' = "kaefer" /\ result' = None /\ UNCHANGED current
     \/ Records(current, Error("browser_unavailable")) /\ UNCHANGED kaefer
  /\ UNCHANGED threads

EndKaefer ==
  /\ pc = "kaefer" /\ step \in {"parse", "failed"}
  /\ Records(current, IF step = "parse" THEN ParseSlots(rows) ELSE Error("probe_exception"))
  /\ ContextCloses
  /\ UNCHANGED threads

-----------------------------------------------------------------------------

ThreadStep ==
  /\ pc # "end" /\ UNCHANGED <<main, kaefer>>
  /\ \/ \E i \in Threads : RequestFails(i) \/ AnswersLate(i) \/ WidgetInvalid(i)
                           \/ LandingAnswers(i) \/ Unauthorized(i) \/ Answers(i)
     \/ Rotates

ParseStep ==
  /\ pc # "end" /\ UNCHANGED <<main, kaefer>>
  /\ \E i \in Threads : Parses(i)

MainStep == StartThread \/ Takes \/ GivesUp \/ StartKaefer \/ EndKaefer

Next ==
  \/ ParseStep
  \/ /\ ~Parsing
     /\ \/ Tick \/ ThreadStep \/ MainStep
        \/ PageStep /\ UNCHANGED <<main, threads>>
        \/ FetchStep /\ UNCHANGED <<main, threads>>

\* Time passes, main and a parser go on, and waits in the browser have deadlines.
\* Of the portals nothing is assumed.
Fairness ==
  /\ WF_vars(~Parsing /\ Tick) /\ WF_vars(~Parsing /\ MainStep) /\ WF_vars(ParseStep)
  /\ WF_vars(~Parsing /\ FetchStep /\ UNCHANGED <<main, threads>>)

Spec == Init /\ [][Next]_vars /\ Fairness
-----------------------------------------------------------------------------
(* Properties *)

\* A thread that main has given up on supplies no result, neither of its own
\* tent nor, late, of the next one, and asks its portal for nothing more: the
\* daemon thread of _run_bounded_http_adapter is never stopped.
AbandonedInert ==
  /\ result # None => result.by = result.tent
  /\ \A i \in Threads : i < current /\ Alive(i) => thread[i].began < Wall[Batch[i]]

\* An error of an HTTP tent is its portal's: one that answers every request
\* promptly is read, even if it changes the token once while it is read.  The
\* four requests of a refresh fit the budget of the fetch, that fits the wall
\* clock, and nothing a slower tent before it left behind gets in the way.
BlameTheSite ==
  /\ result # None
  /\ Batch[result.tent] # "kaefer" /\ result.value.status = "error"
  => blame.failed \/ blame.slow \/ blame.rotations > 1

\* kaefer.fetch parses only an answer that is complete (reading the body of an
\* incomplete one has no deadline), and only if the page has tried nothing but
\* GETs until then, whenever it tried.
SlotsReadOnly == step = "parse" => slot[response] = "finished" /\ ~blocked

\* Every result an adapter gives is one ProbeResult accepts, and one that is to
\* change the baseline is accepted by events._structured_reliable_error, which
\* states the evidence a second time.
AdaptersAgree ==
  result # None =>
    /\ ProbeResultAccepts(result.value)
    /\ result.value.status \in {"available", "unavailable"} => StructuredReliable(result.value)

\* Of a result: "unavailable" when the answer holds nothing that may be an offer
\* for the target, "available" with exactly what it offers.
Truthful(r, offered, possible) ==
  /\ r.status = "unavailable" => possible = {}
  /\ r.status = "available" => r.shifts = offered /\ offered # {}

\* No parser takes an answer it does not fully understand for an absence, and
\* none reports a shift the answer does not offer for the target: what may be an
\* offer includes tickets that no filter knows, fields that only resemble a
\* reservation, and tables that only the count of the day shows.
ReadingsTrue ==
  /\ \A i \in Threads :
       thread[i].at = "parse" =>
         LET answer == thread[i].payload
         IN  IF Batch[i] = "floesserstadl"
               THEN Truthful(Parsed(i),
                         {f.kind : f \in {g \in answer : Target \in Listed(g)}},
                         {f \in answer : Target \in Listed(f)})
               ELSE LET ours == {t \in answer.tickets :
                                   /\ answer.widget.ids = {} \/ t.id \in answer.widget.ids
                                   /\ answer.widget.filter => t.name # "excluded"}
                        days(t) == {d \in t.days : d[1] = Target}
                    IN  Truthful(Parsed(i),
                             UNION {{<<t.category, d[2]>> : d \in days(t)} : t \in ours},
                             {t \in ours : days(t) # {}})
  /\ step = "parse" =>
       LET target == {r \in rows : r.date = Target}
           free == {r \in target : r.inside + r.outside > 0}
       IN  Truthful(ParseSlots(rows), {r.time : r \in free}, free \cup {r \in target : r.day > 0})

\* Every batch comes to its end, whatever the portals and threads do.
BatchEnds == <>(pc = "end")
====
