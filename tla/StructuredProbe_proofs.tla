---- MODULE StructuredProbe_proofs ----
(***************************************************************************)
(* The structured tents of any batch, with any answers, widgets, deadlines *)
(* and number of token changes: what the parsers conclude is true of the   *)
(* answer and accepted by both contracts, late threads are inert, and an   *)
(* error is the portal's.                                                  *)
(***************************************************************************)
EXTENDS StructuredProbe, FiniteSetTheorems, TLAPS

-----------------------------------------------------------------------------
(* Results that both contracts accept *)

Agrees(r) == /\ ProbeResultAccepts(r)
             /\ r.status \in {"available", "unavailable"} => StructuredReliable(r)

LEMMA ErrorAgrees == \A error_class : Agrees(Error(error_class))
BY DEF Agrees, ProbeResultAccepts, Error

LEMMA UnknownAgrees ==
  \A error_class : Agrees(Unknown(error_class)) /\ Unknown(error_class).status = "unknown"
BY DEF Agrees, ProbeResultAccepts, Unknown

LEMMA AvailableAgrees ==
  ASSUME NEW shifts, NEW dates \in Nat, dates > 0, shifts # {}, shifts # None
  PROVE  Agrees(Available(shifts, dates)) /\ Available(shifts, dates).status = "available"
         /\ Available(shifts, dates).shifts = shifts
BY DEF Agrees, ProbeResultAccepts, StructuredReliable, Available, Reliable, Correlated,
       NoEvidence

LEMMA AbsentAgrees ==
  ASSUME NEW dates \in Nat, NEW confirmed \in BOOLEAN, dates > 0 \/ confirmed
  PROVE  Agrees(Absent(dates, confirmed)) /\ Absent(dates, confirmed).status = "unavailable"
BY DEF Agrees, ProbeResultAccepts, StructuredReliable, Absent, Reliable, Correlated,
       NoEvidence

LEMMA NoCapacityAgrees ==
  ASSUME NEW dates \in Nat, dates > 0
  PROVE  Agrees(NoCapacity(dates)) /\ NoCapacity(dates).status = "unavailable"
BY DEF Agrees, ProbeResultAccepts, StructuredReliable, NoCapacity, Reliable, Correlated,
       NoEvidence

LEMMA Counted ==
  ASSUME NEW S, IsFiniteSet(S), S # {}
  PROVE  Cardinality(S) \in Nat /\ Cardinality(S) > 0
BY FS_CardinalityType, FS_EmptySet

LEMMA ImageFinite ==
  ASSUME NEW S, IsFiniteSet(S), NEW f, f = [x \in S |-> f[x]]
  PROVE  IsFiniteSet({f[x] : x \in S})
<1> DEFINE T == {f[x] : x \in S}
<1>1. f \in Surjection(S, T)
  <2>1. f \in [S -> T] /\ \A t \in T : \E s \in S : f[s] = t
    BY Zenon
  <2> QED
    BY <2>1 DEF Surjection
<1> QED
  BY <1>1, FS_Surjection

-----------------------------------------------------------------------------
(* What the parsers conclude *)

\* A reading of an answer is accepted, and true of it.
Sound(r, offered, possible) ==
  /\ Agrees(r) /\ r.status \in {"available", "unavailable", "unknown"}
  /\ Truthful(r, offered, possible)

LEMMA UnknownSound ==
  \A error_class, offered, possible : Sound(Unknown(error_class), offered, possible)
BY UnknownAgrees DEF Sound, Truthful

Ours(cfg, tickets) == {t \in tickets : /\ cfg.ids = {} \/ t.id \in cfg.ids
                                       /\ cfg.filter => t.name # "excluded"}
DaysOf(t) == {d \in t.days : d[1] = Target}
TicketShifts(ours) == UNION {{<<t.category, d[2]>> : d \in DaysOf(t)} : t \in ours}

\* parse_event_days_payload, for any tickets.
LEMMA EventDaysSound ==
  ASSUME NEW cfg, NEW tickets, IsFiniteSet(tickets), \A t \in tickets : IsFiniteSet(t.days),
         \A shifts \in SUBSET Fits : shifts # None
  PROVE  LET ours == Ours(cfg, tickets)
         IN  Sound(ParseEventDays(cfg, tickets), TicketShifts(ours),
                   {t \in ours : DaysOf(t) # {}})
<1> DEFINE ours == Ours(cfg, tickets)
           included == {t \in tickets : ~Irrelevant(cfg, t)}
           days == UNION {t.days : t \in included}
           dates == {day[1] : day \in days}
           shifts == UNION {{<<t.category, day[2]>> : day \in {d \in t.days : d[1] = Target}} :
                              t \in included}
           reading == ParseEventDays(cfg, tickets)
           possible == {t \in ours : DaysOf(t) # {}}
<1>1. included = ours
  BY DEF Ours, Irrelevant, Asked
<1>2. shifts = TicketShifts(ours)
  BY <1>1 DEF TicketShifts, DaysOf
<1>3. CASE tickets = {} \/ Contradictory(cfg, tickets)
  BY <1>3, UnknownSound DEF ParseEventDays
<1>4. CASE tickets # {} /\ ~Contradictory(cfg, tickets) /\ included = {}
  <2>1. reading = Absent(0, TRUE)
    BY <1>4 DEF ParseEventDays
  <2>2. possible = {}
    BY <1>1, <1>4
  <2>3. Agrees(reading) /\ reading.status = "unavailable"
    BY <2>1, AbsentAgrees
  <2> QED
    BY <2>2, <2>3 DEF Sound, Truthful
<1>5. CASE tickets # {} /\ ~Contradictory(cfg, tickets) /\ included # {}
  <2>1. \A t \in included : /\ t.days # {}
                            /\ \A day \in t.days : <<t.category, day[2]>> \in Fits
    BY <1>5 DEF Contradictory
  <2>2. shifts \subseteq Fits
    BY <2>1
  <2>3. Cardinality(dates) \in Nat /\ Cardinality(dates) > 0
    <3>1. IsFiniteSet(included)
      BY FS_Subset
    <3>2. IsFiniteSet({t.days : t \in included})
      <4> DEFINE f == [t \in included |-> t.days]
      <4>1. {f[t] : t \in included} = {t.days : t \in included}
        OBVIOUS
      <4>2. f = [t \in included |-> f[t]]
        OBVIOUS
      <4> HIDE DEF f
      <4>3. IsFiniteSet({f[t] : t \in included})
        BY <3>1, <4>2, ImageFinite
      <4> QED
        BY <4>1, <4>3
    <3>3. \A D \in {t.days : t \in included} : IsFiniteSet(D)
      OBVIOUS
    <3>4. IsFiniteSet(days)
      BY <3>2, <3>3, FS_UNION
    <3>5. IsFiniteSet(dates)
      <4> DEFINE f == [day \in days |-> day[1]]
      <4>1. {f[day] : day \in days} = dates
        OBVIOUS
      <4>2. f = [day \in days |-> f[day]]
        OBVIOUS
      <4> HIDE DEF f
      <4>3. IsFiniteSet({f[day] : day \in days})
        BY <3>4, <4>2, ImageFinite
      <4> QED
        BY <4>1, <4>3
    <3>6. dates # {}
      BY <1>5, <2>1
    <3> QED
      BY <3>5, <3>6, Counted
  <2>4. reading = IF Cardinality(shifts) > MaxShifts THEN Unknown("event_days_schema_invalid")
                 ELSE IF shifts = {} THEN Absent(Cardinality(dates), FALSE)
                 ELSE Available(shifts, Cardinality(dates))
    BY <1>5 DEF ParseEventDays
  <2>5. shifts = {} => possible = {}
    <3> SUFFICES ASSUME NEW t \in ours, NEW d \in DaysOf(t)
                 PROVE  <<t.category, d[2]>> \in shifts
      OBVIOUS
    <3>1. <<t.category, d[2]>> \in {<<t.category, e[2]>> : e \in DaysOf(t)}
      OBVIOUS
    <3> DEFINE parts == {{<<u.category, e[2]>> : e \in DaysOf(u)} : u \in ours}
    <3>2. {<<t.category, e[2]>> : e \in DaysOf(t)} \in parts
      <4> HIDE DEF ours
      <4> QED
        OBVIOUS
    <3>3. <<t.category, d[2]>> \in UNION parts
      <4> HIDE DEF parts
      <4> QED
        BY <3>1, <3>2
    <3> QED
      BY <1>2, <3>3, Zenon DEF TicketShifts
  <2> HIDE DEF shifts, dates, reading, possible, ours, included, days
  <2>6. CASE reading = Unknown("event_days_schema_invalid")
    BY <2>6, UnknownSound DEF reading, ours, possible
  <2>7. CASE shifts = {} /\ reading = Absent(Cardinality(dates), FALSE)
    <3>1. Agrees(reading) /\ reading.status = "unavailable"
      BY <2>3, <2>7, AbsentAgrees
    <3> QED
      BY <2>5, <2>7, <3>1 DEF Sound, Truthful, reading, ours, possible
  <2>8. CASE shifts # {} /\ reading = Available(shifts, Cardinality(dates))
    <3>1. Agrees(reading) /\ reading.status = "available" /\ reading.shifts = shifts
      BY <2>2, <2>3, <2>8, AvailableAgrees
    <3> QED
      BY <1>2, <2>8, <3>1 DEF Sound, Truthful, reading, ours, possible
  <2> QED
    BY <2>4, <2>6, <2>7, <2>8
<1> QED
  BY <1>3, <1>4, <1>5

\* parse_form_fields, for any fields.
LEMMA FormFieldsSound ==
  ASSUME NEW fields, IsFiniteSet(fields), \A f \in fields : IsFiniteSet(f.options)
  PROVE  Sound(ParseFormFields(fields),
               {f.kind : f \in {g \in fields : Target \in Listed(g)}},
               {f \in fields : Target \in Listed(f)})
<1> DEFINE selects == {f \in fields : f.kind \in FormShifts}
           dates == UNION {Listed(f) : f \in selects}
           mine == {g \in selects : Target \in Listed(g)}
           shifts == {f.kind : f \in mine}
           possible == {f \in fields : Target \in Listed(f)}
           offered == {f.kind : f \in possible}
           reading == ParseFormFields(fields)
<1>1. reading = IF ~FormReadable(fields) THEN Unknown("reservation_form_schema_invalid")
                ELSE IF dates = {} THEN Unknown("reservation_form_no_dates")
                ELSE IF shifts = {} THEN Absent(Cardinality(dates), FALSE)
                ELSE Available(shifts, Cardinality(dates))
  BY DEF ParseFormFields
<1>2. CASE ~FormReadable(fields) \/ dates = {}
  <2>1. \E error_class : reading = Unknown(error_class)
    BY <1>1, <1>2
  <2> QED
    BY <2>1, UnknownSound
<1>3. CASE FormReadable(fields) /\ dates # {}
  \* A field that lists the target is one of the two selects.
  <2>1. mine = possible
    <3> SUFFICES ASSUME NEW f \in fields, Target \in Listed(f) PROVE f \in selects
      OBVIOUS
    <3>1. ~ReservationLike(f)
      BY <1>3 DEF FormReadable
    <3> QED
      BY <3>1 DEF ReservationLike
  <2>2. shifts = offered /\ shifts \subseteq FormShifts
    BY <2>1
  <2>3. shifts = {} => possible = {}
    BY <2>1
  <2>4. Cardinality(dates) \in Nat /\ Cardinality(dates) > 0
    <3>1. IsFiniteSet(selects)
      BY FS_Subset
    <3>2. \A f \in selects : IsFiniteSet(Listed(f))
      <4> SUFFICES ASSUME NEW f \in selects PROVE IsFiniteSet(Listed(f))
        OBVIOUS
      <4> DEFINE g == [o \in f.options |-> o.what]
      <4>1. {g[o] : o \in f.options} = {o.what : o \in f.options} /\ g = [o \in f.options |-> g[o]]
        OBVIOUS
      <4>2. IsFiniteSet(f.options)
        OBVIOUS
      <4> HIDE DEF g
      <4>3. IsFiniteSet({g[o] : o \in f.options})
        BY <4>1, <4>2, ImageFinite
      <4>4. Listed(f) \subseteq {g[o] : o \in f.options}
        BY <4>1 DEF Listed
      <4> QED
        BY <4>3, <4>4, FS_Subset
    <3>3. IsFiniteSet({Listed(f) : f \in selects})
      <4> DEFINE g == [f \in selects |-> Listed(f)]
      <4>1. {g[f] : f \in selects} = {Listed(f) : f \in selects} /\ g = [f \in selects |-> g[f]]
        OBVIOUS
      <4> HIDE DEF g
      <4>2. IsFiniteSet({g[f] : f \in selects})
        BY <3>1, <4>1, ImageFinite
      <4> QED
        BY <4>1, <4>2
    <3>4. IsFiniteSet(dates)
      <4> DEFINE lists == {Listed(f) : f \in selects}
      <4>1. \A D \in lists : IsFiniteSet(D)
        BY <3>2
      <4> HIDE DEF lists
      <4>2. IsFiniteSet(UNION lists)
        BY <3>3, <4>1, FS_UNION DEF lists
      <4> QED
        BY <4>2 DEF lists
    <3> QED
      BY <1>3, <3>4, Counted
  <2>5. \A S \in SUBSET FormShifts : S # None
    BY AnswerAssumption
  <2> HIDE DEF shifts, dates, reading, possible, offered, mine, selects
  <2>6. CASE shifts = {}
    <3>1. reading = Absent(Cardinality(dates), FALSE)
      BY <1>1, <1>3, <2>6
    <3>2. Agrees(reading) /\ reading.status = "unavailable"
      BY <2>4, <3>1, AbsentAgrees
    <3> QED
      BY <2>3, <2>6, <3>2 DEF Sound, Truthful, reading, possible
  <2>7. CASE shifts # {}
    <3>1. reading = Available(shifts, Cardinality(dates))
      BY <1>1, <1>3, <2>7
    <3>2. Agrees(reading) /\ reading.status = "available" /\ reading.shifts = shifts
      BY <2>2, <2>4, <2>5, <2>7, <3>1, AvailableAgrees
    <3> QED
      BY <2>2, <2>7, <3>2 DEF Sound, Truthful, reading, possible, offered
  <2> QED
    BY <2>6, <2>7
<1> QED
  BY <1>2, <1>3

\* parse_slot_payload, for any rows with natural numbers of tables.
LEMMA SlotsSound ==
  ASSUME NEW answer, IsFiniteSet(answer),
         \A r \in answer : {r.inside, r.outside, r.day} \subseteq Nat
  PROVE  LET target == {r \in answer : r.date = Target}
             free == {r \in target : r.inside + r.outside > 0}
         IN  Sound(ParseSlots(answer), {r.time : r \in free},
                   free \cup {r \in target : r.day > 0})
<1> DEFINE target == {r \in answer : r.date = Target}
           free == {r \in target : r.inside + r.outside > 0}
           offering == {r \in target : Offers(r)}
           offered == {r.time : r \in free}
           possible == free \cup {r \in target : r.day > 0}
           dates == {r.date : r \in answer}
           times == {r.time : r \in target}
           shifts == {r.time : r \in offering}
           reading == ParseSlots(answer)
<1>1. \/ \E error_class : reading = Unknown(error_class)
      \/ /\ answer # {} /\ times = SlotTimes /\ SlotsReadable(target)
         /\ \/ shifts = {} /\ reading = NoCapacity(Cardinality(dates))
            \/ shifts # {} /\ reading = Available(shifts, Cardinality(dates))
  BY DEF ParseSlots
<1>2. free = offering
  <2> SUFFICES ASSUME NEW r \in answer PROVE r.inside + r.outside > 0 <=> Offers(r)
    OBVIOUS
  <2>1. r.inside \in Nat /\ r.outside \in Nat
    OBVIOUS
  <2> QED
    BY <2>1 DEF Offers
<1>3. Cardinality(dates) \in Nat /\ (answer # {} => Cardinality(dates) > 0)
  <2> DEFINE f == [r \in answer |-> r.date]
  <2>1. {f[r] : r \in answer} = dates /\ f = [r \in answer |-> f[r]]
    OBVIOUS
  <2> HIDE DEF f
  <2>2. IsFiniteSet({f[r] : r \in answer})
    BY <2>1, ImageFinite
  <2>3. IsFiniteSet(dates)
    BY <2>1, <2>2
  <2>4. answer # {} => dates # {}
    OBVIOUS
  <2> HIDE DEF dates
  <2> QED
    BY <2>3, <2>4, Counted, FS_CardinalityType
<1>4. SlotsReadable(target) /\ shifts = {} => possible = {}
  <2> SUFFICES ASSUME SlotsReadable(target), shifts = {} PROVE possible = {}
    OBVIOUS
  <2>1. offering = {}
    OBVIOUS
  <2>2. \A r \in target : ~Offers(r)
    BY <2>1
  <2>3. \A r \in target : r.day = 0
    <3> HIDE DEF target
    <3> QED
      BY <2>2 DEF SlotsReadable
  <2> QED
    BY <1>2, <2>1, <2>3
<1>5. shifts = offered /\ shifts \subseteq times
  BY <1>2
<1>6. \A S \in SUBSET SlotTimes : S # None
  BY AnswerAssumption
<1> HIDE DEF target, free, offering, offered, possible, dates, times, shifts, reading
<1>7. CASE \E error_class : reading = Unknown(error_class)
  BY <1>7, UnknownSound DEF reading, offered, possible, free, target
<1>8. CASE /\ answer # {} /\ SlotsReadable(target)
           /\ shifts = {} /\ reading = NoCapacity(Cardinality(dates))
  <2>1. Agrees(reading) /\ reading.status = "unavailable"
    BY <1>3, <1>8, NoCapacityAgrees
  <2>2. possible = {}
    BY <1>4, <1>8
  <2>3. Sound(reading, offered, possible)
    BY <2>1, <2>2 DEF Sound, Truthful
  <2> QED
    BY <2>3 DEF reading, offered, possible, free, target
<1>9. CASE /\ answer # {} /\ times = SlotTimes /\ SlotsReadable(target)
           /\ shifts # {} /\ reading = Available(shifts, Cardinality(dates))
  <2>1. Agrees(reading) /\ reading.status = "available" /\ reading.shifts = shifts
    BY <1>3, <1>5, <1>6, <1>9, AvailableAgrees
  <2>2. Sound(reading, offered, possible)
    BY <1>5, <1>9, <2>1 DEF Sound, Truthful
  <2> QED
    BY <2>2 DEF reading, offered, possible, free, target
<1> QED
  BY <1>1, <1>7, <1>8, <1>9

-----------------------------------------------------------------------------
(* The inductive invariant *)

Payloads == {None} \cup FormAnswers \cup [widget : Widgets, tickets : TicketAnswers]

ThreadType ==
  [at : {"none", "landing", "api", "form", "parse"}, attempt : {0, 1},
   age : Nat, began : Nat, token : Nat, payload : Payloads]

Types ==
  /\ current \in 1 .. Len(Batch) /\ pc \in {"start", "wait", "kaefer", "end"}
  /\ pc = "wait" => current \in Threads
  /\ pc = "kaefer" => current \notin Threads
  /\ token \in Nat
  /\ blame \in [failed : BOOLEAN, slow : BOOLEAN, rotations : Nat]
  /\ thread \in [Threads -> ThreadType]
  /\ outcome = [i \in Threads |-> outcome[i]]

Asking(th) == th.at \in {"landing", "api", "form"}

\* Every request of a thread began before the wall clock of its tent ran out,
\* and what a thread parses is an answer of its own portal.
ThreadOK(i, th) ==
  /\ th.at = "none" => th = NoThread
  /\ th.at = "form" => Batch[i] = "floesserstadl"
  /\ th.at \in {"landing", "api"} => Batch[i] = "reservierungsmanager"
  /\ Asking(th) => th.began <= th.age /\ th.began < Wall[Batch[i]]
  /\ th.at = "parse" => th.payload \in IF Batch[i] = "floesserstadl"
                                         THEN FormAnswers
                                         ELSE [widget : Widgets, tickets : TicketAnswers]

\* When a request begins at the latest if all before it were answered promptly.
Latest(th) ==
  IF th.at = "landing" THEN IF th.attempt = 0 THEN 0 ELSE 2 * Prompt
  ELSE IF th.at = "api" THEN IF th.attempt = 0 THEN Prompt ELSE 3 * Prompt
  ELSE 0

\* A second attempt, or a token that is stale, costs the site a change each.
CurrentOK(th, tok, b) ==
  /\ th.attempt = 1 => b.rotations >= 1
  /\ th.at = "api" /\ th.token # tok => b.rotations > th.attempt
  /\ ~b.slow /\ Asking(th) => th.age <= th.began + Prompt /\ th.began <= Latest(th)

Blamed == blame.failed \/ blame.slow \/ blame.rotations > 1

Fresh(i) == i > current \/ (i = current /\ pc = "start")

ThreadsOK ==
  /\ \A i \in Threads : ThreadOK(i, thread[i])
  /\ \A i \in Threads : Fresh(i) => thread[i] = NoThread /\ outcome[i] = None
  /\ pc = "wait" => CurrentOK(thread[current], token, blame)

QueuesOK ==
  \A i \in Threads : outcome[i] # None =>
    /\ outcome[i].by = i /\ Agrees(outcome[i].value)
    /\ i = current /\ pc = "wait" /\ outcome[i].value.status = "error" => Blamed

ResultOK ==
  result # None =>
    /\ result.by = result.tent /\ Agrees(result.value)
    /\ Batch[result.tent] # "kaefer" /\ result.value.status = "error" => Blamed

KaeferOK ==
  step = "parse" => rows \in SlotAnswers /\ slot[response] = "finished" /\ ~blocked

IInv == Types /\ ThreadsOK /\ QueuesOK /\ ResultOK /\ KaeferOK

LEMMA Budgets ==
  /\ Prompt \in Nat /\ RequestTime \in Nat /\ FetchTime \in Nat
  /\ Prompt <= RequestTime /\ 4 * Prompt <= FetchTime /\ FetchTime > 0
  /\ Wall["reservierungsmanager"] \in Nat /\ FetchTime < Wall["reservierungsmanager"]
  /\ Wall["floesserstadl"] \in Nat /\ RequestTime < Wall["floesserstadl"]
BY ProbeAssumption DEF Modes

LEMMA ModeOf ==
  ASSUME NEW i \in Threads
  PROVE  Batch[i] \in {"reservierungsmanager", "floesserstadl"} /\ i \in 1 .. Len(Batch)
BY ProbeAssumption DEF Threads, Modes

LEMMA IInit == Init => IInv
<1> SUFFICES ASSUME Init PROVE IInv
  OBVIOUS
<1>1. 1 \in 1 .. Len(Batch)
  BY ProbeAssumption
<1>2. NoThread \in ThreadType
  BY DEF NoThread, ThreadType, Payloads
<1>3. Types
  BY <1>1, <1>2 DEF Init, Types, Blameless
<1>4. \A i \in Threads : ThreadOK(i, thread[i])
  BY DEF Init, ThreadOK, NoThread, Asking
<1> QED
  BY <1>3, <1>4 DEF Init, KaeferInit, IInv, ThreadsOK, QueuesOK, ResultOK, KaeferOK

\* The queues and the result after a step, in terms of what they hold then.
LEMMA QueuesNext ==
  ASSUME \A i \in Threads : outcome'[i] # None =>
           /\ outcome'[i].by = i /\ Agrees(outcome'[i].value)
           /\ i = current' /\ pc' = "wait" /\ outcome'[i].value.status = "error" => Blamed'
  PROVE  QueuesOK'
BY DEF QueuesOK, Agrees, ProbeResultAccepts, StructuredReliable, Correlated

LEMMA ResultNext ==
  ASSUME result' # None =>
           /\ result'.by = result'.tent /\ Agrees(result'.value)
           /\ Batch[result'.tent] # "kaefer" /\ result'.value.status = "error" => Blamed'
  PROVE  ResultOK'
BY DEF ResultOK, Agrees, ProbeResultAccepts, StructuredReliable, Correlated

\* A step that supplies nothing: main waits for no other queue than before, or
\* for an empty one.
LEMMA QueuesKept ==
  ASSUME QueuesOK, \A i \in Threads : outcome'[i] \in {outcome[i], None},
         Blamed => Blamed',
         pc' = "wait" => \/ pc = "wait" /\ current' = current
                         \/ outcome'[current'] = None
  PROVE  QueuesOK'
<1> SUFFICES ASSUME NEW i \in Threads, outcome'[i] # None
             PROVE  /\ outcome'[i].by = i /\ Agrees(outcome'[i].value)
                    /\ (/\ i = current' /\ pc' = "wait"
                        /\ outcome'[i].value.status = "error") => Blamed'
  BY QueuesNext
<1>1. outcome'[i] = outcome[i]
  OBVIOUS
<1> QED
  BY <1>1 DEF QueuesOK

LEMMA ResultKept ==
  ASSUME ResultOK, result' = result, Blamed => Blamed'
  PROVE  ResultOK'
<1> SUFFICES ASSUME result' # None
             PROVE  /\ result'.by = result'.tent /\ Agrees(result'.value)
                    /\ (Batch[result'.tent] # "kaefer" /\ result'.value.status = "error") => Blamed'
  BY ResultNext
<1> QED
  BY DEF ResultOK

-----------------------------------------------------------------------------
(* A thread goes on *)

\* A thread moves, and perhaps supplies a value, which is an error only for a
\* reason; what may be blamed on the portal stays.
LEMMA ThreadMoves ==
  ASSUME IInv, UNCHANGED <<main, kaefer>>, token' = token,
         NEW i \in Threads, ~Fresh(i), pc # "wait" => i # current,
         NEW new \in ThreadType, ThreadOK(i, new), thread' = [thread EXCEPT ![i] = new],
         blame' \in [failed : BOOLEAN, slow : BOOLEAN, rotations : Nat],
         blame'.slow = blame.slow, blame'.rotations = blame.rotations,
         blame.failed => blame'.failed,
         i = current => CurrentOK(new, token, blame),
         \/ outcome' = outcome
         \/ \E value :
              /\ outcome' = [outcome EXCEPT ![i] = [by |-> i, value |-> value]]
              /\ Agrees(value) /\ (i = current /\ value.status = "error" => Blamed')
  PROVE  IInv'
<1> USE DEF IInv
<1>1. UNCHANGED <<current, pc, result>> /\ UNCHANGED <<slot, response, blocked, step, rows>>
  BY DEF main, kaefer
<1>2. Types'
  BY <1>1 DEF Types
<1>3. \A j \in Threads : thread'[j] = IF j = i THEN new ELSE thread[j]
  BY DEF Types
<1>4. \A j \in Threads : j # i => outcome'[j] = outcome[j]
  BY DEF Types
<1>5. Blamed => Blamed'
  BY DEF Blamed
<1>6. ThreadsOK'
  <2>1. \A j \in Threads : ThreadOK(j, thread'[j])
    BY <1>3 DEF ThreadsOK
  <2>2. \A j \in Threads : Fresh(j)' => thread'[j] = NoThread /\ outcome'[j] = None
    BY <1>1, <1>3, <1>4 DEF ThreadsOK, Fresh
  <2>3. pc' = "wait" => CurrentOK(thread'[current'], token', blame')
    <3> SUFFICES ASSUME pc = "wait" PROVE CurrentOK(thread'[current], token, blame')
      BY <1>1
    <3>1. current \in Threads
      BY DEF Types
    <3>2. CurrentOK(thread'[current], token, blame)
      BY <1>3, <3>1 DEF ThreadsOK
    <3> QED
      BY <3>2 DEF CurrentOK
  <2> QED
    BY <2>1, <2>2, <2>3 DEF ThreadsOK, ThreadOK, NoThread
<1>7. QueuesOK'
  <2> SUFFICES ASSUME NEW j \in Threads, outcome'[j] # None
               PROVE  /\ outcome'[j].by = j /\ Agrees(outcome'[j].value)
                      /\ (/\ j = current /\ pc = "wait"
                          /\ outcome'[j].value.status = "error") => Blamed'
    BY <1>1, QueuesNext
  <2>1. CASE outcome'[j] = outcome[j]
    BY <1>5, <2>1 DEF QueuesOK
  <2>2. CASE outcome'[j] # outcome[j]
    <3>1. j = i
      BY <1>4, <2>2
    <3>2. PICK value :
             /\ outcome' = [outcome EXCEPT ![i] = [by |-> i, value |-> value]]
             /\ Agrees(value) /\ (i = current /\ value.status = "error" => Blamed')
      BY <2>2
    <3>3. outcome'[i] = [by |-> i, value |-> value]
      BY <3>2 DEF Types
    <3> QED
      BY <3>1, <3>2, <3>3
  <2> QED
    BY <2>1, <2>2
<1>8. ResultOK'
  BY <1>1, <1>5, ResultKept
<1>9. KaeferOK'
  BY <1>1 DEF KaeferOK
<1> QED
  BY <1>2, <1>6, <1>7, <1>8, <1>9

\* A thread that does something was started, and of the current tent main waits
\* for it.
LEMMA Started ==
  ASSUME IInv, NEW i \in Threads, thread[i].at # "none", pc # "end"
  PROVE  ~Fresh(i) /\ (pc # "wait" => i # current) /\ thread[i] \in ThreadType
         /\ ThreadOK(i, thread[i]) /\ (i = current => CurrentOK(thread[i], token, blame))
<1>1. ~Fresh(i)
  BY DEF IInv, ThreadsOK, NoThread
<1>2. thread[i] \in ThreadType /\ ThreadOK(i, thread[i])
  BY DEF IInv, Types, ThreadsOK
<1>3. i = current => pc = "wait"
  <2>1. pc = "kaefer" => current \notin Threads
    BY DEF IInv, Types
  <2> QED
    BY <1>1, <2>1 DEF IInv, Types, Fresh
<1> QED
  BY <1>1, <1>2, <1>3 DEF IInv, ThreadsOK

LEMMA RaisesStep ==
  ASSUME IInv, UNCHANGED <<main, kaefer>>, token' = token, pc # "end",
         NEW i \in Threads, thread[i].at # "none", NEW value, Puts(i, value), Agrees(value),
         blame' \in [failed : BOOLEAN, slow : BOOLEAN, rotations : Nat],
         blame'.slow = blame.slow, blame'.rotations = blame.rotations,
         blame.failed => blame'.failed,
         i = current /\ value.status = "error" => Blamed'
  PROVE  IInv'
<1>1. /\ ~Fresh(i) /\ (pc # "wait" => i # current)
      /\ (i = current => CurrentOK(thread[i], token, blame))
  BY Started
<1>2. NoThread \in ThreadType /\ ThreadOK(i, NoThread)
  BY DEF NoThread, ThreadType, Payloads, ThreadOK, Asking
<1>3. CurrentOK(NoThread, token, blame)
  BY DEF NoThread, CurrentOK, Asking
<1>4. thread' = [thread EXCEPT ![i] = NoThread]
  BY DEF Puts
<1>5. \/ outcome' = outcome
      \/ outcome' = [outcome EXCEPT ![i] = [by |-> i, value |-> value]]
  BY DEF Puts, QueueOf
<1> HIDE DEF NoThread
<1> QED
  BY <1>1, <1>2, <1>3, <1>4, <1>5, ThreadMoves

LEMMA MovesStep ==
  ASSUME IInv, UNCHANGED <<main, kaefer, token, blame, outcome>>, pc # "end",
         NEW i \in Threads, thread[i].at # "none",
         NEW new \in ThreadType, ThreadOK(i, new), thread' = [thread EXCEPT ![i] = new],
         i = current => CurrentOK(new, token, blame)
  PROVE  IInv'
<1>1. ~Fresh(i) /\ (pc # "wait" => i # current)
  BY Started
<1>2. blame \in [failed : BOOLEAN, slow : BOOLEAN, rotations : Nat]
  BY DEF IInv, Types
<1>3. blame' = blame /\ token' = token /\ outcome' = outcome /\ UNCHANGED <<main, kaefer>>
  OBVIOUS
<1> QED
  BY <1>1, <1>2, <1>3, ThreadMoves

\* The portal fails a request: its error is blamed on it.
LEMMA FailsStep ==
  ASSUME IInv, UNCHANGED <<main, kaefer>>, pc # "end", NEW i \in Threads,
         RequestFails(i) \/ WidgetInvalid(i)
  PROVE  IInv'
<1>1. /\ thread[i].at # "none" /\ Puts(i, Error("probe_exception")) /\ token' = token
      /\ blame' = [blame EXCEPT !.failed = @ \/ i = current]
  BY DEF RequestFails, WidgetInvalid, Raises, Alive
<1>2. blame \in [failed : BOOLEAN, slow : BOOLEAN, rotations : Nat]
  BY DEF IInv, Types
<1>3. /\ blame' \in [failed : BOOLEAN, slow : BOOLEAN, rotations : Nat]
      /\ blame'.slow = blame.slow /\ blame'.rotations = blame.rotations
      /\ (blame.failed => blame'.failed) /\ (i = current => blame'.failed)
  BY <1>1, <1>2, Zenon
<1>4. i = current => Blamed'
  BY <1>3 DEF Blamed
<1> QED
  BY <1>1, <1>3, <1>4, ErrorAgrees, RaisesStep

\* What a request of the current thread that raises says of its portal.
LEMMA ErrorStep ==
  ASSUME IInv, UNCHANGED <<main, kaefer, token, blame>>, pc # "end", NEW i \in Threads,
         thread[i].at # "none", Raises(i), i = current => Blamed
  PROVE  IInv'
<1>1. blame \in [failed : BOOLEAN, slow : BOOLEAN, rotations : Nat]
  BY DEF IInv, Types
<1>2. token' = token /\ blame' = blame /\ UNCHANGED <<main, kaefer>>
  OBVIOUS
<1>3. Blamed <=> Blamed'
  BY <1>2 DEF Blamed
<1>4. Puts(i, Error("probe_exception"))
  BY DEF Raises
<1> QED
  BY <1>1, <1>2, <1>3, <1>4, ErrorAgrees, RaisesStep

LEMMA LateStep ==
  ASSUME IInv, UNCHANGED <<main, kaefer>>, pc # "end", NEW i \in Threads, AnswersLate(i)
  PROVE  IInv'
<1>1. thread[i].at # "none" /\ Asking(thread[i]) /\ Raises(i) /\ UNCHANGED <<token, blame>>
  BY DEF AnswersLate, Alive, Asking
<1>2. /\ thread[i] \in ThreadType /\ ThreadOK(i, thread[i])
      /\ (i = current => CurrentOK(thread[i], token, blame))
  BY <1>1, Started
<1>3. ASSUME i = current PROVE Blamed
  <2> SUFFICES ASSUME ~blame.slow PROVE FALSE
    BY DEF Blamed
  <2>1. /\ thread[i].age <= thread[i].began + Prompt
        /\ thread[i].began <= Latest(thread[i])
    BY <1>1, <1>2, <1>3 DEF CurrentOK
  <2>2. Latest(thread[i]) <= 3 * Prompt /\ Prompt \in Nat
    BY Budgets DEF Latest
  <2>3. thread[i].age \in Nat /\ thread[i].began \in Nat
    BY <1>2 DEF ThreadType
  <2>4. Latest(thread[i]) \in Nat
    BY <2>2 DEF Latest
  <2>5. \A age \in Nat, began \in Nat, latest \in Nat :
          age <= began + Prompt /\ began <= latest /\ latest <= 3 * Prompt
          => age <= FetchTime /\ age - began <= RequestTime
    BY Budgets
  <2>6. thread[i].age <= FetchTime /\ thread[i].age - thread[i].began <= RequestTime
    BY <2>1, <2>2, <2>3, <2>4, <2>5
  <2> QED
    BY <2>6 DEF AnswersLate, InTime
<1> QED
  BY <1>1, <1>3, ErrorStep

\* The next request of the current thread, unless the portal was slow, begins
\* while there is time for it.
LEMMA RequestsStep ==
  ASSUME IInv, UNCHANGED <<main, kaefer, token, blame>>, pc # "end", NEW i \in Threads,
         thread[i].at \in {"landing", "api"}, NEW next \in ThreadType, Requests(i, next),
         next.at \in {"landing", "api"}, next.age = thread[i].age,
         i = current => /\ next.attempt = 1 => blame.rotations >= 1
                        /\ next.at = "api" => next.token = token
                        /\ 3 * Prompt >= Latest(next) /\ Latest(next) >= Latest(thread[i]) + Prompt
  PROVE  IInv'
<1> DEFINE new == [next EXCEPT !.began = thread[i].age]
<1>1. /\ thread[i] \in ThreadType /\ ThreadOK(i, thread[i])
      /\ (i = current => CurrentOK(thread[i], token, blame))
  BY Started
<1>2. Asking(thread[i]) /\ Batch[i] = "reservierungsmanager"
  BY <1>1 DEF Asking, ThreadOK
<1>3. thread[i].age \in Nat /\ thread[i].began \in Nat
  BY <1>1 DEF ThreadType
<1>4. /\ new \in ThreadType /\ new.at = next.at /\ new.attempt = next.attempt
      /\ new.age = thread[i].age /\ new.began = thread[i].age /\ new.token = next.token
  BY <1>3 DEF ThreadType
<1>5. Latest(new) = Latest(next)
  BY <1>4 DEF Latest
<1>6. ~blame.slow /\ i = current => thread[i].age <= Latest(next) /\ Latest(next) <= 3 * Prompt
  <2> SUFFICES ASSUME ~blame.slow, i = current
               PROVE  thread[i].age <= Latest(next) /\ Latest(next) <= 3 * Prompt
    OBVIOUS
  <2>1. /\ thread[i].age <= thread[i].began + Prompt
        /\ thread[i].began <= Latest(thread[i])
    BY <1>1, <1>2 DEF CurrentOK
  <2>2. Prompt \in Nat
    BY Budgets
  <2>3. Latest(thread[i]) \in Nat /\ Latest(next) \in Nat
    BY <2>2 DEF Latest
  <2> QED
    BY <1>3, <2>1, <2>2, <2>3
<1>7. CASE thread[i].age < FetchTime
  <2>1. thread' = [thread EXCEPT ![i] = new] /\ outcome' = outcome
    BY <1>7 DEF Requests
  <2>2. ThreadOK(i, new)
    <3>1. thread[i].age < Wall[Batch[i]]
      BY <1>2, <1>3, <1>7, Budgets
    <3> QED
      BY <1>2, <1>3, <1>4, <3>1 DEF ThreadOK
  <2>3. i = current => CurrentOK(new, token, blame)
    <3> SUFFICES ASSUME i = current PROVE CurrentOK(new, token, blame)
      OBVIOUS
    <3>1. ~blame.slow => new.age <= new.began + Prompt /\ new.began <= Latest(new)
      BY <1>3, <1>4, <1>5, <1>6, Budgets
    <3> HIDE DEF new
    <3> QED
      BY <1>4, <3>1 DEF CurrentOK
  <2> HIDE DEF new
  <2> QED
    BY <1>4, <2>1, <2>2, <2>3, MovesStep
<1>8. CASE ~(thread[i].age < FetchTime)
  <2>1. Raises(i)
    BY <1>8 DEF Requests
  <2>2. i = current => Blamed
    <3> SUFFICES ASSUME i = current, ~blame.slow PROVE FALSE
      BY DEF Blamed
    <3>1. thread[i].age <= 3 * Prompt
      <4>1. Latest(next) \in Nat
        BY Budgets DEF Latest
      <4> QED
        BY <1>3, <1>6, <4>1, Budgets
    <3> QED
      BY <1>3, <1>8, <3>1, Budgets
  <2> QED
    BY <2>1, <2>2, ErrorStep
<1> QED
  BY <1>7, <1>8

LEMMA LandingStep ==
  ASSUME IInv, UNCHANGED <<main, kaefer>>, pc # "end", NEW i \in Threads, LandingAnswers(i)
  PROVE  IInv'
<1> DEFINE next == [thread[i] EXCEPT !.at = "api", !.token = token]
<1>1. /\ thread[i].at = "landing" /\ Requests(i, next)
      /\ token' = token /\ blame' = blame
  BY DEF LandingAnswers
<1>2. /\ thread[i] \in ThreadType
      /\ (i = current => CurrentOK(thread[i], token, blame)) /\ token \in Nat
  BY <1>1, Started DEF IInv, Types
<1>3. /\ next \in ThreadType /\ next.at = "api" /\ next.attempt = thread[i].attempt
      /\ next.age = thread[i].age /\ next.token = token
  BY <1>2 DEF ThreadType
<1>4. next.attempt = 1 /\ i = current => blame.rotations >= 1
  BY <1>2, <1>3 DEF CurrentOK
<1>5. 3 * Prompt >= Latest(next) /\ Latest(next) >= Latest(thread[i]) + Prompt
  BY <1>1, <1>3, Budgets DEF Latest
<1> HIDE DEF next
<1> QED
  BY <1>1, <1>3, <1>4, <1>5, RequestsStep

LEMMA UnauthorizedStep ==
  ASSUME IInv, UNCHANGED <<main, kaefer>>, pc # "end", NEW i \in Threads, Unauthorized(i)
  PROVE  IInv'
<1> DEFINE next == [thread[i] EXCEPT !.at = "landing", !.attempt = 1]
<1>1. /\ thread[i].at = "api" /\ thread[i].token # token
      /\ token' = token /\ blame' = blame
  BY DEF Unauthorized
<1>2. /\ thread[i] \in ThreadType
      /\ (i = current => CurrentOK(thread[i], token, blame))
  BY <1>1, Started
<1>3. i = current => blame.rotations > thread[i].attempt
  BY <1>1, <1>2 DEF CurrentOK
<1>4. thread[i].attempt \in {0, 1} /\ blame.rotations \in Nat
  BY <1>2 DEF ThreadType, IInv, Types
<1>5. CASE thread[i].attempt = 0
  <2>1. Requests(i, next)
    BY <1>5 DEF Unauthorized, MayRefresh
  <2>2. /\ next \in ThreadType /\ next.at = "landing" /\ next.attempt = 1
        /\ next.age = thread[i].age
    BY <1>2 DEF ThreadType
  <2>3. i = current => blame.rotations >= 1
    BY <1>3, <1>4, <1>5
  <2>4. 3 * Prompt >= Latest(next) /\ Latest(next) >= Latest(thread[i]) + Prompt
    BY <1>1, <1>5, <2>2, Budgets DEF Latest
  <2> HIDE DEF next
  <2> QED
    BY <1>1, <2>1, <2>2, <2>3, <2>4, RequestsStep
<1>6. CASE thread[i].attempt = 1
  <2>1. Raises(i)
    BY <1>6 DEF Unauthorized, MayRefresh
  <2>2. i = current => Blamed
    BY <1>3, <1>4, <1>6 DEF Blamed
  <2> QED
    BY <1>1, <2>1, <2>2, ErrorStep
<1> QED
  BY <1>4, <1>5, <1>6

LEMMA AnswersStep ==
  ASSUME IInv, UNCHANGED <<main, kaefer>>, pc # "end", NEW i \in Threads, Answers(i)
  PROVE  IInv'
<1>1. thread[i].at \in {"api", "form"} /\ UNCHANGED <<token, blame, outcome>>
  BY DEF Answers
<1>2. /\ thread[i] \in ThreadType /\ ThreadOK(i, thread[i])
      /\ (i = current => CurrentOK(thread[i], token, blame))
  BY <1>1, Started
<1>3. PICK payload \in Payloads :
        /\ thread' = [thread EXCEPT ![i] = [thread[i] EXCEPT !.at = "parse", !.payload = payload]]
        /\ payload \in IF Batch[i] = "floesserstadl"
                         THEN FormAnswers ELSE [widget : Widgets, tickets : TicketAnswers]
  <2>1. CASE thread[i].at = "api"
    <3>1. PICK widget \in Widgets, tickets \in TicketAnswers :
            thread' = [thread EXCEPT ![i].at = "parse",
                         ![i].payload = [widget |-> widget, tickets |-> tickets]]
      BY <2>1 DEF Answers
    <3> DEFINE payload == [widget |-> widget, tickets |-> tickets]
    <3>2. payload \in Payloads /\ payload \in [widget : Widgets, tickets : TicketAnswers]
      BY DEF Payloads
    <3>3. Batch[i] = "reservierungsmanager"
      BY <1>2, <2>1 DEF ThreadOK
    <3>4. thread' = [thread EXCEPT ![i] = [thread[i] EXCEPT !.at = "parse", !.payload = payload]]
      BY <3>1 DEF IInv, Types
    <3> QED
      BY <3>2, <3>3, <3>4
  <2>2. CASE thread[i].at = "form"
    <3>1. PICK fields \in FormAnswers :
            thread' = [thread EXCEPT ![i].at = "parse", ![i].payload = fields]
      BY <2>2 DEF Answers
    <3>2. fields \in Payloads /\ Batch[i] = "floesserstadl"
      BY <1>2, <2>2 DEF Payloads, ThreadOK
    <3>3. thread' = [thread EXCEPT ![i] = [thread[i] EXCEPT !.at = "parse", !.payload = fields]]
      BY <3>1 DEF IInv, Types
    <3> QED
      BY <3>2, <3>3
  <2> QED
    BY <1>1, <2>1, <2>2
<1> DEFINE new == [thread[i] EXCEPT !.at = "parse", !.payload = payload]
<1>4. /\ new \in ThreadType /\ new.at = "parse" /\ new.payload = payload
      /\ new.attempt = thread[i].attempt
  BY <1>2 DEF ThreadType
<1>5. ThreadOK(i, new)
  BY <1>3, <1>4 DEF ThreadOK, Asking
<1>6. i = current => CurrentOK(new, token, blame)
  BY <1>2, <1>4 DEF CurrentOK, Asking
<1>7. thread' = [thread EXCEPT ![i] = new] /\ thread[i].at # "none"
  BY <1>1, <1>3
<1> HIDE DEF new
<1> QED
  BY <1>1, <1>4, <1>5, <1>6, <1>7, MovesStep

\* What a parser gives is accepted and true of the answer.
LEMMA ParsedSound ==
  ASSUME NEW i \in Threads, ThreadOK(i, thread[i]), thread[i].at = "parse"
  PROVE  LET answer == thread[i].payload
         IN  IF Batch[i] = "floesserstadl"
               THEN Sound(Parsed(i),
                      {f.kind : f \in {g \in answer : Target \in Listed(g)}},
                      {f \in answer : Target \in Listed(f)})
               ELSE Sound(Parsed(i), TicketShifts(Ours(answer.widget, answer.tickets)),
                      {t \in Ours(answer.widget, answer.tickets) : DaysOf(t) # {}})
<1>1. CASE Batch[i] = "floesserstadl"
  <2>1. thread[i].payload \in FormAnswers
    BY <1>1 DEF ThreadOK
  <2>2. /\ IsFiniteSet(thread[i].payload)
        /\ \A f \in thread[i].payload : IsFiniteSet(f.options)
    BY <2>1, AnswerAssumption
  <2> QED
    BY <1>1, <2>2, FormFieldsSound DEF Parsed
<1>2. CASE Batch[i] # "floesserstadl"
  <2>1. thread[i].payload.tickets \in TicketAnswers
    BY <1>2 DEF ThreadOK
  <2>2. /\ IsFiniteSet(thread[i].payload.tickets)
        /\ \A t \in thread[i].payload.tickets : IsFiniteSet(t.days)
        /\ \A shifts \in SUBSET Fits : shifts # None
    BY <2>1, AnswerAssumption
  <2> QED
    BY <1>2, <2>2, EventDaysSound DEF Parsed
<1> QED
  BY <1>1, <1>2

LEMMA ParsesStep ==
  ASSUME IInv, UNCHANGED <<main, kaefer>>, pc # "end", NEW i \in Threads, Parses(i)
  PROVE  IInv'
<1>1. /\ thread[i].at = "parse" /\ Puts(i, Parsed(i)) /\ token' = token /\ blame' = blame
  BY DEF Parses
<1>2. ThreadOK(i, thread[i])
  BY DEF IInv, ThreadsOK
<1>3. Agrees(Parsed(i)) /\ Parsed(i).status # "error"
  BY <1>1, <1>2, ParsedSound DEF Sound
<1>4. blame \in [failed : BOOLEAN, slow : BOOLEAN, rotations : Nat]
  BY DEF IInv, Types
<1> QED
  BY <1>1, <1>3, <1>4, RaisesStep

LEMMA RotatesStep ==
  ASSUME IInv, UNCHANGED <<main, kaefer>>, Rotates
  PROVE  IInv'
<1>1. UNCHANGED <<current, pc, result>> /\ UNCHANGED <<slot, response, blocked, step, rows>>
  BY DEF main, kaefer
<1>2. /\ token' = token + 1 /\ blame' = [blame EXCEPT !.rotations = @ + 1]
      /\ thread' = thread /\ outcome' = outcome /\ pc = "wait"
  BY DEF Rotates
<1>3. blame \in [failed : BOOLEAN, slow : BOOLEAN, rotations : Nat] /\ token \in Nat
  BY DEF IInv, Types
<1>4. /\ blame' \in [failed : BOOLEAN, slow : BOOLEAN, rotations : Nat]
      /\ blame'.failed = blame.failed /\ blame'.slow = blame.slow
      /\ blame'.rotations = blame.rotations + 1
  BY <1>2, <1>3
<1>5. Types'
  BY <1>1, <1>2, <1>3, <1>4 DEF IInv, Types
<1>6. Blamed => Blamed'
  BY <1>3, <1>4 DEF Blamed
<1>7. thread[current] \in ThreadType /\ CurrentOK(thread[current], token, blame)
  BY <1>2 DEF IInv, Types, ThreadsOK
<1>8. CurrentOK(thread[current], token', blame')
  <2>1. thread[current].attempt \in {0, 1} /\ blame.rotations \in Nat
    BY <1>3, <1>7 DEF ThreadType
  <2>2. thread[current].attempt = 1 => blame.rotations >= 1
    BY <1>7 DEF CurrentOK
  <2>3. blame'.rotations >= 1 /\ blame'.rotations > thread[current].attempt
    BY <1>4, <2>1, <2>2
  <2> QED
    BY <1>4, <1>7, <2>3 DEF CurrentOK
<1>9. ThreadsOK'
  BY <1>1, <1>2, <1>8 DEF IInv, ThreadsOK, ThreadOK, NoThread, Fresh, Asking
<1>10. QueuesOK'
  BY <1>1, <1>2, <1>6, QueuesKept DEF IInv
<1>11. ResultOK' /\ KaeferOK'
  BY <1>1, <1>6, ResultKept DEF IInv, KaeferOK
<1> QED
  BY <1>5, <1>9, <1>10, <1>11 DEF IInv

-----------------------------------------------------------------------------
(* main and the browser go on *)

LEMMA TickStep == ASSUME IInv, Tick PROVE IInv'
<1>1. UNCHANGED <<current, pc, result>> /\ UNCHANGED <<slot, response, blocked, step, rows>>
  BY DEF Tick, main, kaefer
<1>2. /\ outcome' = outcome /\ token' = token
      /\ thread' = [i \in Threads |-> IF Ages(i) THEN [thread[i] EXCEPT !.age = @ + 1]
                                                 ELSE thread[i]]
  BY DEF Tick
<1>3. blame \in [failed : BOOLEAN, slow : BOOLEAN, rotations : Nat]
      /\ thread \in [Threads -> ThreadType]
  BY DEF IInv, Types
<1>4. /\ blame' \in [failed : BOOLEAN, slow : BOOLEAN, rotations : Nat]
      /\ blame'.failed = blame.failed /\ (blame.slow => blame'.slow)
      /\ blame'.rotations = blame.rotations
      /\ (pc = "wait" /\ thread[current].age - thread[current].began >= Prompt => blame'.slow)
  <2> DEFINE late == pc = "wait" /\ thread[current].age - thread[current].began >= Prompt
  <2>1. blame' = [blame EXCEPT !.slow = @ \/ late]
    BY DEF Tick
  <2> HIDE DEF late
  <2>2. /\ blame' \in [failed : BOOLEAN, slow : BOOLEAN, rotations : Nat]
        /\ blame'.failed = blame.failed /\ (blame.slow => blame'.slow)
        /\ blame'.rotations = blame.rotations /\ (late => blame'.slow)
    BY <1>3, <2>1, Zenon
  <2> QED
    BY <2>2 DEF late
<1>5. \A i \in Threads :
        /\ thread'[i] \in ThreadType /\ thread'[i].at = thread[i].at
        /\ thread'[i].attempt = thread[i].attempt /\ thread'[i].began = thread[i].began
        /\ thread'[i].token = thread[i].token /\ thread'[i].payload = thread[i].payload
        /\ thread'[i].age \in {thread[i].age, thread[i].age + 1}
        /\ (~Asking(thread[i]) => thread'[i] = thread[i])
  BY <1>2, <1>3 DEF ThreadType, Ages, Alive, Asking
<1>6. Types'
  BY <1>1, <1>2, <1>4, <1>5 DEF IInv, Types
<1>7. Blamed => Blamed'
  BY <1>4 DEF Blamed
<1>8. \A i \in Threads : ThreadOK(i, thread'[i])
  <2> SUFFICES ASSUME NEW i \in Threads PROVE ThreadOK(i, thread'[i])
    OBVIOUS
  <2>1. ThreadOK(i, thread[i])
    BY DEF IInv, ThreadsOK
  <2>2. CASE Asking(thread[i])
    <3>1. thread[i].age \in Nat /\ thread[i].began \in Nat /\ thread'[i].age >= thread[i].age
      BY <1>3, <1>5 DEF ThreadType
    <3>2. thread[i].began <= thread'[i].age
      BY <1>5, <2>1, <2>2, <3>1 DEF ThreadOK, ThreadType
    <3> QED
      BY <1>5, <2>1, <2>2, <3>2 DEF ThreadOK, Asking
  <2>3. CASE ~Asking(thread[i])
    BY <1>5, <2>1, <2>3
  <2> QED
    BY <2>2, <2>3
<1>9. \A i \in Threads : Fresh(i) => thread'[i] = NoThread
  BY <1>5 DEF IInv, ThreadsOK, NoThread, Asking
<1>10. ASSUME pc = "wait" PROVE CurrentOK(thread'[current], token, blame')
  <2>1. current \in Threads /\ CurrentOK(thread[current], token, blame)
    BY <1>10 DEF IInv, Types, ThreadsOK
  <2>2. CASE ~Asking(thread[current])
    BY <1>4, <1>5, <2>1, <2>2 DEF CurrentOK
  <2>3. CASE Asking(thread[current])
    <3>1. Latest(thread'[current]) = Latest(thread[current])
      BY <1>5, <2>1 DEF Latest
    <3>2. ~blame'.slow => thread'[current].age <= thread'[current].began + Prompt
      <4>1. ~blame'.slow => ~(thread[current].age - thread[current].began >= Prompt)
        BY <1>4, <1>10
      <4>2. /\ thread[current].age \in Nat /\ thread[current].began \in Nat
            /\ thread[current].began = thread'[current].began /\ Prompt \in Nat
            /\ thread'[current].age \in {thread[current].age, thread[current].age + 1}
        BY <1>3, <1>5, <2>1, Budgets DEF ThreadType
      <4> QED
        BY <4>1, <4>2
    <3>3. ~blame'.slow => thread'[current].began <= Latest(thread'[current])
      BY <1>4, <1>5, <2>1, <2>3, <3>1 DEF CurrentOK
    <3> QED
      BY <1>4, <1>5, <2>1, <3>2, <3>3 DEF CurrentOK
  <2> QED
    BY <2>2, <2>3
<1>11. ThreadsOK'
  BY <1>1, <1>2, <1>8, <1>9, <1>10 DEF IInv, ThreadsOK, ThreadOK, NoThread, Fresh, Asking
<1>12. QueuesOK'
  BY <1>1, <1>2, <1>7, QueuesKept DEF IInv
<1>13. ResultOK' /\ KaeferOK'
  BY <1>1, <1>7, ResultKept DEF IInv, KaeferOK
<1> QED
  BY <1>6, <1>11, <1>12, <1>13 DEF IInv

LEMMA StartThreadStep == ASSUME IInv, StartThread PROVE IInv'
<1>1. /\ pc = "start" /\ current \in Threads /\ pc' = "wait" /\ result' = None
      /\ blame' = Blameless /\ current' = current /\ outcome' = outcome /\ token' = token
      /\ thread' = [thread EXCEPT ![current].at =
                       IF Batch[current] = "floesserstadl" THEN "form" ELSE "landing"]
      /\ UNCHANGED <<slot, response, blocked, step, rows>>
  BY DEF StartThread, kaefer
<1>2. thread[current] = NoThread /\ outcome[current] = None
  BY <1>1 DEF IInv, ThreadsOK, Fresh
<1> DEFINE new == [NoThread EXCEPT !.at = IF Batch[current] = "floesserstadl" THEN "form"
                                                                         ELSE "landing"]
<1>3. thread' = [thread EXCEPT ![current] = new]
  BY <1>1, <1>2 DEF IInv, Types
<1>4. /\ new \in ThreadType /\ new.attempt = 0 /\ new.age = 0 /\ new.began = 0
      /\ new.at = IF Batch[current] = "floesserstadl" THEN "form" ELSE "landing"
  BY DEF NoThread, ThreadType, Payloads
<1>5. ThreadOK(current, new)
  <2>1. Batch[current] \in {"reservierungsmanager", "floesserstadl"}
    BY <1>1, ModeOf
  <2>2. 0 < Wall[Batch[current]]
    BY <2>1, Budgets
  <2> HIDE DEF new
  <2> QED
    BY <1>4, <2>1, <2>2 DEF ThreadOK, Asking
<1>6. CurrentOK(new, token, Blameless)
  <2>1. Latest(new) = 0
    BY <1>4 DEF Latest
  <2> HIDE DEF new
  <2> QED
    BY <1>4, <2>1, Budgets DEF CurrentOK
<1> HIDE DEF new
<1>7. Types'
  BY <1>1, <1>3, <1>4 DEF IInv, Types, Blameless
<1>8. \A i \in Threads : thread'[i] = IF i = current THEN new ELSE thread[i]
  BY <1>3 DEF IInv, Types
<1>9. ThreadsOK'
  <2>1. \A i \in Threads : ThreadOK(i, thread'[i])
    BY <1>5, <1>8 DEF IInv, ThreadsOK
  <2>2. \A i \in Threads : Fresh(i)' => thread'[i] = NoThread /\ outcome'[i] = None
    <3> SUFFICES ASSUME NEW i \in Threads, Fresh(i)'
                 PROVE  thread'[i] = NoThread /\ outcome'[i] = None
      OBVIOUS
    <3>1. i > current /\ i \in Int /\ current \in Int
      BY <1>1 DEF Fresh, Threads
    <3>2. Fresh(i) /\ i # current
      BY <3>1 DEF Fresh
    <3> QED
      BY <1>1, <1>8, <3>2 DEF IInv, ThreadsOK
  <2>3. CurrentOK(thread'[current'], token', blame')
    BY <1>1, <1>6, <1>8
  <2> QED
    BY <2>1, <2>2, <2>3 DEF ThreadsOK, ThreadOK, NoThread
<1>10. QueuesOK'
  <2> SUFFICES ASSUME NEW i \in Threads, outcome'[i] # None
               PROVE  outcome'[i].by = i /\ Agrees(outcome'[i].value) /\ i # current'
    BY QueuesNext
  <2> QED
    BY <1>1, <1>2 DEF IInv, QueuesOK
<1>11. ResultOK' /\ KaeferOK'
  BY <1>1 DEF IInv, ResultOK, KaeferOK
<1> QED
  BY <1>7, <1>9, <1>10, <1>11 DEF IInv

\* main hands on what it observed of the current tent.
LEMMA RecordsStep ==
  ASSUME IInv, pc # "end", NEW value, Records(current, value), Agrees(value),
         Batch[current] # "kaefer" /\ value.status = "error" => Blamed,
         thread' = thread, token' = token, blame' = blame,
         outcome' = [i \in Threads |-> outcome'[i]],
         \A i \in Threads : outcome'[i] \in {outcome[i], None},
         KaeferOK'
  PROVE  IInv'
<1>1. /\ result' = [tent |-> current, by |-> current, value |-> value]
      /\ \/ current = Len(Batch) /\ pc' = "end" /\ current' = current
         \/ current # Len(Batch) /\ pc' = "start" /\ current' = current + 1
  BY DEF Records
<1>2. current \in 1 .. Len(Batch) /\ Len(Batch) \in Nat
  BY ProbeAssumption DEF IInv, Types
<1>3. current' \in 1 .. Len(Batch) /\ pc' \in {"start", "end"}
  BY <1>1, <1>2
<1>4. Types'
  BY <1>3 DEF IInv, Types
<1>5. \A i \in Threads : Fresh(i)' => Fresh(i)
  BY <1>1, <1>2 DEF Fresh, Threads
<1>6. ThreadsOK'
  BY <1>3, <1>5 DEF IInv, ThreadsOK, ThreadOK, NoThread, Asking
<1>7. QueuesOK'
  <2>1. Blamed => Blamed'
    BY DEF Blamed
  <2> QED
    BY <1>3, <2>1, QueuesKept DEF IInv
<1>8. ResultOK'
  <2>1. Blamed <=> Blamed'
    BY DEF Blamed
  <2>2. result'.tent = current /\ result'.by = current /\ result'.value = value
    BY <1>1
  <2> QED
    BY <2>1, <2>2, ResultNext
<1> QED
  BY <1>4, <1>6, <1>7, <1>8 DEF IInv

LEMMA TakesStep == ASSUME IInv, Takes PROVE IInv'
<1>1. /\ pc = "wait" /\ outcome[current] # None /\ UNCHANGED <<thread, token, blame, kaefer>>
      /\ outcome' = [outcome EXCEPT ![current] = None]
      /\ Records(outcome[current].by, outcome[current].value)
  BY DEF Takes, QueueOf
<1>2. current \in Threads
  BY <1>1 DEF IInv, Types
<1>3. /\ outcome[current].by = current /\ Agrees(outcome[current].value)
      /\ (outcome[current].value.status = "error" => Blamed)
  BY <1>1, <1>2 DEF IInv, QueuesOK
<1>4. Records(current, outcome[current].value)
  BY <1>1, <1>3
<1>5. /\ outcome' = [i \in Threads |-> outcome'[i]]
      /\ \A i \in Threads : outcome'[i] \in {outcome[i], None}
  BY <1>1 DEF IInv, Types
<1>6. KaeferOK'
  BY <1>1 DEF IInv, KaeferOK, kaefer
<1>7. thread' = thread /\ token' = token /\ blame' = blame /\ pc # "end"
  BY <1>1
<1> QED
  BY <1>3, <1>4, <1>5, <1>6, <1>7, RecordsStep

\* main gives up only on a slow portal: the answers of a prompt one are all in
\* by then.
LEMMA GivesUpStep == ASSUME IInv, ~Parsing, GivesUp PROVE IInv'
<1>1. /\ pc = "wait" /\ thread[current].age = Wall[Batch[current]]
      /\ Records(current, Error("probe_exception")) /\ UNCHANGED <<threads, kaefer>>
  BY DEF GivesUp
<1>2. current \in Threads
  BY <1>1 DEF IInv, Types
<1>3. /\ thread[current] \in ThreadType /\ ThreadOK(current, thread[current])
      /\ CurrentOK(thread[current], token, blame)
  BY <1>1, <1>2 DEF IInv, Types, ThreadsOK
<1>4. Batch[current] \in {"reservierungsmanager", "floesserstadl"}
  BY <1>2, ModeOf
<1>5. Asking(thread[current])
  <2>1. thread[current].at # "parse"
    BY <1>2 DEF Parsing
  <2>2. thread[current].at # "none"
    <3>1. NoThread.age = 0
      BY DEF NoThread
    <3>2. Wall[Batch[current]] # 0
      BY <1>4, Budgets
    <3> QED
      BY <1>1, <1>3, <3>1, <3>2 DEF ThreadOK
  <2> QED
    BY <1>3, <2>1, <2>2 DEF ThreadType, Asking
<1>6. blame.slow
  <2> SUFFICES ASSUME ~blame.slow PROVE FALSE
    OBVIOUS
  <2>1. /\ thread[current].age <= thread[current].began + Prompt
        /\ thread[current].began <= Latest(thread[current])
    BY <1>3, <1>5 DEF CurrentOK
  <2>2. thread[current].age \in Nat /\ thread[current].began \in Nat
    BY <1>3 DEF ThreadType
  <2>3. CASE Batch[current] = "reservierungsmanager"
    <3>1. Latest(thread[current]) <= 3 * Prompt /\ Latest(thread[current]) \in Nat
      BY Budgets DEF Latest
    <3>2. thread[current].age = Wall["reservierungsmanager"]
      BY <1>1, <2>3
    <3> QED
      BY <2>1, <2>2, <3>1, <3>2, Budgets
  <2>4. CASE Batch[current] = "floesserstadl"
    <3>1. thread[current].at = "form"
      BY <1>3, <1>5, <2>4 DEF ThreadOK, Asking
    <3>2. Latest(thread[current]) = 0
      BY <3>1 DEF Latest
    <3>3. thread[current].age = Wall["floesserstadl"]
      BY <1>1, <2>4
    <3> QED
      BY <2>1, <2>2, <3>2, <3>3, Budgets
  <2> QED
    BY <1>4, <2>3, <2>4
<1>7. Blamed /\ Agrees(Error("probe_exception"))
  BY <1>6, ErrorAgrees DEF Blamed
<1>8. /\ thread' = thread /\ token' = token /\ blame' = blame /\ outcome' = outcome /\ pc # "end"
      /\ outcome = [i \in Threads |-> outcome[i]]
  BY <1>1 DEF threads, IInv, Types
<1>9. KaeferOK'
  BY <1>1 DEF IInv, KaeferOK, kaefer
<1> QED
  BY <1>1, <1>7, <1>8, <1>9, RecordsStep

\* What kaefer.fetch gives is accepted and true of the rows.
LEMMA RowsSound ==
  ASSUME rows \in SlotAnswers
  PROVE  LET target == {r \in rows : r.date = Target}
             free == {r \in target : r.inside + r.outside > 0}
         IN  Sound(ParseSlots(rows), {r.time : r \in free}, free \cup {r \in target : r.day > 0})
<1>1. IsFiniteSet(rows) /\ \A r \in rows : {r.inside, r.outside, r.day} \subseteq Nat
  BY AnswerAssumption
<1> QED
  BY <1>1, SlotsSound

LEMMA EndKaeferStep == ASSUME IInv, EndKaefer PROVE IInv'
<1> DEFINE value == IF step = "parse" THEN ParseSlots(rows) ELSE Error("probe_exception")
<1>1. /\ pc = "kaefer" /\ Records(current, value) /\ UNCHANGED threads /\ step' = "idle"
  BY DEF EndKaefer, ContextCloses
<1>2. Batch[current] = "kaefer"
  BY <1>1 DEF IInv, Types, Threads
<1>3. Agrees(value)
  <2>1. CASE step = "parse"
    BY <2>1, RowsSound DEF IInv, KaeferOK, Sound
  <2>2. CASE step # "parse"
    BY <2>2, ErrorAgrees
  <2> QED
    BY <2>1, <2>2
<1>4. /\ thread' = thread /\ token' = token /\ blame' = blame /\ outcome' = outcome /\ pc # "end"
      /\ outcome = [i \in Threads |-> outcome[i]]
  BY <1>1 DEF threads, IInv, Types
<1>5. KaeferOK'
  BY <1>1 DEF KaeferOK
<1> HIDE DEF value
<1> QED
  BY <1>1, <1>2, <1>3, <1>4, <1>5, RecordsStep

LEMMA StartKaeferStep == ASSUME IInv, StartKaefer PROVE IInv'
<1>1. pc = "start" /\ current \notin Threads /\ UNCHANGED threads
  BY DEF StartKaefer
<1>2. /\ thread' = thread /\ token' = token /\ blame' = blame /\ outcome' = outcome
      /\ outcome = [i \in Threads |-> outcome[i]]
  BY <1>1 DEF threads, IInv, Types
<1>3. CASE Opens /\ pc' = "kaefer" /\ result' = None /\ UNCHANGED current
  <2>1. step' = "goto"
    BY <1>3 DEF Opens
  <2>2. Types'
    BY <1>1, <1>2, <1>3 DEF IInv, Types
  <2>3. ThreadsOK'
    BY <1>2, <1>3 DEF IInv, ThreadsOK, ThreadOK, NoThread, Fresh, Asking
  <2>4. QueuesOK'
    <3>1. Blamed => Blamed'
      BY <1>2 DEF Blamed
    <3> QED
      BY <1>2, <1>3, <3>1, QueuesKept DEF IInv
  <2> QED
    BY <1>3, <2>1, <2>2, <2>3, <2>4 DEF IInv, ResultOK, KaeferOK
<1>4. CASE Records(current, Error("browser_unavailable")) /\ UNCHANGED kaefer
  <2>1. Batch[current] = "kaefer"
    BY <1>1 DEF IInv, Types, Threads
  <2>2. KaeferOK'
    BY <1>4 DEF IInv, KaeferOK, kaefer
  <2>3. Agrees(Error("browser_unavailable"))
    BY ErrorAgrees
  <2>4. pc # "end"
    BY <1>1
  <2> QED
    BY <1>2, <1>4, <2>1, <2>2, <2>3, <2>4, RecordsStep
<1> QED
  BY <1>3, <1>4 DEF StartKaefer

\* The page may go on while fetch waits; what is parsed was complete before.
LEMMA BrowserStep ==
  ASSUME IInv, PageStep \/ FetchStep, UNCHANGED <<main, threads>>
  PROVE  IInv'
<1>1. /\ UNCHANGED <<current, pc, result>> /\ UNCHANGED <<thread, outcome, token, blame>>
  BY DEF main, threads
<1>2. KaeferOK'
  <2>1. CASE PageStep
    BY <2>1 DEF PageStep, Waiting, KaeferOK
  <2>2. CASE BodyRead
    <3>1. /\ step' = "parse" => Trusted /\ rows' \in SlotAnswers
          /\ slot[response] = "finished" /\ slot' = slot /\ response' = response
          /\ blocked' = blocked
      BY <2>2 DEF BodyRead, pageUnchanged
    <3> QED
      BY <3>1 DEF KaeferOK, Trusted
  <2>3. CASE TimesOut \/ Navigated \/ ResponseSeen \/ RequestFinished
    BY <2>3 DEF TimesOut, Navigated, ResponseSeen, RequestFinished, KaeferOK
  <2> QED
    BY <2>1, <2>2, <2>3 DEF FetchStep
<1>3. Types' /\ ThreadsOK'
  BY <1>1 DEF IInv, Types, ThreadsOK, ThreadOK, NoThread, Fresh, Asking
<1>4. QueuesOK' /\ ResultOK'
  <2>1. Blamed => Blamed'
    BY <1>1 DEF Blamed
  <2> QED
    BY <1>1, <2>1, QueuesKept, ResultKept DEF IInv
<1> QED
  BY <1>2, <1>3, <1>4 DEF IInv

LEMMA INext == IInv /\ [Next]_vars => IInv'
<1> SUFFICES ASSUME IInv, [Next]_vars PROVE IInv'
  OBVIOUS
<1>1. CASE ThreadStep
  <2>1. UNCHANGED <<main, kaefer>> /\ pc # "end"
    BY <1>1 DEF ThreadStep
  <2>2. CASE Rotates
    BY <2>1, <2>2, RotatesStep
  <2>3. ASSUME NEW i \in Threads,
               \/ RequestFails(i) \/ AnswersLate(i) \/ WidgetInvalid(i)
               \/ LandingAnswers(i) \/ Unauthorized(i) \/ Answers(i)
        PROVE  IInv'
    BY <2>1, <2>3, FailsStep, LateStep, LandingStep, UnauthorizedStep, AnswersStep
  <2> QED
    BY <1>1, <2>2, <2>3 DEF ThreadStep
<1>2. CASE ParseStep
  BY <1>2, ParsesStep DEF ParseStep
<1>3. CASE ~Parsing /\ Tick
  BY <1>3, TickStep
<1>4. CASE ~Parsing /\ MainStep
  BY <1>4, StartThreadStep, TakesStep, GivesUpStep, StartKaeferStep, EndKaeferStep DEF MainStep
<1>5. CASE (PageStep \/ FetchStep) /\ UNCHANGED <<main, threads>>
  BY <1>5, BrowserStep
<1>6. CASE UNCHANGED vars
  <2>1. /\ UNCHANGED <<main, threads>> /\ UNCHANGED <<step, rows, slot, response, blocked>>
    BY <1>6 DEF vars, kaefer
  <2>2. /\ UNCHANGED <<current, pc, result>> /\ UNCHANGED <<thread, outcome, token, blame>>
    BY <2>1 DEF main, threads
  <2>3. Types' /\ ThreadsOK'
    BY <2>2 DEF IInv, Types, ThreadsOK, ThreadOK, NoThread, Fresh, Asking
  <2>4. QueuesOK' /\ ResultOK' /\ KaeferOK'
    <3>1. Blamed => Blamed'
      BY <2>2 DEF Blamed
    <3> QED
      BY <2>1, <2>2, <3>1, QueuesKept, ResultKept DEF IInv, KaeferOK
  <2> QED
    BY <2>3, <2>4 DEF IInv
<1> QED
  BY <1>1, <1>2, <1>3, <1>4, <1>5, <1>6 DEF Next

LEMMA AlwaysIInv == Spec => []IInv
BY IInit, INext, PTL DEF Spec

-----------------------------------------------------------------------------

\* What an abandoned thread still does is nothing to anybody.
THEOREM AbandonedAreInert == Spec => []AbandonedInert
<1>1. IInv => AbandonedInert
  BY DEF IInv, ResultOK, ThreadsOK, ThreadOK, AbandonedInert, Alive, Asking
<1> QED
  BY <1>1, AlwaysIInv, PTL

\* Every error of an HTTP tent is its portal's.
THEOREM ErrorsAreTheSites == Spec => []BlameTheSite
<1>1. IInv => BlameTheSite
  BY DEF IInv, ResultOK, BlameTheSite, Blamed
<1> QED
  BY <1>1, AlwaysIInv, PTL

\* The Kaefer answer is complete, and read of a page that tried no write.
THEOREM AlwaysSlotsReadOnly == Spec => []SlotsReadOnly
<1>1. IInv => SlotsReadOnly
  BY DEF IInv, KaeferOK, SlotsReadOnly
<1> QED
  BY <1>1, AlwaysIInv, PTL

\* Whatever the portals answer, both contracts accept what is made of it.
THEOREM ResultsAccepted == Spec => []AdaptersAgree
<1>1. IInv => AdaptersAgree
  BY DEF IInv, ResultOK, Agrees, AdaptersAgree
<1> QED
  BY <1>1, AlwaysIInv, PTL

\* No answer is read as an absence it does not prove, or for a shift it does
\* not offer.
THEOREM ReadingsAreTrue == Spec => []ReadingsTrue
<1>1. ASSUME IInv PROVE ReadingsTrue
  <2>1. \A i \in Threads : thread[i].at = "parse" =>
          LET answer == thread[i].payload
          IN  IF Batch[i] = "floesserstadl"
                THEN Truthful(Parsed(i),
                          {f.kind : f \in {g \in answer : Target \in Listed(g)}},
                          {f \in answer : Target \in Listed(f)})
                ELSE Truthful(Parsed(i), TicketShifts(Ours(answer.widget, answer.tickets)),
                          {t \in Ours(answer.widget, answer.tickets) : DaysOf(t) # {}})
    BY <1>1, ParsedSound DEF IInv, ThreadsOK, Sound
  <2>2. step = "parse" =>
          LET target == {r \in rows : r.date = Target}
              free == {r \in target : r.inside + r.outside > 0}
          IN  Truthful(ParseSlots(rows), {r.time : r \in free},
                       free \cup {r \in target : r.day > 0})
    BY <1>1, RowsSound DEF IInv, KaeferOK, Sound
  <2> QED
    BY <2>1, <2>2 DEF ReadingsTrue, TicketShifts, Ours, DaysOf
<1> QED
  BY <1>1, AlwaysIInv, PTL
====
