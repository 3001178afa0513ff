---- MODULE Feeds ----
(***************************************************************************)
(* What the structured adapters conclude from what a portal answered:      *)
(* reservierungsmanager.parse_event_days_payload, floesserstadl.parse_     *)
(* form_fields and kaefer.parse_slot_payload, with the contract of         *)
(* probe.ProbeResult and the one events._structured_reliable_error puts on *)
(* a successful result.                                                    *)
(*                                                                         *)
(* An answer is a set of parts, each with what the parser distinguishes of *)
(* it; a part of a wrong type or form is not "readable".  A part that may  *)
(* occur twice has a row number where nothing else tells the two apart.    *)
(***************************************************************************)
EXTENDS Naturals, FiniteSets

CONSTANTS
  Target,                \* the target date
  Fits,                  \* pairs <<category, time>> that _time_is_consistent accepts
  None,
  MaxShifts              \* labels of a day, 32 in the code

-----------------------------------------------------------------------------
(* Results *)

NoEvidence == [date_control_count |-> 0, plausible_date_option_count |-> 0,
               target_found |-> FALSE, target_enabled |-> FALSE,
               shift_control_count |-> 0, shift_control_found |-> FALSE,
               update_confirmed |-> FALSE, shift_count |-> 0,
               unavailable_confirmed |-> FALSE]

Unknown(error_class) ==
  [status |-> "unknown", shifts |-> None, health |-> "degraded", page_type |-> "booking",
   error_class |-> error_class, evidence |-> NoEvidence]

Reliable(status, shifts, evidence) ==
  [status |-> status, shifts |-> shifts, health |-> "healthy", page_type |-> "booking",
   error_class |-> None, evidence |-> evidence]

\* One date control, the shifts behind it read.
Available(shifts, dates) ==
  Reliable("available", shifts,
    [NoEvidence EXCEPT !.date_control_count = 1, !.plausible_date_option_count = dates,
                       !.target_found = TRUE, !.target_enabled = TRUE,
                       !.shift_control_count = 1, !.shift_control_found = TRUE,
                       !.update_confirmed = TRUE, !.shift_count = Cardinality(shifts)])

\* The feed lists no target; confirmed when it holds nothing of this tent at all.
Absent(dates, confirmed) ==
  Reliable("unavailable", {},
    [NoEvidence EXCEPT !.date_control_count = 1, !.plausible_date_option_count = dates,
                       !.unavailable_confirmed = confirmed])

\* Seeded fault: no capacity, but not confirmed.
NoCapacityUnconfirmed(dates) ==
  Reliable("unavailable", {},
    [NoEvidence EXCEPT !.date_control_count = 1, !.plausible_date_option_count = dates,
                       !.target_found = TRUE, !.target_enabled = TRUE,
                       !.shift_control_count = 1, !.shift_control_found = TRUE,
                       !.update_confirmed = TRUE])

\* It lists the target with no capacity left.
NoCapacity(dates) ==
  Reliable("unavailable", {},
    [NoEvidence EXCEPT !.date_control_count = 1, !.plausible_date_option_count = dates,
                       !.target_found = TRUE, !.target_enabled = TRUE,
                       !.shift_control_count = 1, !.shift_control_found = TRUE,
                       !.update_confirmed = TRUE, !.unavailable_confirmed = TRUE])

\* The target's shifts were read from its own answer.
Correlated(e) == /\ e.shift_control_count = 1 /\ e.shift_control_found
                 /\ e.update_confirmed

\* ProbeResult.__post_init__ does not raise.
ProbeResultAccepts(r) ==
  LET e == r.evidence
      booked == r.page_type = "booking" /\ e.date_control_count = 1
      dated == e.plausible_date_option_count > 0
      found == e.target_found /\ e.target_enabled
  IN  CASE r.status = "available" ->
             /\ r.shifts \notin {None, {}} /\ r.health = "healthy"
             /\ booked /\ dated /\ found /\ Correlated(e)
             /\ e.shift_count = Cardinality(r.shifts)
        [] r.status = "unavailable" ->
             /\ r.shifts = {} /\ r.health = "healthy" /\ booked
             /\ \/ ~e.target_found /\ (dated \/ e.unavailable_confirmed)
                \/ /\ dated /\ found /\ Correlated(e)
                   /\ e.shift_count = 0 /\ e.unavailable_confirmed
        [] r.status = "unknown" -> r.shifts = None /\ r.health = "degraded"
        [] OTHER -> r.shifts = None /\ r.health = "error"

\* _structured_reliable_error returns None: the result may change the baseline.
StructuredReliable(r) ==
  LET e == r.evidence
      empty == /\ r.status = "unavailable"
               /\ ~e.target_found /\ e.unavailable_confirmed
  IN  /\ r.health = "healthy" /\ r.page_type = "booking" /\ r.error_class = None
      /\ e.date_control_count = 1
      /\ e.plausible_date_option_count > 0 \/ empty
      /\ IF r.status = "available"
           THEN /\ r.shifts # {} /\ e.target_found /\ e.target_enabled
                /\ Correlated(e) /\ e.shift_count = Cardinality(r.shifts)
           ELSE /\ e.shift_count = 0
                /\ \/ ~e.target_found
                   \/ e.target_enabled /\ Correlated(e) /\ e.unavailable_confirmed

-----------------------------------------------------------------------------
(* Reservierungsmanager: tickets with the days and times they are offered.  *)
(* A ticket is [id, name, readable, category, days], days a set of pairs    *)
(* <<date, time>>; name tells which of the filters match it; cfg is         *)
(* [ids, filter]: the event ids of the widget and whether names are filtered*)
(* An answer without a list of tickets counts as one with an empty list.    *)

Asked(cfg, ticket) == cfg.ids = {} \/ ticket.id \in cfg.ids

\* Seeded fault: what the include filter does not match is not of this tent.
IrrelevantUnlessIncluded(cfg, ticket) ==
  ~Asked(cfg, ticket) \/ (cfg.filter /\ ticket.name \in {"excluded", "neither"})

\* Another event, or one that the filters tell apart as not of this tent.
Irrelevant(cfg, ticket) ==
  ~Asked(cfg, ticket) \/ (cfg.filter /\ ticket.name = "excluded")

\* What makes the parser distrust the whole answer.
Contradictory(cfg, tickets) ==
  \/ \E t \in tickets : t.id = None
  \/ \E t, u \in tickets : t # u /\ t.id = u.id
  \/ \E t \in tickets :
       /\ ~Irrelevant(cfg, t)
       /\ \/ cfg.filter /\ t.name # "included"
          \/ ~t.readable \/ t.category = None \/ t.days = {}
          \/ \E day \in t.days : <<t.category, day[2]>> \notin Fits

ParseEventDays(cfg, tickets) ==
  LET included == {t \in tickets : ~Irrelevant(cfg, t)}
      dates == {day[1] : day \in UNION {t.days : t \in included}}
      shifts == UNION {{<<t.category, day[2]>> : day \in {d \in t.days : d[1] = Target}} :
                         t \in included}
  IN  IF tickets = {} THEN Unknown("event_days_empty")
      ELSE IF Contradictory(cfg, tickets) THEN Unknown("event_days_schema_invalid")
      ELSE IF included = {} THEN Absent(0, TRUE)
      ELSE IF Cardinality(shifts) > MaxShifts THEN Unknown("event_days_schema_invalid")
      ELSE IF shifts = {} THEN Absent(Cardinality(dates), FALSE)
      ELSE Available(shifts, Cardinality(dates))

-----------------------------------------------------------------------------
(* Floesserstadl: a form with one select per shift.  A field is             *)
(* [kind, readable, options], kind the shift it is for, "reservation" when  *)
(* its title or description only resembles one, or "other"; options a set   *)
(* of [row, what], what a date, "no_table" or "unreadable".                 *)

FormShifts == {"Mittag", "Abend"}

Listed(field) == {o.what : o \in field.options} \ {"no_table", "unreadable"}

OptionsReadable(options) ==
  /\ \A o, p \in options : o # p => o.what # p.what
  /\ \E o \in options : o.what = "no_table"
  /\ \A o \in options : o.what # "unreadable"

\* A field that is none of the two known ones but may be a reservation.
ReservationLike(field) ==
  /\ field.kind \notin FormShifts
  /\ field.kind = "reservation" \/ Listed(field) # {}

\* Seeded fault: a field that merely resembles a reservation field is passed over.
FormReadableLenient(fields) ==
  LET selects == {f \in fields : f.kind \in FormShifts}
  IN  /\ \A shift \in FormShifts : \E f \in selects : f.kind = shift
      /\ \A f, g \in selects : f # g => f.kind # g.kind
      /\ \A f \in selects : f.readable /\ OptionsReadable(f.options)

FormReadable(fields) ==
  LET selects == {f \in fields : f.kind \in FormShifts}
  IN  /\ ~\E f \in fields : ReservationLike(f)
      /\ \A shift \in FormShifts : \E f \in selects : f.kind = shift
      /\ \A f, g \in selects : f # g => f.kind # g.kind
      /\ \A f \in selects : f.readable /\ OptionsReadable(f.options)

ParseFormFields(fields) ==
  LET selects == {f \in fields : f.kind \in FormShifts}
      dates == UNION {Listed(f) : f \in selects}
      shifts == {f.kind : f \in {g \in selects : Target \in Listed(g)}}
  IN  IF ~FormReadable(fields) THEN Unknown("reservation_form_schema_invalid")
      ELSE IF dates = {} THEN Unknown("reservation_form_no_dates")
      ELSE IF shifts = {} THEN Absent(Cardinality(dates), FALSE)
      ELSE Available(shifts, Cardinality(dates))

-----------------------------------------------------------------------------
(* Kaefer: rows of tables per date and time of day.  A row is               *)
(* [date, time, readable, inside, outside, inside_sizes, outside_sizes,     *)
(* day]: free tables inside and outside, whether their sizes are named, and *)
(* the free tables of the whole day.                                        *)

SlotTimes == {"Mittag", "Nachmittag"}

Offers(row) == row.inside > 0 \/ row.outside > 0

\* Seeded fault: the two rows need not agree with the count of the day.
SlotsReadableOneSided(rows) ==
  \A r \in rows : /\ r.readable
                  /\ r.inside > 0 => r.inside_sizes
                  /\ r.outside > 0 => r.outside_sizes

SlotsReadable(rows) ==
  /\ \A r \in rows : /\ r.readable
                     /\ r.inside > 0 => r.inside_sizes
                     /\ r.outside > 0 => r.outside_sizes
  /\ \A r, s \in rows : r.day = s.day
  /\ \A r \in rows : r.day = 0 <=> ~\E s \in rows : Offers(s)

ParseSlots(rows) ==
  LET dates == {r.date : r \in rows}
      target == {r \in rows : r.date = Target}
      times == {r.time : r \in target}
      shifts == {r.time : r \in {s \in target : Offers(s)}}
  IN  IF rows = {} \/ None \in dates THEN Unknown("slot_schema_invalid")
      ELSE IF times \subseteq SlotTimes /\ \A r, s \in target : r # s => r.time # s.time
        THEN IF times # SlotTimes THEN Unknown("target_slots_incomplete")
             ELSE IF ~SlotsReadable(target) THEN Unknown("slot_schema_invalid")
             ELSE IF shifts = {} THEN NoCapacity(Cardinality(dates))
             ELSE Available(shifts, Cardinality(dates))
        ELSE Unknown("slot_schema_invalid")
====
