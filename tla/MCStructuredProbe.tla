---- MODULE MCStructuredProbe ----
(* One batch with a tent of each structured mode and small answers. *)
EXTENDS StructuredProbe

MCBatch == <<"reservierungsmanager", "floesserstadl", "kaefer">>
MCWall == [floesserstadl |-> 3, reservierungsmanager |-> 7]

UpTo(n, S) == {T \in SUBSET S : Cardinality(T) <= n}

MCFits == {<<"Mittag", 12>>, <<"Abend", 18>>}

MCWidgets == {[ids |-> {}, filter |-> FALSE], [ids |-> {1, 2}, filter |-> FALSE],
              [ids |-> {}, filter |-> TRUE]}

Noon == [id |-> 1, name |-> "included", readable |-> TRUE, category |-> "Mittag",
         days |-> {<<Target, 12>>}]

Tickets ==
  {Noon,
   [Noon EXCEPT !.days = {<<"other", 12>>}],
   [Noon EXCEPT !.days = {<<Target, 12>>, <<"other", 12>>}],
   [Noon EXCEPT !.days = {<<Target, 18>>}],
   [Noon EXCEPT !.days = {}],
   [Noon EXCEPT !.name = "neither"],
   [Noon EXCEPT !.name = "excluded"],
   [Noon EXCEPT !.readable = FALSE],
   [Noon EXCEPT !.category = None],
   [Noon EXCEPT !.id = None],
   [Noon EXCEPT !.id = 2, !.category = "Abend", !.days = {<<Target, 18>>}],
   [Noon EXCEPT !.id = 2, !.name = "excluded", !.days = {}],
   [Noon EXCEPT !.id = 3, !.readable = FALSE],
   [Noon EXCEPT !.id = 3, !.name = "neither", !.category = "Abend"]}

MCTicketAnswers == UpTo(2, Tickets)

NoTable == [row |-> 0, what |-> "no_table"]
Option(row, what) == [row |-> row, what |-> what]

Selects ==
  [kind : FormShifts, readable : {TRUE},
   options : {{NoTable}, {Option(1, Target)}, {NoTable, Option(1, Target)},
              {NoTable, Option(1, "other")}}] \cup
  {[kind |-> "Abend", readable |-> readable, options |-> {NoTable, Option(1, Target), second}] :
     readable \in BOOLEAN, second \in {Option(2, what) : what \in {Target, "other", "unreadable"}}}

Others ==
  [kind : {"other", "reservation"}, readable : {TRUE},
   options : {{NoTable}, {NoTable, Option(1, Target)}}]

Readable == {S \in UpTo(2, Selects) : FormReadable(S)}

MCFormAnswers == UpTo(2, Selects) \cup {S \cup {f} : S \in Readable, f \in Others}

Row(date, time, inside, day) ==
  [date |-> date, time |-> time, readable |-> TRUE, inside |-> inside, outside |-> 0,
   inside_sizes |-> TRUE, outside_sizes |-> FALSE, day |-> day]

Noons ==
  {Row(Target, "Mittag", inside, day) : inside \in 0 .. 1, day \in 0 .. 1} \cup
  {[Row(Target, "Mittag", 1, 1) EXCEPT !.inside_sizes = FALSE],
   [Row(Target, "Mittag", 1, 1) EXCEPT !.readable = FALSE],
   [Row(Target, "Mittag", 0, 1) EXCEPT !.outside = 1, !.outside_sizes = TRUE]}

Afternoons == {Row(Target, "Nachmittag", inside, day) : inside \in 0 .. 1, day \in 0 .. 1}

More == {Row(Target, "Abend", 1, 1), Row("other", "Mittag", 1, 1), Row(None, "Mittag", 0, 0),
         Row(Target, "Mittag", 1, 2)}

\* A row of the target per time, with or without one that is of another time,
\* day or form, or a second of the same time.
MCSlotAnswers ==
  {{}} \cup UpTo(1, More) \cup {{r, s} : r \in Noons, s \in Afternoons \cup More}
  \cup {{r, s, t} : r \in Noons, s \in Afternoons, t \in More}
====
