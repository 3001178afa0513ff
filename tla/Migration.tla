---- MODULE Migration ----
(***************************************************************************)
(* One tent's date in a state file of schema 1, 2 or 3, what state._migrate*)
(* makes of it and what TentDateState's validator accepts.                 *)
(*                                                                         *)
(* Labels stand for their canonical keys, so shifts and shift_keys are     *)
(* sets of keys; evidence is the reliable status that the stored health    *)
(* and diagnostics prove, and dated tells whether a timestamp (and, for    *)
(* schema 3, the reliable diagnostics) belongs to the baseline.  Counters  *)
(* and the migration_* diagnostics are carried over and left out.          *)
(***************************************************************************)
EXTENDS Naturals

CONSTANT Keys            \* the canonical shift keys

Reliable2 == {"available", "unavailable"}
Baseline == {"unknown"} \cup Reliable2

\* Schema 1: errors overwrote the status, and nothing proved a success.
RawV1 == [version: {1}, status: Baseline \cup {"error"}, observed: Baseline \cup {"error"},
          shifts: SUBSET Keys, shift_keys: {{}}, evidence: {"none"}, dated: BOOLEAN,
          baseline_verified: {FALSE}, availability_evidence_lost: {FALSE}]

\* Schema 2: canonical keys were written by its reliable path only; a wrapped
\* schema-1 snapshot has shifts and no keys.
RawV2 == {d \in [version: {2}, status: Baseline, observed: Baseline \cup {"error"},
                 shifts: SUBSET Keys, shift_keys: SUBSET Keys,
                 evidence: {"none"} \cup Reliable2, dated: BOOLEAN,
                 baseline_verified: {FALSE}, availability_evidence_lost: {FALSE}] :
            d.shift_keys # {} => /\ d.status = "available" /\ d.dated
                                 /\ d.shifts = d.shift_keys}

-----------------------------------------------------------------------------

\* _looks_like_verified_v2_baseline.
LooksVerifiedV2(d) ==
  \/ d.status = "available" /\ d.shift_keys # {} /\ d.shifts = d.shift_keys
  \/ /\ d.observed = d.status /\ d.evidence = d.status
     /\ d.status \in Reliable2
     /\ d.status = "available" => d.shifts # {}

\* In schema 1 an error overwrote the baseline.
Destroyed(d) == d.version = 1 /\ d.status = "error"

\* Seeded fault: the latched loss of evidence is reset whatever the version.
ProvenUnlatched(d) ==
  [version |-> 3,
   status |-> IF Destroyed(d) THEN "unknown" ELSE d.status,
   observed |-> IF Destroyed(d) THEN "error" ELSE d.observed,
   shifts |-> d.shifts, shift_keys |-> d.shift_keys,
   evidence |-> d.evidence, dated |-> d.dated,
   baseline_verified |-> IF d.version = 3 THEN d.baseline_verified
                         ELSE d.version = 2 /\ LooksVerifiedV2(d) /\ d.dated,
   availability_evidence_lost |-> FALSE]

\* The status is freed from errors, and what was proved is marked as such.
Proven(d) ==
  [version |-> 3,
   status |-> IF Destroyed(d) THEN "unknown" ELSE d.status,
   observed |-> IF Destroyed(d) THEN "error" ELSE d.observed,
   shifts |-> d.shifts, shift_keys |-> d.shift_keys,
   evidence |-> d.evidence, dated |-> d.dated,
   baseline_verified |-> IF d.version = 3 THEN d.baseline_verified
                         ELSE d.version = 2 /\ LooksVerifiedV2(d) /\ d.dated,
   availability_evidence_lost |-> d.version = 3 /\ d.availability_evidence_lost]

\* An available baseline without shifts is never taken for proved.
EmptyRejected(d) ==
  [d EXCEPT !.baseline_verified = @ /\ ~(d.status = "available" /\ d.shifts = {})]

\* An unproved value is history, not a baseline.
Demoted(d) ==
  IF ~d.baseline_verified /\ d.status \in Reliable2
  THEN [d EXCEPT !.status = "unknown", !.shifts = {}, !.shift_keys = {}, !.dated = FALSE,
                 !.availability_evidence_lost = FALSE,
                 !.observed = IF @ \in Reliable2 THEN "unknown" ELSE @]
  ELSE IF d.status \in {"unknown", "error"}
  THEN [d EXCEPT !.shifts = {}, !.shift_keys = {}]
  ELSE d

Migrate(d) == Demoted(EmptyRejected(Proven(d)))

\* TentDateState's validator, in load() and again in save().
Loads(d) ==
  /\ IF d.status = "available" THEN d.shift_keys # {} /\ d.shifts = d.shift_keys
                               ELSE d.shift_keys = {} /\ d.shifts = {}
  /\ d.baseline_verified => d.status \in Reliable2 /\ d.dated
  /\ d.availability_evidence_lost => d.baseline_verified /\ d.status = "available"
====
