---- MODULE MCAvailability ----
\* A Saturday with two business shifts; "mittag" has a cosmetic variant that
\* canonicalises to the same key, and one label is noise.
EXTENDS Availability

MCLabels == {"Mittag", "Mittag (11:00)", "Abend", "11:00 Uhr"}
MCKeys == {"mittag", "abend"}
MCShiftKey == [l \in MCLabels |->
                 CASE l \in {"Mittag", "Mittag (11:00)"} -> "mittag"
                   [] l = "Abend" -> "abend"
                   [] OTHER -> NoKey]
MCQuiet == {"mittag"}
====
