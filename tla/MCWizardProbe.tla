---- MODULE MCWizardProbe ----
(* Two target dates on one page. *)
EXTENDS WizardProbe, TLC

CONSTANTS d1, d2

MCTargets == <<d1, d2>>

\* Lists are compared for equality only.
ListsInterchangeable == Permutations(Lists)
====
