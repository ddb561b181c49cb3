-------------------------- MODULE MCEventCalendar --------------------------
(* Instance of EventCalendar for TLC. *)
EXTENDS EventCalendar, TLC

Symmetry == Permutations(Editors)
=============================================================================
