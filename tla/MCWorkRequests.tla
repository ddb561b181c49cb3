--------------------------- MODULE MCWorkRequests ---------------------------
(* Instances of WorkRequests for TLC. *)
EXTENDS WorkRequests, TLC

MCSymmetry == Permutations(Crew) \cup Permutations(Calls)
=============================================================================
