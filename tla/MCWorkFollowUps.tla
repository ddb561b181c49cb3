-------------------------- MODULE MCWorkFollowUps --------------------------
(* Instance of WorkFollowUps for TLC. *)
EXTENDS WorkFollowUps, TLC

MCSymmetry == Permutations(Desks) \cup Permutations(Crew)
=============================================================================
