-------------------------- MODULE MCNotifications --------------------------
(* Instance of Notifications for TLC. *)
EXTENDS Notifications, TLC

Symmetry == Permutations(Sockets)
=============================================================================
