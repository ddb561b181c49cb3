--------------------------- MODULE MCMaintenance ---------------------------
(* Instances of MaintenanceSchedules for TLC. *)
EXTENDS MaintenanceSchedules, TLC

CONSTANT item

MCAsset == [s \in Schedules |-> item]
=============================================================================
