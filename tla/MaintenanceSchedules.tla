------------------------ MODULE MaintenanceSchedules ------------------------
(***************************************************************************)
(* MaintenanceSchedulesService, with the work requests it generates and    *)
(* the part of WorkRequestsService that advances a schedule when one of    *)
(* them is completed.                                                      *)
(*                                                                         *)
(* A CALENDAR schedule is due on a day (nextDueAt), a RUNTIME schedule at  *)
(* a reading of the item's hour meter (nextDueAtHours).  The value it is   *)
(* due at is the key of its current cycle, and a unique index allows one   *)
(* work request per schedule and key.  A work request that a client        *)
(* created for the schedule has no key.                                    *)
(*                                                                         *)
(* Generation and readings lock the schedule row (FOR UPDATE) and are one  *)
(* step; complete, deactivate and update check the work requests first and *)
(* write in a later statement: a keeper is such a request in flight.       *)
(***************************************************************************)
EXTENDS WorkRequests

CONSTANTS
  Asset,       \* Asset[s]: the inventory item the schedule is for
  Keepers,     \* concurrent complete, deactivate and update requests
  Periods,     \* frequencies in use, in days or hours
  Horizon,     \* bound: the last day and the last meter reading
  NoCycle

ASSUME MaintenanceAssumption ==
  /\ DOMAIN Asset = Schedules
  /\ Periods \subseteq Nat \ {0} /\ Periods # {}
  /\ Horizon \in Nat
  /\ NoCycle \notin Nat

VARIABLES
  schedule,    \* the MaintenanceSchedule table
  cycle,       \* WorkRequest.maintenanceCycleKey
  today,
  keeper       \* per keeper, the request in flight with what it has read

maintenanceVars == <<workVars, schedule, cycle, today, keeper>>

\* hours: currentRunHours; due: nextDueAt or nextDueAtHours
ScheduleRows ==
  [state : {"absent", "active", "inactive"}, basis : {"CALENDAR", "RUNTIME"},
   due : Nat, period : Periods, hours : Nat]

KeeperJobs ==
  {Idle} \cup [op : {"complete"}, on : Schedules, hours : Nat, period : Periods]
         \cup [op : {"deactivate"}, on : Schedules]
         \cup [op : {"update"}, on : Schedules, period : Periods]

MaintenanceTypeOK ==
  /\ WorkTypeOK
  /\ schedule \in [Schedules -> ScheduleRows]
  /\ cycle \in [WorkRequestIds -> Nat \cup {NoCycle}]
  /\ today \in 0..Horizon
  /\ keeper \in [Keepers -> KeeperJobs]

MaintenanceInit ==
  /\ WorkInit
  /\ schedule = [s \in Schedules |->
       [state |-> "absent", basis |-> "CALENDAR", due |-> 0,
        period |-> CHOOSE p \in Periods : TRUE, hours |-> 0]]
  /\ cycle = [r \in WorkRequestIds |-> NoCycle]
  /\ today = 0
  /\ keeper = [h \in Keepers |-> Idle]

-----------------------------------------------------------------------------
Active(s) == schedule[s].state = "active"
Basis(s) == schedule[s].basis
Existing == {s \in Schedules : schedule[s].state # "absent"}
RequestsOf(s) == {r \in WorkRequestIds : wr[r].status # "none" /\ wr[r].schedule = s}
CyclesOf(s) == {r \in RequestsOf(s) : cycle[r] # NoCycle}
HasCycle(s, key) == \E r \in RequestsOf(s) : cycle[r] = key

\* The partial unique index on the active schedules of an item and a basis.
MayBeActive(s, basis) ==
  \A t \in Schedules \ {s} : Active(t) => Asset[t] # Asset[s] \/ Basis(t) # basis

\* createWorkRequestForSchedule
Generate(r, s, key) ==
  /\ wr[r].status = "none"
  /\ wr' = [wr EXCEPT ![r] = Pending(s)]
  /\ cycle' = [cycle EXCEPT ![r] = key]
  /\ UNCHANGED <<terms, duty, call>>

KeepRequests == UNCHANGED <<workVars, cycle>>

(* create: a CALENDAR schedule starts with its first work request, however *)
(* far ahead it is due; a RUNTIME schedule is due after one period.        *)
CreateSchedule(s, basis, r, p, first) ==
  /\ schedule[s].state = "absent"
  /\ MayBeActive(s, basis)
  /\ schedule' = [schedule EXCEPT ![s] =
       [state |-> "active", basis |-> basis, period |-> p, hours |-> 0,
        due |-> IF basis = "CALENDAR" THEN first ELSE p]]
  /\ IF basis = "CALENDAR" THEN Generate(r, s, first) ELSE KeepRequests
  /\ UNCHANGED <<today, keeper>>

\* Mutant: the cron job advances the schedule it generates for.
CronGenerateAdvancing(s, r) ==
  /\ Basis(s) = "CALENDAR" /\ Active(s) /\ schedule[s].due <= today
  /\ ~HasCycle(s, schedule[s].due)
  /\ Generate(r, s, schedule[s].due)
  /\ schedule' = [schedule EXCEPT ![s].due = @ + schedule[s].period]
  /\ UNCHANGED <<today, keeper>>

\* Mutant: a schedule is generated for the day after it is due.
CronGenerateLate(s, r) ==
  /\ Basis(s) = "CALENDAR" /\ Active(s) /\ schedule[s].due < today
  /\ ~HasCycle(s, schedule[s].due)
  /\ Generate(r, s, schedule[s].due)
  /\ UNCHANGED <<schedule, today, keeper>>

\* generateDueCalendarWorkRequest, every minute for every schedule that is due
CronGenerate(s, r) ==
  /\ Basis(s) = "CALENDAR" /\ Active(s) /\ schedule[s].due <= today
  /\ ~HasCycle(s, schedule[s].due)
  /\ Generate(r, s, schedule[s].due)
  /\ UNCHANGED <<schedule, today, keeper>>

\* Mutants: every reading generates; a cycle is generated again.
RecordRunHoursAhead(s, r, reading) ==
  /\ Basis(s) = "RUNTIME" /\ Active(s) /\ reading >= schedule[s].hours
  /\ schedule' = [schedule EXCEPT ![s].hours = reading]
  /\ IF ~HasCycle(s, schedule[s].due) THEN Generate(r, s, schedule[s].due) ELSE KeepRequests
  /\ UNCHANGED <<today, keeper>>

RecordRunHoursAgain(s, r, reading) ==
  /\ Basis(s) = "RUNTIME" /\ Active(s) /\ reading >= schedule[s].hours
  /\ schedule' = [schedule EXCEPT ![s].hours = reading]
  /\ IF reading >= schedule[s].due THEN Generate(r, s, schedule[s].due) ELSE KeepRequests
  /\ UNCHANGED <<today, keeper>>

(* recordRunHours: readings never decrease; one that reaches the threshold *)
(* generates the work request of the cycle unless there is one.            *)
RecordRunHours(s, r, reading) ==
  /\ Basis(s) = "RUNTIME" /\ Active(s) /\ reading >= schedule[s].hours
  /\ schedule' = [schedule EXCEPT ![s].hours = reading]
  /\ IF reading >= schedule[s].due /\ ~HasCycle(s, schedule[s].due)
       THEN Generate(r, s, schedule[s].due)
       ELSE KeepRequests
  /\ UNCHANGED <<today, keeper>>

(* completeAuthoritatively on maintenance work advances the schedule: a    *)
(* CALENDAR schedule from the day the work is recorded as completed, which *)
(* may lie in the past, a RUNTIME schedule from the cycle's threshold.     *)
CompleteMaintenance(r, u, day) ==
  LET s == wr[r].schedule IN
  /\ s # NoSchedule
  /\ CompleteWork(r, u)
  /\ Active(s)
  /\ Basis(s) = "RUNTIME" => cycle[r] # NoCycle
  /\ schedule' = [schedule EXCEPT ![s].due =
       schedule[s].period + (IF Basis(s) = "CALENDAR" THEN day ELSE cycle[r])]
  /\ UNCHANGED <<cycle, today, keeper>>

-----------------------------------------------------------------------------
Enter(h, job) ==
  /\ keeper[h] = Idle
  /\ keeper' = [keeper EXCEPT ![h] = job]
  /\ UNCHANGED <<schedule, today>> /\ KeepRequests

Leave(h) == keeper' = [keeper EXCEPT ![h] = Idle] /\ UNCHANGED today /\ KeepRequests

\* complete, for a schedule that never generated a work request
BeginComplete(h, s) ==
  /\ s \in Existing
  /\ CyclesOf(s) = {}
  /\ Enter(h, [op |-> "complete", on |-> s, hours |-> schedule[s].hours,
               period |-> schedule[s].period])

CommitComplete(h) ==
  LET s == keeper[h].on IN
  /\ keeper[h].op = "complete"
  /\ schedule' = [schedule EXCEPT ![s].due =
       keeper[h].period + (IF Basis(s) = "CALENDAR" THEN today ELSE keeper[h].hours)]
  /\ Leave(h)

BeginDeactivate(h, s) ==
  /\ s \in Existing
  /\ \A r \in RequestsOf(s) : wr[r].status \in Closed
  /\ Enter(h, [op |-> "deactivate", on |-> s])

CommitDeactivate(h) ==
  /\ keeper[h].op = "deactivate"
  /\ schedule' = [schedule EXCEPT ![keeper[h].on].state = "inactive"]
  /\ Leave(h)

\* update of the frequency, refused while a generated work request is open
BeginUpdate(h, s, p) ==
  /\ s \in Existing
  /\ \A r \in CyclesOf(s) : wr[r].status \in Closed
  /\ Enter(h, [op |-> "update", on |-> s, period |-> p])

\* Mutant: the new frequency applies to the current cycle.
CommitUpdateShifting(h) ==
  LET s == keeper[h].on IN
  /\ keeper[h].op = "update"
  /\ schedule' = [schedule EXCEPT ![s].period = keeper[h].period,
                                  ![s].due = @ - schedule[s].period + keeper[h].period]
  /\ Leave(h)

CommitUpdate(h) ==
  /\ keeper[h].op = "update"
  /\ schedule' = [schedule EXCEPT ![keeper[h].on].period = keeper[h].period]
  /\ Leave(h)

AbandonKeeper(h) == keeper[h] # Idle /\ Leave(h) /\ UNCHANGED schedule

Reactivate(s) ==
  /\ schedule[s].state = "inactive"
  /\ MayBeActive(s, Basis(s))
  /\ schedule' = [schedule EXCEPT ![s].state = "active"]
  /\ UNCHANGED <<today, keeper>> /\ KeepRequests

Midnight ==
  /\ today < Horizon
  /\ today' = today + 1
  /\ UNCHANGED <<schedule, keeper>> /\ KeepRequests

-----------------------------------------------------------------------------
ScheduleNext(s) ==
  \/ \E basis \in {"CALENDAR", "RUNTIME"}, r \in WorkRequestIds, p \in Periods,
        first \in 0..Horizon : CreateSchedule(s, basis, r, p, first)
  \/ \E r \in WorkRequestIds : CronGenerate(s, r)
  \/ \E r \in WorkRequestIds, reading \in 0..Horizon : RecordRunHours(s, r, reading)
  \/ Reactivate(s)

KeeperNext(h) ==
  \/ \E s \in Schedules : BeginComplete(h, s)
  \/ CommitComplete(h)
  \/ \E s \in Schedules : BeginDeactivate(h, s)
  \/ CommitDeactivate(h)
  \/ \E s \in Schedules, p \in Periods : BeginUpdate(h, s, p)
  \/ CommitUpdate(h)
  \/ AbandonKeeper(h)

MaintenanceNext ==
  \/ \E s \in Schedules : ScheduleNext(s)
  \/ \E h \in Keepers : KeeperNext(h)
  \/ \E r \in WorkRequestIds, u \in Users, day \in 0..Horizon : CompleteMaintenance(r, u, day)
  \/ /\ \/ HandlersNext
        \/ \E r \in WorkRequestIds, s \in Existing \cup {NoSchedule} : CreateWorkRequest(r, s)
     /\ UNCHANGED <<schedule, cycle, today, keeper>>
  \/ Midnight

\* @Cron(EVERY_MINUTE): a schedule that stays due is generated for.
CronFairness ==
  \A s \in Schedules : WF_maintenanceVars(\E r \in WorkRequestIds : CronGenerate(s, r))

MaintenanceSpec == MaintenanceInit /\ [][MaintenanceNext]_maintenanceVars /\ CronFairness

-----------------------------------------------------------------------------
(* "It never changes nextDueAt; completion owns advancement": once created *)
(* a schedule is moved on only by the completion of one of its requests,   *)
(* or by complete itself, which the generation of requests never is.       *)
CompletionOwnsAdvancement ==
  [][\A s \in Existing : schedule'[s].due # schedule[s].due =>
       \/ \E r \in RequestsOf(s) : wr[r].status # "COMPLETED" /\ wr'[r].status = "COMPLETED"
       \/ \E h \in Keepers : keeper[h].op = "complete" /\ keeper[h].on = s
                           /\ keeper'[h] = Idle]_maintenanceVars

(* A request generated by run hours stands for a threshold the meter has   *)
(* really reached, whatever changed the schedule since.                    *)
RuntimeCyclesReached ==
  \A r \in WorkRequestIds : \A s \in Schedules :
    r \in CyclesOf(s) /\ Basis(s) = "RUNTIME" => cycle[r] <= schedule[s].hours

(* A cycle has one work request: creation, parallel runs of the cron job,  *)
(* readings and reactivation never generate a second.                      *)
CyclesDistinct ==
  \A s \in Schedules : \A q, r \in CyclesOf(s) : cycle[q] = cycle[r] => q = r

(* A calendar schedule that is due gets the work request of its cycle, as  *)
(* long as it stays active and due, because the cron job keeps running.    *)
(* (The last disjunct is the bound of an instance: no row is left.)        *)
DueGenerated ==
  \A s \in Schedules : \A d \in 0..Horizon :
      (Basis(s) = "CALENDAR" /\ Active(s) /\ schedule[s].due = d /\ d <= today)
        ~> \/ HasCycle(s, d) \/ ~Active(s) \/ schedule[s].due # d
           \/ \A r \in WorkRequestIds : wr[r].status # "none"

(* "Completed maintenance-generated work requests cannot be reopened       *)
(* because schedule recurrence has advanced": a request advances its       *)
(* schedule once.  A late unassignment writes PENDING over the completion, *)
(* and the request can be worked on and completed again.                   *)
AdvancesOnce ==
  [][\A r \in WorkRequestIds :
       wr[r].schedule # NoSchedule /\ wr[r].status # "COMPLETED" /\ wr'[r].status = "COMPLETED"
         => wr[r].performer = NoUser]_maintenanceVars

(* "The current due date/threshold identifies the existing cycle": what a  *)
(* completion makes a schedule due at is the key of a new cycle.  Work     *)
(* recorded on an earlier day can lead back to the day of a cycle that was *)
(* generated before, and the schedule never generates again.               *)
AdvancesToNewCycle ==
  [][\A r \in WorkRequestIds, s \in Existing :
       wr[r].schedule = s /\ wr[r].status # "COMPLETED" /\ wr'[r].status = "COMPLETED"
         => ~HasCycle(s, schedule'[s].due)]_maintenanceVars
=============================================================================
