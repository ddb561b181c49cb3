--------------------- MODULE MaintenanceSchedulesProofs ---------------------
(***************************************************************************)
(* Proofs about MaintenanceSchedules: the cycles a schedule generates, and *)
(* what moves it on, for any schedules, requests and frequencies.          *)
(***************************************************************************)
EXTENDS MaintenanceSchedules, WorkRequestsProofs

\* A row that does not exist has no cycle, and a cycle has its schedule.
CyclesKnown ==
  \A r \in WorkRequestIds :
    /\ wr[r].status = "none" => cycle[r] = NoCycle
    /\ cycle[r] # NoCycle => wr[r].schedule \in Existing

CyclesOK == CyclesKnown /\ RuntimeCyclesReached /\ CyclesDistinct

MaintenanceInv == MaintenanceTypeOK /\ WorkInv /\ CyclesOK

-----------------------------------------------------------------------------
(* To the work requests, generation is the creation of a request, and the  *)
(* handlers of schedules do nothing.                                       *)
LEMMA MaintenanceWork == MaintenanceNext => WorkStep \/ UNCHANGED workVars
<1>1. ASSUME NEW r \in WorkRequestIds, NEW s \in Schedules, NEW key, Generate(r, s, key)
      PROVE  WorkStep
  BY <1>1 DEF Generate, WorkStep, CreateWorkRequest
<1>2. ASSUME NEW s \in Schedules, ScheduleNext(s) PROVE WorkStep \/ UNCHANGED workVars
  BY <1>1, <1>2 DEF ScheduleNext, CreateSchedule, CronGenerate, RecordRunHours, Reactivate,
                    KeepRequests
<1>3. ASSUME NEW h \in Keepers, KeeperNext(h) PROVE UNCHANGED workVars
  BY <1>3 DEF KeeperNext, BeginComplete, CommitComplete, BeginDeactivate, CommitDeactivate,
              BeginUpdate, CommitUpdate, AbandonKeeper, Enter, Leave, KeepRequests
<1>4. ASSUME NEW r \in WorkRequestIds, NEW s \in Existing \cup {NoSchedule},
             CreateWorkRequest(r, s)
      PROVE  WorkStep
  BY <1>4 DEF WorkStep, Existing
<1> QED BY <1>2, <1>3, <1>4 DEF MaintenanceNext, WorkStep, CompleteMaintenance, Midnight, KeepRequests

LEMMA WorkKept == WorkInv /\ [MaintenanceNext]_maintenanceVars => WorkInv'
BY MaintenanceWork, WorkStepInv, WorkStutterInv DEF maintenanceVars, workVars

\* Requests keep their schedule, whatever happens to them.
LEMMA RequestsKept ==
  ASSUME WorkInv, MaintenanceNext, NEW r \in WorkRequestIds, wr[r].status # "none"
  PROVE  wr'[r].status # "none" /\ wr'[r].schedule = wr[r].schedule
BY MaintenanceWork, RowsStep DEF RowStep, Follows, workVars

-----------------------------------------------------------------------------
(* The steps, by what they do to the cycles.                               *)

(* A new cycle: its key is not in use, its schedule exists after the step, *)
(* and a threshold is one the meter has reached.                           *)
LEMMA GenerateCycle ==
  ASSUME MaintenanceInv, NEW r \in WorkRequestIds, NEW s \in Schedules, NEW key \in Nat,
         Generate(r, s, key), ~HasCycle(s, key),
         NEW row \in ScheduleRows, schedule' = [schedule EXCEPT ![s] = row],
         row.state # "absent",
         schedule[s].state # "absent" =>
           row.basis = schedule[s].basis /\ row.hours >= schedule[s].hours,
         row.basis = "RUNTIME" => key <= row.hours
  PROVE  CyclesOK'
<1>1. /\ wr \in [WorkRequestIds -> WorkRequestRows]
      /\ cycle \in [WorkRequestIds -> Nat \cup {NoCycle}]
      /\ schedule \in [Schedules -> ScheduleRows]
  BY DEF MaintenanceInv, MaintenanceTypeOK, WorkTypeOK
<1>2. /\ wr' = [wr EXCEPT ![r] = Pending(s)] /\ wr[r].status = "none"
      /\ cycle' = [cycle EXCEPT ![r] = key]
      /\ Pending(s).status = "PENDING" /\ Pending(s).schedule = s
  BY DEF Generate, Pending
<1>3. \A q \in WorkRequestIds :
        /\ wr'[q] = IF q = r THEN Pending(s) ELSE wr[q]
        /\ cycle'[q] = IF q = r THEN key ELSE cycle[q]
  BY <1>1, <1>2
<1>4. \A t \in Schedules : schedule'[t] = IF t = s THEN row ELSE schedule[t]
  BY <1>1
<1>5. \A t \in Schedules : t \in Existing => t \in Existing'
  BY <1>4 DEF Existing
<1>6. CyclesKnown'
  BY <1>2, <1>3, <1>4, <1>5 DEF MaintenanceInv, CyclesOK, CyclesKnown, Existing
<1>7. \A q \in WorkRequestIds, t \in Schedules :
        q \in CyclesOf(t)' => q \in CyclesOf(t) \/ (q = r /\ t = s)
  BY <1>2, <1>3 DEF CyclesOf, RequestsOf
<1>8. RuntimeCyclesReached'
  <2> SUFFICES ASSUME NEW q \in WorkRequestIds, NEW t \in Schedules,
                      q \in CyclesOf(t)', schedule'[t].basis = "RUNTIME"
               PROVE  cycle'[q] <= schedule'[t].hours
    BY DEF RuntimeCyclesReached, Basis
  <2>1. CASE q = r /\ t = s
    BY <1>3, <1>4, <2>1
  <2>2. CASE q # r
    <3>1. q \in CyclesOf(t) /\ cycle'[q] = cycle[q]
      BY <1>3, <1>7, <2>2
    <3>2. t \in Existing
      BY <3>1 DEF MaintenanceInv, CyclesOK, CyclesKnown, CyclesOf, RequestsOf
    <3>3. schedule[t].basis = "RUNTIME" /\ schedule'[t].hours >= schedule[t].hours
      BY <1>1, <1>4, <3>2 DEF Existing, ScheduleRows
    <3>4. cycle[q] <= schedule[t].hours
      BY <3>1, <3>3 DEF MaintenanceInv, CyclesOK, RuntimeCyclesReached, Basis
    <3>5. cycle[q] \in Nat /\ schedule[t].hours \in Nat /\ schedule'[t].hours \in Nat
      BY <1>1, <1>4, <3>1 DEF CyclesOf, ScheduleRows
    <3> QED BY <3>1, <3>3, <3>4, <3>5
  <2> QED BY <1>2, <1>3, <2>1, <2>2 DEF CyclesOf, RequestsOf
<1>9. CyclesDistinct'
  <2> SUFFICES ASSUME NEW t \in Schedules, NEW p \in CyclesOf(t)', NEW q \in CyclesOf(t)',
                      cycle'[p] = cycle'[q]
               PROVE  p = q
    BY DEF CyclesDistinct
  <2>1. p \in WorkRequestIds /\ q \in WorkRequestIds
    BY DEF CyclesOf, RequestsOf
  <2>2. \A x \in WorkRequestIds : x \in CyclesOf(s) => cycle[x] # key
    BY DEF HasCycle, CyclesOf
  <2>3. CASE p = r /\ q # r
    BY <1>2, <1>3, <1>7, <2>1, <2>2, <2>3 DEF CyclesOf, RequestsOf
  <2>4. CASE p # r /\ q = r
    BY <1>2, <1>3, <1>7, <2>1, <2>2, <2>4 DEF CyclesOf, RequestsOf
  <2>5. CASE p # r /\ q # r
    BY <1>3, <1>7, <2>1, <2>5 DEF MaintenanceInv, CyclesOK, CyclesDistinct
  <2> QED BY <2>3, <2>4, <2>5
<1> QED BY <1>6, <1>8, <1>9 DEF CyclesOK

(* No new cycle: schedules keep their basis, and meters do not run back.   *)
LEMMA KeepCycles ==
  ASSUME MaintenanceInv, MaintenanceNext \/ UNCHANGED workVars, UNCHANGED cycle,
         \A r \in WorkRequestIds : wr'[r].status = "none" => wr[r].status = "none",
         schedule' \in [Schedules -> ScheduleRows],
         \A s \in Existing : /\ schedule'[s].state # "absent"
                             /\ schedule'[s].basis = schedule[s].basis
                             /\ schedule'[s].hours >= schedule[s].hours
  PROVE  CyclesOK'
<1>1. /\ cycle \in [WorkRequestIds -> Nat \cup {NoCycle}]
      /\ schedule \in [Schedules -> ScheduleRows]
  BY DEF MaintenanceInv, MaintenanceTypeOK
<1>2. \A r \in WorkRequestIds : wr[r].status # "none" =>
        wr'[r].status # "none" /\ wr'[r].schedule = wr[r].schedule
  BY RequestsKept DEF MaintenanceInv, workVars
<1>3. \A r \in WorkRequestIds : cycle[r] # NoCycle =>
        wr[r].status # "none" /\ wr[r].schedule \in Existing
  BY DEF MaintenanceInv, CyclesOK, CyclesKnown
<1>4. CyclesKnown'
  BY <1>2, <1>3 DEF CyclesKnown, Existing, MaintenanceInv, CyclesOK
<1>5. \A s \in Schedules : CyclesOf(s)' = CyclesOf(s)
  BY <1>2, <1>3 DEF CyclesOf, RequestsOf
<1>6. CyclesDistinct'
  BY <1>5 DEF CyclesDistinct, MaintenanceInv, CyclesOK, CyclesOf, RequestsOf
<1>7. RuntimeCyclesReached'
  <2> SUFFICES ASSUME NEW q \in WorkRequestIds, NEW s \in Schedules,
                      q \in CyclesOf(s), schedule'[s].basis = "RUNTIME"
               PROVE  cycle[q] <= schedule'[s].hours
    BY <1>5 DEF RuntimeCyclesReached, Basis
  <2>1. s \in Existing
    BY <1>3 DEF CyclesOf, RequestsOf
  <2>2. cycle[q] <= schedule[s].hours
    BY <2>1 DEF MaintenanceInv, CyclesOK, RuntimeCyclesReached, Basis
  <2>3. /\ cycle[q] \in Nat
        /\ schedule[s].hours \in Nat /\ schedule'[s].hours \in Nat
        /\ schedule'[s].hours >= schedule[s].hours
    BY <1>1, <2>1 DEF CyclesOf, ScheduleRows
  <2> QED BY <2>2, <2>3
<1> QED BY <1>4, <1>6, <1>7 DEF CyclesOK

-----------------------------------------------------------------------------
(* The schedules: rows keep their type and their basis, and never go away. *)

\* What a step may do to the rows of the schedules.
SchedulesKept ==
  /\ schedule' \in [Schedules -> ScheduleRows]
  /\ \A s \in Existing : /\ schedule'[s].state # "absent"
                         /\ schedule'[s].basis = schedule[s].basis
                         /\ schedule'[s].hours >= schedule[s].hours

LEMMA OneSchedule ==
  ASSUME MaintenanceTypeOK, NEW s \in Schedules, NEW row \in ScheduleRows,
         schedule' = [schedule EXCEPT ![s] = row],
         s \in Existing => /\ row.state # "absent"
                           /\ row.basis = schedule[s].basis
                           /\ row.hours >= schedule[s].hours
  PROVE  SchedulesKept
<1>1. schedule \in [Schedules -> ScheduleRows]
  BY DEF MaintenanceTypeOK
<1>2. \A t \in Schedules : schedule'[t] = IF t = s THEN row ELSE schedule[t]
  BY <1>1
<1>3. \A t \in Schedules : schedule[t].hours \in Nat
  BY <1>1 DEF ScheduleRows
<1> QED BY <1>1, <1>2, <1>3 DEF SchedulesKept, Existing

LEMMA SchedulesUnchanged ==
  ASSUME MaintenanceTypeOK, UNCHANGED schedule PROVE SchedulesKept
<1>1. \A t \in Schedules : schedule[t].hours \in Nat
  BY DEF MaintenanceTypeOK, ScheduleRows
<1> QED BY <1>1 DEF SchedulesKept, Existing, MaintenanceTypeOK

LEMMA ScheduleEdits ==
  ASSUME NEW row \in ScheduleRows, NEW n \in Nat, NEW p \in Periods,
         NEW state \in {"absent", "active", "inactive"}
  PROVE  /\ [row EXCEPT !.due = n] \in ScheduleRows
         /\ [row EXCEPT !.hours = n] \in ScheduleRows
         /\ [row EXCEPT !.period = p] \in ScheduleRows
         /\ [row EXCEPT !.state = state] \in ScheduleRows
BY DEF ScheduleRows

\* What is known of a keeper, by the handler it belongs to.
LEMMA KeeperFields ==
  ASSUME MaintenanceTypeOK, NEW h \in Keepers
  PROVE  /\ keeper[h].op = "complete" =>
              keeper[h].on \in Schedules /\ keeper[h].hours \in Nat /\ keeper[h].period \in Periods
         /\ keeper[h].op = "deactivate" => keeper[h].on \in Schedules
         /\ keeper[h].op = "update" => keeper[h].on \in Schedules /\ keeper[h].period \in Periods
<1>1. keeper[h] \in KeeperJobs
  BY DEF MaintenanceTypeOK
<1> QED BY <1>1 DEF KeeperJobs, Idle

LEMMA KeeperSchedules ==
  ASSUME MaintenanceTypeOK, NEW h \in Keepers, KeeperNext(h) PROVE SchedulesKept
<1>1. /\ \A s \in Schedules : schedule[s] \in ScheduleRows
      /\ \A s \in Schedules : schedule[s].hours \in Nat
      /\ Periods \subseteq Nat /\ today \in Nat
  BY MaintenanceAssumption DEF MaintenanceTypeOK, ScheduleRows
<1>2. CASE CommitComplete(h)
  <2> DEFINE s == keeper[h].on
             due == keeper[h].period + (IF Basis(s) = "CALENDAR" THEN today ELSE keeper[h].hours)
  <2>1. s \in Schedules /\ due \in Nat
    BY <1>1, <1>2, KeeperFields DEF CommitComplete
  <2>2. schedule' = [schedule EXCEPT ![s] = [schedule[s] EXCEPT !.due = due]]
    BY <1>2 DEF CommitComplete
  <2>3. [schedule[s] EXCEPT !.due = due] \in ScheduleRows
    BY <1>1, <2>1, ScheduleEdits, MaintenanceAssumption
  <2>4. s \in Existing => [schedule[s] EXCEPT !.due = due].state # "absent" /\ [schedule[s] EXCEPT !.due = due].basis = schedule[s].basis
                            /\ [schedule[s] EXCEPT !.due = due].hours >= schedule[s].hours
    BY <1>1, <2>1 DEF ScheduleRows, Existing
  <2> QED BY <2>1, <2>2, <2>3, <2>4, OneSchedule
<1>3. CASE CommitDeactivate(h)
  <2> DEFINE s == keeper[h].on  row == [schedule[s] EXCEPT !.state = "inactive"]
  <2>1. s \in Schedules
    BY <1>3, KeeperFields DEF CommitDeactivate
  <2>2. schedule' = [schedule EXCEPT ![s] = row]
    BY <1>3 DEF CommitDeactivate
  <2>3. row \in ScheduleRows
    BY <1>1, <2>1 DEF ScheduleRows
  <2>4. s \in Existing => row.state # "absent" /\ row.basis = schedule[s].basis
                            /\ row.hours >= schedule[s].hours
    BY <1>1, <2>1 DEF ScheduleRows, Existing
  <2> HIDE DEF row
  <2> QED BY <2>1, <2>2, <2>3, <2>4, OneSchedule
<1>4. CASE CommitUpdate(h)
  <2> DEFINE s == keeper[h].on  row == [schedule[s] EXCEPT !.period = keeper[h].period]
  <2>1. s \in Schedules /\ keeper[h].period \in Periods
    BY <1>4, KeeperFields DEF CommitUpdate
  <2>2. schedule' = [schedule EXCEPT ![s] = row]
    BY <1>4 DEF CommitUpdate
  <2>3. row \in ScheduleRows
    BY <1>1, <2>1 DEF ScheduleRows
  <2>4. s \in Existing => row.state # "absent" /\ row.basis = schedule[s].basis
                            /\ row.hours >= schedule[s].hours
    BY <1>1, <2>1 DEF ScheduleRows, Existing
  <2> HIDE DEF row
  <2> QED BY <2>1, <2>2, <2>3, <2>4, OneSchedule
<1>5. CASE UNCHANGED schedule
  BY <1>5, SchedulesUnchanged
<1> QED BY <1>2, <1>3, <1>4, <1>5 DEF KeeperNext, BeginComplete, BeginDeactivate, BeginUpdate,
                                    AbandonKeeper, Enter

(* The handlers of one schedule: what they leave of the schedules, and     *)
(* that a work request they generate stands for a new cycle.               *)
CyclesAndSchedules ==
  /\ SchedulesKept
  /\ CyclesOK'
  /\ cycle' \in [WorkRequestIds -> Nat \cup {NoCycle}]

\* Nothing is generated: the cycles stay as they are.
LEMMA NothingGenerated ==
  ASSUME MaintenanceInv, MaintenanceNext, UNCHANGED cycle, SchedulesKept
  PROVE  CyclesAndSchedules
<1>1. \A r \in WorkRequestIds : wr'[r].status = "none" => wr[r].status = "none"
  BY RequestsKept DEF MaintenanceInv
<1>2. CyclesOK'
  BY <1>1, KeepCycles DEF SchedulesKept
<1> QED BY <1>2 DEF CyclesAndSchedules, MaintenanceInv, MaintenanceTypeOK

LEMMA GeneratedCycle ==
  ASSUME MaintenanceInv, NEW r \in WorkRequestIds, NEW s \in Schedules, NEW key \in Nat,
         Generate(r, s, key), ~HasCycle(s, key),
         NEW row \in ScheduleRows, schedule' = [schedule EXCEPT ![s] = row],
         row.state # "absent",
         schedule[s].state # "absent" =>
           row.basis = schedule[s].basis /\ row.hours >= schedule[s].hours,
         row.basis = "RUNTIME" => key <= row.hours
  PROVE  CyclesAndSchedules
<1>1. CyclesOK'
  BY GenerateCycle
<1>2. SchedulesKept
  BY OneSchedule DEF MaintenanceInv, Existing
<1>3. cycle' \in [WorkRequestIds -> Nat \cup {NoCycle}]
  BY DEF MaintenanceInv, MaintenanceTypeOK, Generate
<1> QED BY <1>1, <1>2, <1>3 DEF CyclesAndSchedules

LEMMA CreateKept ==
  ASSUME MaintenanceInv, MaintenanceNext, NEW s \in Schedules, NEW r \in WorkRequestIds,
         NEW basis \in {"CALENDAR", "RUNTIME"}, NEW p \in Periods, NEW first \in 0..Horizon,
         CreateSchedule(s, basis, r, p, first)
  PROVE  CyclesAndSchedules
<1> DEFINE row == [state |-> "active", basis |-> basis, period |-> p, hours |-> 0,
                   due |-> IF basis = "CALENDAR" THEN first ELSE p]
<1>1. /\ schedule' = [schedule EXCEPT ![s] = row] /\ schedule[s].state = "absent"
      /\ IF basis = "CALENDAR" THEN Generate(r, s, first) ELSE UNCHANGED cycle
  BY DEF CreateSchedule, KeepRequests
<1>2. row \in ScheduleRows /\ first \in Nat
  BY MaintenanceAssumption DEF ScheduleRows
<1>3. /\ row.state = "active" /\ row.basis = basis /\ row.hours = 0
      /\ s \notin Existing
  BY <1>1 DEF Existing
<1>4. MaintenanceTypeOK
  BY DEF MaintenanceInv
<1> HIDE DEF row
<1>5. CASE basis = "RUNTIME"
  <2>1. SchedulesKept
    BY <1>1, <1>2, <1>3, <1>4, OneSchedule
  <2> QED BY <1>1, <1>5, <2>1, NothingGenerated
<1>6. CASE basis = "CALENDAR"
  <2>1. ~HasCycle(s, first)
    BY <1>2, <1>3, MaintenanceAssumption
       DEF HasCycle, RequestsOf, MaintenanceInv, CyclesOK, CyclesKnown
  <2>2. /\ Generate(r, s, first) /\ first \in Nat
        /\ row.state # "absent" /\ row.basis # "RUNTIME"
    BY <1>1, <1>2, <1>3, <1>6
  <2> QED BY <1>1, <1>2, <2>1, <2>2, GeneratedCycle
<1> QED BY <1>5, <1>6

LEMMA CronKept ==
  ASSUME MaintenanceInv, NEW s \in Schedules, NEW r \in WorkRequestIds, CronGenerate(s, r)
  PROVE  CyclesAndSchedules
<1>1. /\ schedule \in [Schedules -> ScheduleRows]
      /\ schedule[s] \in ScheduleRows
      /\ schedule[s].due \in Nat /\ schedule[s].hours \in Nat
  BY DEF MaintenanceInv, MaintenanceTypeOK, ScheduleRows
<1>2. schedule' = [schedule EXCEPT ![s] = schedule[s]]
  BY <1>1 DEF CronGenerate
<1>3. /\ schedule[s].basis # "RUNTIME" /\ schedule[s].state # "absent"
      /\ Generate(r, s, schedule[s].due) /\ ~HasCycle(s, schedule[s].due)
  BY DEF CronGenerate, Basis, Active
<1>4. schedule[s].hours >= schedule[s].hours
  BY <1>1
<1> QED BY <1>1, <1>2, <1>3, <1>4, GeneratedCycle

LEMMA ReadingKept ==
  ASSUME MaintenanceInv, MaintenanceNext, NEW s \in Schedules, NEW r \in WorkRequestIds,
         NEW reading \in 0..Horizon, RecordRunHours(s, r, reading)
  PROVE  CyclesAndSchedules
<1> DEFINE row == [schedule[s] EXCEPT !.hours = reading]
<1>1. /\ schedule[s] \in ScheduleRows /\ schedule[s].due \in Nat /\ reading \in Nat
      /\ MaintenanceTypeOK
  BY MaintenanceAssumption DEF MaintenanceInv, MaintenanceTypeOK, ScheduleRows
<1>2. /\ schedule' = [schedule EXCEPT ![s] = row]
      /\ schedule[s].basis = "RUNTIME" /\ schedule[s].state = "active"
      /\ reading >= schedule[s].hours
      /\ \/ /\ reading >= schedule[s].due /\ ~HasCycle(s, schedule[s].due)
            /\ Generate(r, s, schedule[s].due)
         \/ UNCHANGED cycle
  BY DEF RecordRunHours, Basis, Active, KeepRequests
<1>3. row \in ScheduleRows
  BY <1>1, ScheduleEdits, MaintenanceAssumption
<1>4. row.hours = reading /\ row.state = "active" /\ row.basis = "RUNTIME"
  BY <1>1, <1>2 DEF ScheduleRows
<1> HIDE DEF row
<1>5. CASE UNCHANGED cycle
  <2>1. SchedulesKept
    BY <1>1, <1>2, <1>3, <1>4, OneSchedule
  <2> QED BY <1>5, <2>1, NothingGenerated
<1>6. CASE /\ reading >= schedule[s].due /\ ~HasCycle(s, schedule[s].due)
           /\ Generate(r, s, schedule[s].due)
  BY <1>1, <1>2, <1>3, <1>4, <1>6, GeneratedCycle
<1> QED BY <1>2, <1>5, <1>6

LEMMA ReactivateKept ==
  ASSUME MaintenanceInv, MaintenanceNext, NEW s \in Schedules, Reactivate(s)
  PROVE  CyclesAndSchedules
<1> DEFINE row == [schedule[s] EXCEPT !.state = "active"]
<1>1. schedule[s] \in ScheduleRows /\ schedule[s].hours \in Nat /\ MaintenanceTypeOK
  BY DEF MaintenanceInv, MaintenanceTypeOK, ScheduleRows
<1>2. schedule' = [schedule EXCEPT ![s] = row] /\ UNCHANGED cycle
  BY DEF Reactivate, KeepRequests
<1>3. row \in ScheduleRows /\ row.state = "active" /\ row.basis = schedule[s].basis
      /\ row.hours >= schedule[s].hours
  BY <1>1 DEF ScheduleRows
<1> HIDE DEF row
<1>4. SchedulesKept
  BY <1>1, <1>2, <1>3, OneSchedule
<1> QED BY <1>2, <1>4, NothingGenerated

(* Completing maintenance work moves its schedule on, from a day or a key. *)
LEMMA CompletionKept ==
  ASSUME MaintenanceInv, MaintenanceNext, NEW r \in WorkRequestIds, NEW u \in Users,
         NEW day \in 0..Horizon, CompleteMaintenance(r, u, day)
  PROVE  CyclesAndSchedules
<1> DEFINE s == wr[r].schedule
           due == schedule[s].period + (IF Basis(s) = "CALENDAR" THEN day ELSE cycle[r])
           row == [schedule[s] EXCEPT !.due = due]
<1>1. s \in Schedules /\ day \in Nat /\ MaintenanceTypeOK /\ cycle[r] \in Nat \cup {NoCycle}
  BY MaintenanceAssumption
     DEF MaintenanceInv, MaintenanceTypeOK, WorkTypeOK, WorkRequestRows, CompleteMaintenance
<1>2. schedule[s] \in ScheduleRows /\ schedule[s].hours \in Nat /\ schedule[s].period \in Nat
  BY <1>1, MaintenanceAssumption DEF MaintenanceTypeOK, ScheduleRows
<1>3. /\ schedule' = [schedule EXCEPT ![s] = row] /\ UNCHANGED cycle
      /\ Basis(s) = "RUNTIME" => cycle[r] # NoCycle
      /\ schedule[s].state = "active"
  BY DEF CompleteMaintenance, Active
<1>4. due \in Nat
  BY <1>1, <1>2, <1>3 DEF ScheduleRows, Basis
<1>5. row \in ScheduleRows /\ row.state = "active" /\ row.basis = schedule[s].basis
      /\ row.hours >= schedule[s].hours
  BY <1>2, <1>3, <1>4 DEF ScheduleRows
<1> HIDE DEF row, s
<1>6. SchedulesKept
  BY <1>1, <1>3, <1>5, OneSchedule
<1> QED BY <1>3, <1>6, NothingGenerated

-----------------------------------------------------------------------------
(* The step, the invariant and the theorems.                               *)

LEMMA CyclesStep == MaintenanceInv /\ MaintenanceNext => CyclesAndSchedules
<1> SUFFICES ASSUME MaintenanceInv, MaintenanceNext PROVE CyclesAndSchedules
  OBVIOUS
<1>1. MaintenanceTypeOK
  BY DEF MaintenanceInv
<1>2. ASSUME NEW s \in Schedules, ScheduleNext(s) PROVE CyclesAndSchedules
  BY <1>2, CreateKept, CronKept, ReadingKept, ReactivateKept DEF ScheduleNext
<1>3. ASSUME NEW h \in Keepers, KeeperNext(h) PROVE CyclesAndSchedules
  <2>1. UNCHANGED cycle
    BY <1>3 DEF KeeperNext, BeginComplete, CommitComplete, BeginDeactivate, CommitDeactivate,
                BeginUpdate, CommitUpdate, AbandonKeeper, Enter, Leave, KeepRequests
  <2> QED BY <1>1, <1>3, <2>1, KeeperSchedules, NothingGenerated
<1>4. ASSUME NEW r \in WorkRequestIds, NEW u \in Users, NEW day \in 0..Horizon,
             CompleteMaintenance(r, u, day)
      PROVE  CyclesAndSchedules
  BY <1>4, CompletionKept
<1>5. CASE UNCHANGED <<schedule, cycle>>
  BY <1>1, <1>5, SchedulesUnchanged, NothingGenerated
<1> QED BY <1>2, <1>3, <1>4, <1>5 DEF MaintenanceNext, Midnight, KeepRequests

LEMMA KeepersTyped ==
  MaintenanceInv /\ MaintenanceNext => today' \in 0..Horizon /\ keeper' \in [Keepers -> KeeperJobs]
<1> SUFFICES ASSUME MaintenanceInv, MaintenanceNext
             PROVE  today' \in 0..Horizon /\ keeper' \in [Keepers -> KeeperJobs]
  OBVIOUS
<1>1. /\ today \in 0..Horizon /\ keeper \in [Keepers -> KeeperJobs]
      /\ \A s \in Schedules : schedule[s].hours \in Nat /\ schedule[s].period \in Periods
      /\ Existing \subseteq Schedules
  BY DEF MaintenanceInv, MaintenanceTypeOK, ScheduleRows, Existing
<1>2. ASSUME NEW h \in Keepers, KeeperNext(h)
      PROVE  UNCHANGED today /\ keeper' \in [Keepers -> KeeperJobs]
  <2>1. CASE Leave(h)
    BY <1>1, <2>1 DEF Leave, KeeperJobs
  <2>2. ASSUME NEW job \in KeeperJobs, Enter(h, job)
        PROVE  UNCHANGED today /\ keeper' \in [Keepers -> KeeperJobs]
    BY <1>1, <2>2 DEF Enter
  <2>3. ASSUME NEW s \in Schedules, BeginComplete(h, s)
        PROVE  UNCHANGED today /\ keeper' \in [Keepers -> KeeperJobs]
    <3>1. [op |-> "complete", on |-> s, hours |-> schedule[s].hours,
           period |-> schedule[s].period] \in KeeperJobs
      BY <1>1 DEF KeeperJobs
    <3> QED BY <2>2, <2>3, <3>1 DEF BeginComplete
  <2>4. ASSUME NEW s \in Schedules, BeginDeactivate(h, s)
        PROVE  UNCHANGED today /\ keeper' \in [Keepers -> KeeperJobs]
    <3>1. [op |-> "deactivate", on |-> s] \in KeeperJobs
      BY DEF KeeperJobs
    <3> QED BY <2>2, <2>4, <3>1 DEF BeginDeactivate
  <2>5. ASSUME NEW s \in Schedules, NEW p \in Periods, BeginUpdate(h, s, p)
        PROVE  UNCHANGED today /\ keeper' \in [Keepers -> KeeperJobs]
    <3>1. [op |-> "update", on |-> s, period |-> p] \in KeeperJobs
      BY DEF KeeperJobs
    <3> QED BY <2>2, <2>5, <3>1 DEF BeginUpdate
  <2> QED BY <1>2, <2>1, <2>3, <2>4, <2>5
          DEF KeeperNext, CommitComplete, CommitDeactivate, CommitUpdate, AbandonKeeper
<1>3. CASE UNCHANGED <<today, keeper>>
  BY <1>1, <1>3
<1>4. CASE Midnight
  BY <1>1, <1>4, MaintenanceAssumption DEF Midnight
<1>5. ASSUME NEW s \in Schedules, ScheduleNext(s) PROVE UNCHANGED <<today, keeper>>
  BY <1>5 DEF ScheduleNext, CreateSchedule, CronGenerate, RecordRunHours, Reactivate
<1> QED BY <1>1, <1>2, <1>3, <1>4, <1>5 DEF MaintenanceNext, CompleteMaintenance

LEMMA MaintenanceStepInv == MaintenanceInv /\ [MaintenanceNext]_maintenanceVars => MaintenanceInv'
<1> SUFFICES ASSUME MaintenanceInv, [MaintenanceNext]_maintenanceVars PROVE MaintenanceInv'
  OBVIOUS
<1>1. WorkInv'
  BY WorkKept DEF MaintenanceInv
<1>2. CASE MaintenanceNext
  <2>1. CyclesAndSchedules
    BY <1>2, CyclesStep
  <2>2. today' \in 0..Horizon /\ keeper' \in [Keepers -> KeeperJobs]
    BY <1>2, KeepersTyped
  <2>3. MaintenanceTypeOK'
    BY <1>1, <2>1, <2>2 DEF MaintenanceTypeOK, WorkInv, CyclesAndSchedules, SchedulesKept
  <2> QED BY <1>1, <2>1, <2>3 DEF MaintenanceInv, CyclesAndSchedules
<1>3. CASE UNCHANGED maintenanceVars
  <2> USE <1>3 DEF maintenanceVars, workVars
  <2>1. MaintenanceTypeOK'
    BY <1>1 DEF MaintenanceTypeOK, WorkInv, MaintenanceInv
  <2>2. \A s \in Schedules : CyclesOf(s)' = CyclesOf(s)
    BY DEF CyclesOf, RequestsOf
  <2>3. CyclesOK'
    BY <2>2 DEF MaintenanceInv, CyclesOK, CyclesKnown, RuntimeCyclesReached, CyclesDistinct,
                Existing, Basis
  <2> QED BY <1>1, <2>1, <2>3 DEF MaintenanceInv
<1> QED BY <1>2, <1>3

LEMMA MaintenanceInitInv == MaintenanceInit => MaintenanceInv
<1> SUFFICES ASSUME MaintenanceInit PROVE MaintenanceInv
  OBVIOUS
<1>1. WorkInv
  BY WorkInitInv DEF MaintenanceInit
<1>2. (CHOOSE p \in Periods : TRUE) \in Periods
  BY MaintenanceAssumption
<1>3. MaintenanceTypeOK
  BY <1>1, <1>2, MaintenanceAssumption
     DEF MaintenanceTypeOK, MaintenanceInit, WorkInv, ScheduleRows, KeeperJobs
<1>4. \A s \in Schedules : CyclesOf(s) = {}
  BY DEF MaintenanceInit, CyclesOf, RequestsOf
<1>5. CyclesOK
  BY <1>4 DEF MaintenanceInit, CyclesOK, CyclesKnown, RuntimeCyclesReached, CyclesDistinct
<1> QED BY <1>1, <1>3, <1>5 DEF MaintenanceInv

(* The inductive invariant of maintenance, which no scheduling affects.    *)
THEOREM MaintenanceInvariance == MaintenanceSpec => []MaintenanceInv
BY MaintenanceInitInv, MaintenanceStepInv, PTL DEF MaintenanceSpec

(* The schedules, cycles and keepers keep their types.                     *)
THEOREM MaintenanceTypeCorrect == MaintenanceSpec => []MaintenanceTypeOK
<1>1. MaintenanceInv => MaintenanceTypeOK
  BY DEF MaintenanceInv
<1> QED BY MaintenanceInvariance, <1>1, PTL

(* A generated threshold is one that the meter has reached.                *)
THEOREM ThresholdsReached == MaintenanceSpec => []RuntimeCyclesReached
<1>1. MaintenanceInv => RuntimeCyclesReached
  BY DEF MaintenanceInv, CyclesOK
<1> QED BY MaintenanceInvariance, <1>1, PTL

(* A cycle of a schedule has one work request.                             *)
THEOREM OneRequestPerCycle == MaintenanceSpec => []CyclesDistinct
<1>1. MaintenanceInv => CyclesDistinct
  BY DEF MaintenanceInv, CyclesOK
<1> QED BY MaintenanceInvariance, <1>1, PTL

(* A schedule is moved on by a completion, and by nothing else.            *)
THEOREM OnlyCompletionAdvances == MaintenanceSpec => CompletionOwnsAdvancement
<1> DEFINE ByCompletion(s) ==
             \/ \E r \in RequestsOf(s) : wr[r].status # "COMPLETED" /\ wr'[r].status = "COMPLETED"
             \/ \E h \in Keepers : keeper[h].op = "complete" /\ keeper[h].on = s
                                 /\ keeper'[h] = Idle
           Owned == \A s \in Existing : schedule'[s].due # schedule[s].due => ByCompletion(s)
<1>1. ASSUME MaintenanceInv, MaintenanceNext, NEW s \in Existing,
             schedule'[s].due # schedule[s].due
      PROVE  ByCompletion(s)
  <2>1. /\ schedule \in [Schedules -> ScheduleRows] /\ s \in Schedules
        /\ schedule[s].state # "absent" /\ keeper \in [Keepers -> KeeperJobs]
        /\ wr \in [WorkRequestIds -> WorkRequestRows]
    BY <1>1 DEF MaintenanceInv, MaintenanceTypeOK, WorkTypeOK, Existing
  <2>2. ASSUME NEW t \in Schedules, ScheduleNext(t) PROVE FALSE
    BY <1>1, <2>1, <2>2 DEF ScheduleNext, CreateSchedule, CronGenerate, RecordRunHours,
                            Reactivate, ScheduleRows
  <2>3. ASSUME NEW h \in Keepers, KeeperNext(h) PROVE ByCompletion(s)
    <3>1. CommitComplete(h)
      BY <1>1, <2>1, <2>3 DEF KeeperNext, BeginComplete, BeginDeactivate, CommitDeactivate,
                              BeginUpdate, CommitUpdate, AbandonKeeper, Enter, ScheduleRows
    <3>2. keeper[h].op = "complete" /\ keeper[h].on = s /\ keeper'[h] = Idle
      BY <1>1, <2>1, <3>1 DEF CommitComplete, Leave
    <3> QED BY <3>2
  <2>4. ASSUME NEW r \in WorkRequestIds, NEW u \in Users, NEW day \in 0..Horizon,
               CompleteMaintenance(r, u, day)
        PROVE  ByCompletion(s)
    <3>1. wr[r].schedule = s
      BY <1>1, <2>1, <2>4 DEF CompleteMaintenance
    <3>2. wr[r].status \in Underway /\ wr'[r].status = "COMPLETED"
      BY <2>1, <2>4 DEF CompleteMaintenance, CompleteWork, WorkRequestRows
    <3> QED BY <3>1, <3>2 DEF RequestsOf, Underway
  <2>5. schedule' # schedule
    BY <1>1
  <2> QED BY <1>1, <2>2, <2>3, <2>4, <2>5 DEF MaintenanceNext, Midnight
<1>2. MaintenanceInv /\ [MaintenanceNext]_maintenanceVars => [Owned]_maintenanceVars
  BY <1>1
<1>3. [][Owned]_maintenanceVars => CompletionOwnsAdvancement
  BY PTL DEF CompletionOwnsAdvancement
<1> QED BY MaintenanceInvariance, <1>2, <1>3, PTL DEF MaintenanceSpec
=============================================================================
