------------------------- MODULE WorkRequestsProofs -------------------------
(***************************************************************************)
(* Proofs about WorkRequests: the type invariant, who may be assigned and  *)
(* when, and that decisions are final, for any requests, users and calls.  *)
(***************************************************************************)
EXTENDS WorkRequests, FiniteSetTheorems, TLAPS

\* An active assignment row is one of the rows there are.
DutyCounted ==
  \A r \in WorkRequestIds, u \in Users : duty[r][u] # "none" => terms[r][u] > 0

\* Calls that write to a request's row or staff it read it as approved.
CallsApproved ==
  \A k \in Calls : call[k].op \in {"assign", "unassign", "release", "progress", "report"} =>
                     wr[call[k].on].approval = "APPROVED"

\* A row that does not exist has not been reviewed.
AbsentUndecided ==
  \A r \in WorkRequestIds : wr[r].status = "none" => wr[r].approval = "PENDING"

RejectedHidden ==
  \A r \in WorkRequestIds :
    wr[r].approval = "REJECTED" => wr[r].status = "CANCELLED" /\ wr[r].live = FALSE

LeadsEqual == \A r \in WorkRequestIds : \A u, v \in Leads(r) : u = v

DecisionOK == WorkedOnlyApproved /\ CallsApproved /\ AbsentUndecided /\ RejectedHidden
StaffOK == CompletedByAssigned /\ DutyCounted /\ LeadsEqual

WorkInv == WorkTypeOK /\ DecisionOK /\ StaffOK

-----------------------------------------------------------------------------
(* What is known of a call in flight, by the handler it belongs to.        *)
LEMMA CallFields ==
  ASSUME WorkTypeOK, NEW k \in Calls
  PROVE  /\ call[k].op = "assign" =>
              /\ call[k].on \in WorkRequestIds /\ call[k].user \in Users
              /\ call[k].role \in Roles /\ call[k].pending \in BOOLEAN
         /\ call[k].op = "unassign" =>
              /\ call[k].on \in WorkRequestIds /\ call[k].user \in Users
              /\ call[k].term \in Nat /\ call[k].last \in BOOLEAN
         /\ call[k].op \in {"release", "remove"} => call[k].on \in WorkRequestIds
         /\ call[k].op \in {"progress", "report"} =>
              call[k].on \in WorkRequestIds /\ call[k].start \in BOOLEAN
<1>1. call[k] \in CallsInFlight
  BY DEF WorkTypeOK
<1> QED BY <1>1 DEF CallsInFlight, Idle

(* New assignments keep the tables well typed, count as rows, are never    *)
(* taken back, and leave at most one LEAD.                                 *)
LEMMA EngageEffect ==
  ASSUME WorkTypeOK, DutyCounted, LeadsEqual, NEW r \in WorkRequestIds,
         NEW team \in SUBSET Users, IsFiniteSet(team), NEW role \in Roles,
         Engage(r, team, role)
  PROVE  /\ terms' \in [WorkRequestIds -> [Users -> Nat]]
         /\ duty' \in [WorkRequestIds -> [Users -> Roles \cup {"none"}]]
         /\ \A q \in WorkRequestIds : \A u \in Users :
              /\ terms'[q][u] >= terms[q][u]
              /\ terms'[q][u] # terms[q][u] => q = r /\ u \in team
         /\ DutyCounted'
         /\ LeadsEqual'
<1>1. /\ terms' = [terms EXCEPT ![r] = [u \in Users |-> IF u \in team THEN @[u] + 1 ELSE @[u]]]
      /\ duty' = [duty EXCEPT ![r] = [u \in Users |-> IF u \in team THEN role ELSE @[u]]]
  BY DEF Engage
<1>2. /\ terms \in [WorkRequestIds -> [Users -> Nat]]
      /\ duty \in [WorkRequestIds -> [Users -> Roles \cup {"none"}]]
  BY DEF WorkTypeOK
<1>3. /\ terms' \in [WorkRequestIds -> [Users -> Nat]]
      /\ duty' \in [WorkRequestIds -> [Users -> Roles \cup {"none"}]]
  BY <1>1, <1>2
<1>4. \A q \in WorkRequestIds : \A u \in Users :
        /\ terms'[q][u] = IF q = r /\ u \in team THEN terms[q][u] + 1 ELSE terms[q][u]
        /\ duty'[q][u] = IF q = r /\ u \in team THEN role ELSE duty[q][u]
  BY <1>1, <1>2
<1>5. \A q \in WorkRequestIds : \A u \in Users :
        /\ terms'[q][u] >= terms[q][u]
        /\ terms'[q][u] # terms[q][u] => q = r /\ u \in team
  BY <1>2, <1>4
<1>6. DutyCounted'
  BY <1>2, <1>4 DEF DutyCounted
<1>7. LeadsEqual'
  <2>1. CASE role = "LEAD" /\ team # {}
    <3>1. Leads(r) = {} /\ Cardinality(team) = 1
      BY <2>1 DEF Engage
    <3>2. PICK x : team = {x}
      BY <3>1, FS_Singleton
    <3> QED BY <1>4, <3>1, <3>2 DEF LeadsEqual, Leads
  <2>2. CASE team = {}
    BY <1>4, <2>2 DEF LeadsEqual, Leads
  <2>3. CASE role = "MEMBER"
    BY <1>4, <2>3 DEF LeadsEqual, Leads
  <2> QED BY <2>1, <2>2, <2>3 DEF Roles
<1> QED BY <1>3, <1>5, <1>6, <1>7

-----------------------------------------------------------------------------
(* Every step of the work-request handlers, and every completion.          *)
WorkStep ==
  \/ HandlersNext
  \/ \E r \in WorkRequestIds, s \in Schedules \cup {NoSchedule} : CreateWorkRequest(r, s)
  \/ \E r \in WorkRequestIds, u \in Users : CompleteWork(r, u)

LEMMA RowEdits ==
  ASSUME NEW row \in WorkRequestRows, NEW live \in BOOLEAN
  PROVE  /\ [row EXCEPT !.live = live] \in WorkRequestRows
         /\ \A s \in Open \cup Closed :
              /\ [row EXCEPT !.status = s] \in WorkRequestRows
              /\ [row EXCEPT !.status = s, !.live = live] \in WorkRequestRows
              /\ \A u \in Users : [row EXCEPT !.status = s, !.performer = u] \in WorkRequestRows
         /\ \A s \in Open \cup Closed \cup {"none"} :
              [row EXCEPT !.approval = "APPROVED", !.status = s] \in WorkRequestRows
         /\ [row EXCEPT !.approval = "REJECTED", !.status = "CANCELLED", !.live = live]
              \in WorkRequestRows
BY DEF WorkRequestRows, Open, Closed

LEMMA RowsTyped == WorkTypeOK /\ WorkStep => wr' \in [WorkRequestIds -> WorkRequestRows]
<1> SUFFICES ASSUME WorkTypeOK, WorkStep PROVE wr' \in [WorkRequestIds -> WorkRequestRows]
  OBVIOUS
<1> USE DEF Open, Closed, Underway
<1>1. /\ wr \in [WorkRequestIds -> WorkRequestRows]
      /\ \A r \in WorkRequestIds : wr[r] \in WorkRequestRows
  BY DEF WorkTypeOK
<1>2. ASSUME NEW r \in WorkRequestIds, ReviewNext(r)
      PROVE  wr' \in [WorkRequestIds -> WorkRequestRows]
  <2>1. ASSUME NEW team \in SUBSET Crew, NEW role \in Roles, Approve(r, team, role)
        PROVE  wr' \in [WorkRequestIds -> WorkRequestRows]
    <3> DEFINE s == IF team = {} THEN wr[r].status ELSE "ASSIGNED"
    <3>1. s \in Open \cup Closed \cup {"none"}
      BY <1>1 DEF WorkRequestRows
    <3>2. [wr[r] EXCEPT !.approval = "APPROVED", !.status = s] \in WorkRequestRows
      BY <1>1, <3>1, RowEdits
    <3>3. wr' = [wr EXCEPT ![r] = [wr[r] EXCEPT !.approval = "APPROVED", !.status = s]]
      BY <2>1 DEF Approve
    <3> QED BY <1>1, <3>2, <3>3
  <2>2. CASE Reject(r)
    BY <1>1, <2>2, RowEdits DEF Reject
  <2> QED BY <1>2, <2>1, <2>2 DEF ReviewNext
<1>3. ASSUME NEW r \in WorkRequestIds, StaffNext(r)
      PROVE  wr' \in [WorkRequestIds -> WorkRequestRows]
  <2>1. CASE \E u \in Users : ProgressOnBehalf(r, u)
    <3>1. wr' = [wr EXCEPT ![r].status = "IN_PROGRESS"]
      BY <2>1 DEF ProgressOnBehalf, Move
    <3> QED BY <1>1, <3>1, RowEdits
  <2>2. CASE \E old \in Users, new \in Crew : Reassign(r, old, new)
    BY <1>1, <2>2 DEF Reassign
  <2>3. CASE Hold(r)
    BY <1>1, <2>3, RowEdits DEF Hold, Move
  <2>4. CASE Resume(r)
    BY <1>1, <2>4, RowEdits DEF Resume, Move
  <2>5. CASE Reopen(r)
    BY <1>1, <2>5, RowEdits DEF Reopen
  <2>6. CASE Cancel(r)
    BY <1>1, <2>6, RowEdits DEF Cancel
  <2> QED BY <1>3, <2>1, <2>2, <2>3, <2>4, <2>5, <2>6 DEF StaffNext
<1>4. ASSUME NEW k \in Calls, CallNext(k)
      PROVE  wr' \in [WorkRequestIds -> WorkRequestRows]
  <2>1. CASE CommitRemove(k)
    BY <1>1, <2>1, CallFields, RowEdits DEF CommitRemove
  <2>2. CASE CommitAssign(k)
    BY <1>1, <2>2, CallFields, RowEdits DEF CommitAssign
  <2>3. CASE ReleaseRequest(k)
    BY <1>1, <2>3, CallFields, RowEdits DEF ReleaseRequest
  <2>4. CASE CommitProgress(k)
    BY <1>1, <2>4, CallFields, RowEdits DEF CommitProgress
  <2>5. CASE UNCHANGED wr
    BY <1>1, <2>5
  <2> QED BY <1>4, <2>1, <2>2, <2>3, <2>4, <2>5
       DEF CallNext, BeginRemove, BeginAssign, BeginUnassign, CommitUnassign, BeginProgress,
           AuthorizeProgress, AbandonCall, Take
<1>5. ASSUME NEW r \in WorkRequestIds, NEW u \in Users, CompleteWork(r, u)
      PROVE  wr' \in [WorkRequestIds -> WorkRequestRows]
  BY <1>1, <1>5, RowEdits DEF CompleteWork
<1>6. ASSUME NEW r \in WorkRequestIds, NEW s \in Schedules \cup {NoSchedule}, CreateWorkRequest(r, s)
      PROVE  wr' \in [WorkRequestIds -> WorkRequestRows]
  BY <1>1, <1>6 DEF CreateWorkRequest, Pending, WorkRequestRows
<1> QED BY <1>2, <1>3, <1>4, <1>5, <1>6 DEF WorkStep, HandlersNext

LEMMA CallsTyped == WorkTypeOK /\ WorkStep => call' \in [Calls -> CallsInFlight]
<1> SUFFICES ASSUME WorkTypeOK, WorkStep PROVE call' \in [Calls -> CallsInFlight]
  OBVIOUS
<1>1. call \in [Calls -> CallsInFlight]
  BY DEF WorkTypeOK
<1>2. ASSUME NEW k \in Calls, CallNext(k)
      PROVE  call' \in [Calls -> CallsInFlight]
  <2>1. CASE Finish(k)
    BY <1>1, <2>1 DEF Finish, CallsInFlight
  <2>2. CASE \E r \in WorkRequestIds : BeginRemove(k, r)
    BY <1>1, <2>2 DEF BeginRemove, Take, CallsInFlight
  <2>3. CASE \E r \in WorkRequestIds, u \in Users, role \in Roles : BeginAssign(k, r, u, role)
    BY <1>1, <2>3 DEF BeginAssign, Take, CallsInFlight
  <2>4. CASE \E r \in WorkRequestIds, u \in Users : BeginUnassign(k, r, u)
    <3>1. PICK r \in WorkRequestIds, u \in Users : BeginUnassign(k, r, u)
      BY <2>4
    <3>2. terms[r][u] \in Nat
      BY DEF WorkTypeOK
    <3> QED BY <1>1, <3>1, <3>2 DEF BeginUnassign, Take, CallsInFlight
  <2>5. CASE CommitUnassign(k)
    BY <1>1, <2>5, CallFields DEF CommitUnassign, CallsInFlight
  <2>6. CASE \E r \in WorkRequestIds : BeginProgress(k, r)
    BY <1>1, <2>6 DEF BeginProgress, Take, CallsInFlight
  <2>7. CASE \E u \in Users : AuthorizeProgress(k, u)
    <3>1. call[k] \in CallsInFlight /\ call[k].op = "progress"
      BY <1>1, <2>7 DEF AuthorizeProgress
    <3>2. PICK r \in WorkRequestIds, s \in {call[k].start} :
            /\ call[k] = [op |-> "progress", on |-> r, start |-> s]
            /\ [op |-> "report", on |-> r, start |-> s] \in CallsInFlight
      BY <3>1 DEF CallsInFlight, Idle
    <3>3. [call[k] EXCEPT !.op = "report"] = [op |-> "report", on |-> r, start |-> s]
      BY <3>2
    <3> QED BY <1>1, <2>7, <3>2, <3>3 DEF AuthorizeProgress
  <2> QED BY <1>2, <2>1, <2>2, <2>3, <2>4, <2>5, <2>6, <2>7
       DEF CallNext, CommitRemove, CommitAssign, ReleaseRequest, CommitProgress, AbandonCall
<1>3. CASE UNCHANGED call
  BY <1>1, <1>3
<1> QED BY <1>2, <1>3
     DEF WorkStep, HandlersNext, ReviewNext, StaffNext, Approve, Reject, ProgressOnBehalf,
         Reassign, Hold, Resume, Reopen, Cancel, CompleteWork, CreateWorkRequest

-----------------------------------------------------------------------------
(* What a review leaves in a row, and what may follow it.                  *)

RowDecided(row) ==
  /\ row.status \in Underway \cup {"ON_HOLD", "COMPLETED"} => row.approval = "APPROVED"
  /\ row.status = "none" => row.approval = "PENDING"
  /\ row.approval = "REJECTED" => row.status = "CANCELLED" /\ row.live = FALSE

Follows(row, next) ==
  /\ row.approval # "PENDING" => next.approval = row.approval
  /\ row.approval = "REJECTED" => next = row
  /\ row.status # "none" => next.status # "none" /\ next.schedule = row.schedule

\* A row completed by this step names a user who is assigned to the request.
CompletedNow(r) ==
  wr'[r].status = "COMPLETED" =>
    \/ wr[r].status = "COMPLETED" /\ wr'[r].performer = wr[r].performer
    \/ wr'[r].performer \in Assigned(r)

RowStep(r) == RowDecided(wr'[r]) /\ Follows(wr[r], wr'[r]) /\ CompletedNow(r)

LEMMA RowsDecided == WorkInv => \A r \in WorkRequestIds : RowDecided(wr[r])
BY DEF WorkInv, DecisionOK, WorkedOnlyApproved, AbsentUndecided, RejectedHidden, RowDecided

(* A step changes one row, and leaves the others as decided as they were.  *)
LEMMA OneRow ==
  ASSUME WorkInv, NEW r \in WorkRequestIds, NEW row,
         wr' = [wr EXCEPT ![r] = row],
         RowDecided(row), Follows(wr[r], row),
         row.status = "COMPLETED" =>
           \/ wr[r].status = "COMPLETED" /\ row.performer = wr[r].performer
           \/ row.performer \in Assigned(r)
  PROVE  \A q \in WorkRequestIds : RowStep(q)
<1>1. wr \in [WorkRequestIds -> WorkRequestRows]
  BY DEF WorkInv, WorkTypeOK
<1>2. TAKE q \in WorkRequestIds
<1>3. CASE q = r
  BY <1>1, <1>3 DEF RowStep, CompletedNow
<1>4. CASE q # r
  BY <1>1, <1>4, RowsDecided DEF RowStep, CompletedNow, Follows
<1> QED BY <1>3, <1>4

LEMMA NoRow ==
  ASSUME WorkInv, UNCHANGED wr PROVE \A q \in WorkRequestIds : RowStep(q)
BY RowsDecided DEF RowStep, CompletedNow, Follows

LEMMA RowsStep == WorkInv /\ WorkStep => \A q \in WorkRequestIds : RowStep(q)
<1> SUFFICES ASSUME WorkInv, WorkStep PROVE \A q \in WorkRequestIds : RowStep(q)
  OBVIOUS
<1> USE DEF Underway, RowDecided, Follows
<1>1. \A r \in WorkRequestIds : wr[r] \in WorkRequestRows /\ RowDecided(wr[r])
  BY RowsDecided DEF WorkInv, WorkTypeOK
<1>2. ASSUME NEW r \in WorkRequestIds, ReviewNext(r)
      PROVE  \A q \in WorkRequestIds : RowStep(q)
  <2>1. ASSUME NEW team \in SUBSET Crew, NEW role \in Roles, Approve(r, team, role)
        PROVE  \A q \in WorkRequestIds : RowStep(q)
    <3> DEFINE row == [wr[r] EXCEPT !.approval = "APPROVED",
                                    !.status = IF team = {} THEN @ ELSE "ASSIGNED"]
    <3>1. wr' = [wr EXCEPT ![r] = row]
      BY <2>1 DEF Approve
    <3>2. wr[r].status = "PENDING" /\ wr[r].approval = "PENDING"
      BY <2>1 DEF Approve, Unreviewed
    <3>3. row.approval = "APPROVED" /\ row.status \in {"PENDING", "ASSIGNED"}
          /\ row.schedule = wr[r].schedule
      BY <1>1, <3>2 DEF WorkRequestRows
    <3> QED BY <3>1, <3>2, <3>3, OneRow
  <2>2. CASE Reject(r)
    <3> DEFINE row == [wr[r] EXCEPT !.approval = "REJECTED", !.status = "CANCELLED",
                                    !.live = FALSE]
    <3>1. wr' = [wr EXCEPT ![r] = row] /\ wr[r].approval = "PENDING"
      BY <2>2 DEF Reject, Unreviewed
    <3>2. /\ row.approval = "REJECTED" /\ row.status = "CANCELLED" /\ row.live = FALSE
          /\ row.schedule = wr[r].schedule
      BY <1>1 DEF WorkRequestRows
    <3> QED BY <3>1, <3>2, OneRow
  <2> QED BY <1>2, <2>1, <2>2 DEF ReviewNext
\* A row that is not rejected only changes its status.
<1>3. ASSUME NEW r \in WorkRequestIds, NEW s \in {"PENDING", "ASSIGNED", "IN_PROGRESS", "ON_HOLD"},
             wr' = [wr EXCEPT ![r].status = s], wr[r].approval = "APPROVED"
      PROVE  \A q \in WorkRequestIds : RowStep(q)
  <2> DEFINE row == [wr[r] EXCEPT !.status = s]
  <2>1. row.approval = "APPROVED" /\ row.status = s /\ row.schedule = wr[r].schedule
    BY <1>1, <1>3 DEF WorkRequestRows
  <2> QED BY <1>3, <2>1, OneRow
<1>4. ASSUME NEW r \in WorkRequestIds, StaffNext(r)
      PROVE  \A q \in WorkRequestIds : RowStep(q)
  <2>1. CASE \E u \in Users : ProgressOnBehalf(r, u)
    BY <1>1, <1>3, <2>1 DEF ProgressOnBehalf, Move
  <2>2. CASE \E old \in Users, new \in Crew : Reassign(r, old, new)
    BY <2>2, NoRow DEF Reassign
  <2>3. CASE Hold(r)
    BY <1>1, <1>3, <2>3 DEF Hold, Move
  <2>4. CASE Resume(r)
    BY <1>1, <1>3, <2>4 DEF Resume, Move
  <2>5. CASE Reopen(r)
    <3> DEFINE row == [wr[r] EXCEPT !.status = "IN_PROGRESS", !.live = TRUE]
    <3>1. wr' = [wr EXCEPT ![r] = row] /\ wr[r].status = "COMPLETED"
      BY <2>5 DEF Reopen
    <3>2. /\ row.approval = wr[r].approval /\ row.status = "IN_PROGRESS"
          /\ row.schedule = wr[r].schedule
      BY <1>1 DEF WorkRequestRows
    <3> QED BY <1>1, <3>1, <3>2, OneRow
  <2>6. CASE Cancel(r)
    <3> DEFINE row == [wr[r] EXCEPT !.status = "CANCELLED", !.live = FALSE]
    <3>1. wr' = [wr EXCEPT ![r] = row] /\ wr[r].status \in Underway \cup {"PENDING"}
      BY <2>6 DEF Cancel
    <3>2. /\ row.approval = wr[r].approval /\ row.status = "CANCELLED" /\ row.live = FALSE
          /\ row.schedule = wr[r].schedule
      BY <1>1 DEF WorkRequestRows
    <3> QED BY <1>1, <3>1, <3>2, OneRow
  <2> QED BY <1>4, <2>1, <2>2, <2>3, <2>4, <2>5, <2>6 DEF StaffNext
<1>5. ASSUME NEW k \in Calls, CallNext(k)
      PROVE  \A q \in WorkRequestIds : RowStep(q)
  <2> DEFINE r == call[k].on
  <2>1. CASE CommitRemove(k)
    <3> DEFINE row == [wr[r] EXCEPT !.live = FALSE]
    <3>1. wr' = [wr EXCEPT ![r] = row] /\ r \in WorkRequestIds
      BY <2>1, CallFields DEF CommitRemove, WorkInv
    <3>2. /\ row.approval = wr[r].approval /\ row.status = wr[r].status
          /\ row.performer = wr[r].performer /\ row.schedule = wr[r].schedule
          /\ row.live = FALSE
          /\ wr[r].live = FALSE => row = wr[r]
      BY <1>1, <3>1 DEF WorkRequestRows
    <3> HIDE DEF row, r
    <3> QED BY <1>1, <3>1, <3>2, OneRow
  <2>2. CASE CommitAssign(k)
    <3>1. r \in WorkRequestIds
      BY <2>2, CallFields DEF CommitAssign, WorkInv
    <3>2. CASE UNCHANGED wr
      BY <3>2, NoRow
    <3>3. CASE wr' = [wr EXCEPT ![r].status = "ASSIGNED"] /\ wr[r].approval = "APPROVED"
      BY <1>3, <3>1, <3>3
    <3> QED BY <2>2, <3>2, <3>3 DEF CommitAssign
  <2>3. CASE ReleaseRequest(k)
    <3>1. r \in WorkRequestIds /\ wr' = [wr EXCEPT ![r].status = "PENDING"]
      BY <2>3, CallFields DEF ReleaseRequest, WorkInv
    <3>2. wr[r].approval = "APPROVED"
      BY <2>3 DEF ReleaseRequest, WorkInv, DecisionOK, CallsApproved
    <3> QED BY <1>3, <3>1, <3>2
  <2>4. CASE CommitProgress(k)
    <3>1. r \in WorkRequestIds /\ wr[r].approval = "APPROVED"
      BY <1>1, <2>4, CallFields DEF CommitProgress, WorkInv
    <3>2. CASE UNCHANGED wr
      BY <3>2, NoRow
    <3>3. CASE wr' = [wr EXCEPT ![r].status = "IN_PROGRESS"]
      BY <1>3, <3>1, <3>3
    <3> QED BY <2>4, <3>2, <3>3 DEF CommitProgress
  <2>5. CASE UNCHANGED wr
    BY <2>5, NoRow
  <2> QED BY <1>5, <2>1, <2>2, <2>3, <2>4, <2>5
       DEF CallNext, BeginRemove, BeginAssign, BeginUnassign, CommitUnassign, BeginProgress,
           AuthorizeProgress, AbandonCall, Take
<1>6. ASSUME NEW r \in WorkRequestIds, NEW u \in Users, CompleteWork(r, u)
      PROVE  \A q \in WorkRequestIds : RowStep(q)
  <2> DEFINE row == [wr[r] EXCEPT !.status = "COMPLETED", !.performer = u]
  <2>1. wr' = [wr EXCEPT ![r] = row] /\ wr[r].approval = "APPROVED" /\ u \in Assigned(r)
    BY <1>1, <1>6 DEF CompleteWork
  <2>2. /\ row.approval = wr[r].approval /\ row.status = "COMPLETED" /\ row.performer = u
        /\ row.schedule = wr[r].schedule
    BY <1>1 DEF WorkRequestRows
  <2> QED BY <2>1, <2>2, OneRow
<1>7. ASSUME NEW r \in WorkRequestIds, NEW s \in Schedules \cup {NoSchedule}, CreateWorkRequest(r, s)
      PROVE  \A q \in WorkRequestIds : RowStep(q)
  <2>1. /\ wr' = [wr EXCEPT ![r] = Pending(s)]
        /\ wr[r].approval = "PENDING" /\ wr[r].status = "none"
    BY <1>1, <1>7 DEF CreateWorkRequest
  <2>2. Pending(s).approval = "PENDING" /\ Pending(s).status = "PENDING"
    BY DEF Pending
  <2> QED BY <2>1, <2>2, OneRow
<1> QED BY <1>2, <1>4, <1>5, <1>6, <1>7 DEF WorkStep, HandlersNext

-----------------------------------------------------------------------------
(* The assignment table: rows are only added, and only to approved         *)
(* requests; the active ones are counted, and one LEAD is among them.      *)

TablesStep ==
  /\ terms' \in [WorkRequestIds -> [Users -> Nat]]
  /\ duty' \in [WorkRequestIds -> [Users -> Roles \cup {"none"}]]
  /\ \A r \in WorkRequestIds, u \in Users :
       /\ terms'[r][u] >= terms[r][u]
       /\ terms'[r][u] # terms[r][u] => wr'[r].approval = "APPROVED"
  /\ DutyCounted'
  /\ LeadsEqual'

LEMMA TablesKept == WorkInv /\ WorkStep => TablesStep
<1> SUFFICES ASSUME WorkInv, WorkStep PROVE TablesStep
  OBVIOUS
<1>1. /\ WorkTypeOK /\ DutyCounted /\ LeadsEqual
      /\ terms \in [WorkRequestIds -> [Users -> Nat]]
      /\ duty \in [WorkRequestIds -> [Users -> Roles \cup {"none"}]]
  BY DEF WorkInv, StaffOK, WorkTypeOK
<1>2. ASSUME NEW r \in WorkRequestIds, NEW team \in SUBSET Users, IsFiniteSet(team),
             NEW role \in Roles, Engage(r, team, role), wr'[r].approval = "APPROVED"
      PROVE  TablesStep
  BY <1>1, <1>2, EngageEffect DEF TablesStep
<1>3. CASE UNCHANGED <<terms, duty>>
  BY <1>1, <1>3 DEF TablesStep, DutyCounted, LeadsEqual, Leads
<1>4. ASSUME NEW r \in WorkRequestIds, NEW team \in SUBSET Crew, NEW role \in Roles,
             Approve(r, team, role)
      PROVE  TablesStep
  <2>1. IsFiniteSet(team) /\ team \in SUBSET Users
    BY WorkAssumption, FS_Subset DEF Users
  <2>2. wr'[r].approval = "APPROVED"
    BY <1>1, <1>4 DEF Approve, WorkTypeOK, WorkRequestRows
  <2> QED BY <1>2, <1>4, <2>1, <2>2 DEF Approve
<1>5. ASSUME NEW r \in WorkRequestIds, NEW old \in Users, NEW new \in Crew, Reassign(r, old, new)
      PROVE  TablesStep
  <2>1. /\ terms' = [terms EXCEPT ![r][new] = @ + 1]
        /\ duty' = [duty EXCEPT ![r][old] = "none", ![r][new] = duty[r][old]]
        /\ duty[r][old] # "none" /\ duty[r][new] = "none"
        /\ new \in Users
    BY <1>5 DEF Reassign, Assigned, Users
  <2>2. \A q \in WorkRequestIds, u \in Users :
          /\ terms'[q][u] = IF q = r /\ u = new THEN terms[q][u] + 1 ELSE terms[q][u]
          /\ duty'[q][u] = IF q = r /\ u = new THEN duty[r][old]
                           ELSE IF q = r /\ u = old THEN "none" ELSE duty[q][u]
    BY <1>1, <2>1
  <2>3. /\ terms' \in [WorkRequestIds -> [Users -> Nat]]
        /\ duty' \in [WorkRequestIds -> [Users -> Roles \cup {"none"}]]
    BY <1>1, <2>1
  <2>4. wr' = wr /\ wr[r].approval = "APPROVED"
    BY <1>5, RowsDecided DEF Reassign, RowDecided, Underway
  <2>5. DutyCounted'
    BY <1>1, <2>2 DEF DutyCounted
  <2>6. LeadsEqual'
    BY <1>1, <2>1, <2>2 DEF LeadsEqual, Leads
  <2> QED BY <1>1, <2>2, <2>3, <2>4, <2>5, <2>6 DEF TablesStep
<1>6. ASSUME NEW k \in Calls, CommitAssign(k)
      PROVE  TablesStep
  <2>1. /\ call[k].on \in WorkRequestIds /\ call[k].user \in Users /\ call[k].role \in Roles
        /\ wr[call[k].on].approval = "APPROVED"
    BY <1>1, <1>6, CallFields DEF CommitAssign, WorkInv, DecisionOK, CallsApproved
  <2>2. wr'[call[k].on].approval = "APPROVED"
    BY <2>1, RowsStep DEF RowStep, Follows
  <2>3. IsFiniteSet({call[k].user})
    BY FS_Singleton
  <2> QED BY <1>2, <1>6, <2>1, <2>2, <2>3 DEF CommitAssign
<1>7. ASSUME NEW k \in Calls, CommitUnassign(k)
      PROVE  TablesStep
  <2>1. /\ duty' = [duty EXCEPT ![call[k].on][call[k].user] = "none"]
        /\ terms' = terms
    BY <1>7 DEF CommitUnassign
  <2>2. /\ duty' \in [WorkRequestIds -> [Users -> Roles \cup {"none"}]]
        /\ \A q \in WorkRequestIds, u \in Users : duty'[q][u] \in {"none", duty[q][u]}
    BY <1>1, <2>1
  <2>3. DutyCounted' /\ LeadsEqual'
    BY <1>1, <2>1, <2>2 DEF DutyCounted, LeadsEqual, Leads
  <2> QED BY <1>1, <2>1, <2>2, <2>3 DEF TablesStep
<1>8. ASSUME NEW k \in Calls, CallNext(k)
      PROVE  TablesStep
  BY <1>3, <1>6, <1>7, <1>8
  DEF CallNext, BeginRemove, CommitRemove, BeginAssign, BeginUnassign, ReleaseRequest,
      BeginProgress, AuthorizeProgress, CommitProgress, AbandonCall, Take
<1>9. ASSUME NEW r \in WorkRequestIds, StaffNext(r)
      PROVE  TablesStep
  BY <1>3, <1>5, <1>9
  DEF StaffNext, ProgressOnBehalf, Hold, Resume, Reopen, Cancel
<1>10. ASSUME NEW r \in WorkRequestIds, ReviewNext(r)
       PROVE  TablesStep
  BY <1>3, <1>4, <1>10 DEF ReviewNext, Reject
<1> QED BY <1>3, <1>8, <1>9, <1>10 DEF WorkStep, HandlersNext, CompleteWork, CreateWorkRequest

LEMMA CallsStay == WorkInv /\ WorkStep => CallsApproved'
<1> SUFFICES ASSUME WorkInv, WorkStep, NEW k \in Calls,
                    call'[k].op \in {"assign", "unassign", "release", "progress", "report"}
             PROVE  wr'[call'[k].on].approval = "APPROVED"
  BY DEF CallsApproved
<1> DEFINE Reads(c) == c.op \in {"assign", "unassign", "release", "progress", "report"} =>
                         c.on \in WorkRequestIds /\ wr[c.on].approval = "APPROVED"
<1>1. WorkTypeOK /\ Reads(call[k])
  BY CallFields DEF WorkInv, DecisionOK, CallsApproved
<1>2. \A r \in WorkRequestIds, u \in Users : duty[r][u] # "none" => wr[r].approval = "APPROVED"
  BY DEF WorkInv, DecisionOK, StaffOK, DutyCounted, WorkedOnlyApproved
<1>3. ASSUME NEW j \in Calls, CallNext(j) PROVE Reads(call'[k])
  <2>1. CASE j # k
    BY <1>1, <1>3, <2>1
    DEF CallNext, BeginRemove, CommitRemove, BeginAssign, CommitAssign, BeginUnassign,
        CommitUnassign, ReleaseRequest, BeginProgress, AuthorizeProgress, CommitProgress, AbandonCall,
        Take, Finish, WorkTypeOK
  <2>2. CASE j = k
    <3>1. CASE Finish(k)
      BY <1>1, <3>1 DEF Finish, Idle, WorkTypeOK
    <3>2. CASE \E r \in WorkRequestIds : BeginRemove(k, r)
      BY <1>1, <3>2 DEF BeginRemove, Take, WorkTypeOK
    <3>3. CASE \E r \in WorkRequestIds, u \in Users, role \in Roles : BeginAssign(k, r, u, role)
      BY <1>1, <3>3 DEF BeginAssign, Take, WorkTypeOK
    <3>4. CASE \E r \in WorkRequestIds, u \in Users : BeginUnassign(k, r, u)
      BY <1>1, <1>2, <3>4 DEF BeginUnassign, Take, WorkTypeOK
    <3>5. CASE CommitUnassign(k)
      BY <1>1, <3>5 DEF CommitUnassign, Idle, WorkTypeOK
    <3>6. CASE \E r \in WorkRequestIds : BeginProgress(k, r)
      BY <1>1, <3>6, RowsDecided DEF BeginProgress, Take, WorkTypeOK, RowDecided
    <3>7. CASE \E u \in Users : AuthorizeProgress(k, u)
      BY <1>1, <3>7, CallFields DEF AuthorizeProgress, WorkTypeOK
    <3> QED BY <1>3, <2>2, <3>1, <3>2, <3>3, <3>4, <3>5, <3>6, <3>7
         DEF CallNext, CommitRemove, CommitAssign, ReleaseRequest, CommitProgress, AbandonCall
  <2> QED BY <2>1, <2>2
<1>4. ASSUME UNCHANGED call PROVE Reads(call'[k])
  BY <1>1, <1>4
<1>5. Reads(call'[k])
  BY <1>3, <1>4
  DEF WorkStep, HandlersNext, ReviewNext, StaffNext, Approve, Reject, ProgressOnBehalf,
      Reassign, Hold, Resume, Reopen, Cancel, CompleteWork, CreateWorkRequest
<1> QED BY <1>5, RowsStep DEF RowStep, Follows

-----------------------------------------------------------------------------
LEMMA WorkInitInv == WorkInit => WorkInv
<1> SUFFICES ASSUME WorkInit PROVE WorkInv
  OBVIOUS
<1> USE DEF WorkInit
<1>1. WorkTypeOK
  BY DEF WorkTypeOK, WorkRequestRows, Pending, CallsInFlight, Roles
<1>2. DecisionOK
  BY DEF DecisionOK, WorkedOnlyApproved, CallsApproved, AbsentUndecided, RejectedHidden,
         Pending, Idle, Underway
<1>3. StaffOK
  BY DEF StaffOK, CompletedByAssigned, DutyCounted, LeadsEqual, Leads, Pending
<1> QED BY <1>1, <1>2, <1>3 DEF WorkInv

(* Every handler keeps the invariant.                                      *)
LEMMA WorkStepInv == WorkInv /\ WorkStep => WorkInv'
<1> SUFFICES ASSUME WorkInv, WorkStep PROVE WorkInv'
  OBVIOUS
<1>1. /\ \A r \in WorkRequestIds : RowStep(r)
      /\ TablesStep
      /\ CallsApproved'
  BY RowsStep, TablesKept, CallsStay
<1>2. WorkTypeOK'
  BY <1>1, RowsTyped, CallsTyped DEF WorkInv, WorkTypeOK, TablesStep
<1>3. AbsentUndecided' /\ RejectedHidden'
  BY <1>1 DEF AbsentUndecided, RejectedHidden, RowStep, RowDecided
<1>4. WorkedOnlyApproved'
  <2> SUFFICES ASSUME NEW r \in WorkRequestIds, wr'[r].approval # "APPROVED"
               PROVE  /\ wr'[r].status \notin Underway \cup {"ON_HOLD", "COMPLETED"}
                      /\ \A u \in Users : terms'[r][u] = 0
    BY DEF WorkedOnlyApproved
  <2>1. wr'[r].status \notin Underway \cup {"ON_HOLD", "COMPLETED"}
    BY <1>1 DEF RowStep, RowDecided
  <2>2. wr[r].approval # "APPROVED"
    BY <1>1 DEF RowStep, Follows
  <2>3. \A u \in Users : terms[r][u] = 0
    BY <2>2 DEF WorkInv, DecisionOK, WorkedOnlyApproved
  <2>4. \A u \in Users : terms'[r][u] = terms[r][u]
    BY <1>1 DEF TablesStep
  <2> QED BY <2>1, <2>3, <2>4
<1>5. CompletedByAssigned'
  <2> SUFFICES ASSUME NEW r \in WorkRequestIds, wr'[r].status = "COMPLETED"
               PROVE  wr'[r].performer # NoUser /\ terms'[r][wr'[r].performer] > 0
    BY DEF CompletedByAssigned
  <2> DEFINE u == wr'[r].performer
  <2>1. u # NoUser /\ terms[r][u] > 0
    <3>1. CASE wr[r].status = "COMPLETED" /\ u = wr[r].performer
      BY <3>1 DEF WorkInv, StaffOK, CompletedByAssigned
    <3>2. CASE u \in Assigned(r)
      BY <3>2, WorkAssumption DEF Assigned, Users, WorkInv, StaffOK, DutyCounted
    <3> QED BY <1>1, <3>1, <3>2 DEF RowStep, CompletedNow
  <2>2. u \in Users
    BY <1>2, <2>1 DEF WorkTypeOK, WorkRequestRows
  <2>3. terms[r][u] \in Nat /\ terms'[r][u] \in Nat /\ terms'[r][u] >= terms[r][u]
    BY <1>1, <2>2 DEF WorkInv, WorkTypeOK, TablesStep
  <2> QED BY <2>1, <2>3
<1> QED BY <1>1, <1>2, <1>3, <1>4, <1>5
     DEF WorkInv, DecisionOK, StaffOK, TablesStep

LEMMA WorkStutterInv == WorkInv /\ UNCHANGED workVars => WorkInv'
BY DEF WorkInv, workVars, WorkTypeOK, DecisionOK, WorkedOnlyApproved, CallsApproved,
       AbsentUndecided, RejectedHidden, StaffOK, CompletedByAssigned, DutyCounted,
       LeadsEqual, Leads

(* The inductive invariant of the work requests.                           *)
THEOREM WorkInvariance == WorkSpec => []WorkInv
<1>1. WorkInv /\ [RequestNext]_workVars => WorkInv'
  <2>1. RequestNext => WorkStep
    BY DEF RequestNext, WorkStep
  <2> QED BY <2>1, WorkStepInv, WorkStutterInv
<1> QED BY WorkInitInv, <1>1, PTL DEF WorkSpec

(* The work request, assignment and call tables keep their types.          *)
THEOREM WorkTypeCorrect == WorkSpec => []WorkTypeOK
<1>1. WorkInv => WorkTypeOK
  BY DEF WorkInv
<1> QED BY WorkInvariance, <1>1, PTL

(* Nobody is assigned to, and no work is done on, a request that is not    *)
(* approved, whatever the calls in flight read before.                     *)
THEOREM OnlyApprovedWorkedOn == WorkSpec => []WorkedOnlyApproved
<1>1. WorkInv => WorkedOnlyApproved
  BY DEF WorkInv, DecisionOK
<1> QED BY WorkInvariance, <1>1, PTL

(* A request has at most one active LEAD.                                  *)
THEOREM NeverTwoLeads == WorkSpec => []OneLead
<1>1. WorkInv => OneLead
  <2> SUFFICES ASSUME WorkInv, NEW r \in WorkRequestIds PROVE Cardinality(Leads(r)) <= 1
    BY DEF OneLead
  <2>1. CASE Leads(r) = {}
    BY <2>1, FS_EmptySet
  <2>2. CASE Leads(r) # {}
    <3>1. PICK u \in Leads(r) : TRUE
      BY <2>2
    <3>2. Leads(r) = {u}
      BY <3>1 DEF WorkInv, StaffOK, LeadsEqual
    <3> QED BY <3>2, FS_Singleton
  <2> QED BY <2>1, <2>2
<1> QED BY WorkInvariance, <1>1, PTL

(* The user on record for completed work had been assigned to it.          *)
THEOREM CompletedOnlyByAssigned == WorkSpec => []CompletedByAssigned
<1>1. WorkInv => CompletedByAssigned
  BY DEF WorkInv, StaffOK
<1> QED BY WorkInvariance, <1>1, PTL

(* No step revises a review or brings a rejected request back.             *)
THEOREM DecisionsAreFinal == WorkSpec => DecisionFinal
<1> DEFINE Final == \A r \in WorkRequestIds :
                      /\ wr[r].approval # "PENDING" => wr'[r].approval = wr[r].approval
                      /\ wr[r].approval = "REJECTED" => wr'[r] = wr[r]
<1>1. WorkInv /\ [RequestNext]_workVars => [Final]_workVars
  <2>1. ASSUME WorkInv, RequestNext PROVE Final
    <3>1. WorkStep
      BY <2>1 DEF RequestNext, WorkStep
    <3> QED BY <2>1, <3>1, RowsStep DEF RowStep, Follows
  <2> QED BY <2>1
<1> QED BY WorkInvariance, <1>1, PTL DEF WorkSpec, DecisionFinal
=============================================================================
