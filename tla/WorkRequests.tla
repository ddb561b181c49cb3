---------------------------- MODULE WorkRequests ----------------------------
(***************************************************************************)
(* WorkRequestsService: a request for work is reviewed, staffed, worked    *)
(* on, held, completed, reopened or cancelled.                             *)
(*                                                                         *)
(* Handlers that claim the row with a conditional update, or that read and *)
(* write it in one SERIALIZABLE transaction, are one step.  The others     *)
(* decide on what they read earlier and are two steps or, for unassign and *)
(* updateProgress, three; a call is such a request with what it has read.  *)
(*                                                                         *)
(* An assignment row is <<r, u, n>>, the n-th assignment of user u to      *)
(* request r: a unique index lets a user have one active row per request,  *)
(* and terms[r][u] counts the rows, duty[r][u] is the role on the active   *)
(* one.  What progress, clarification and feedback say is left out.        *)
(***************************************************************************)
EXTENDS Integers, FiniteSets

CONSTANTS
  WorkRequestIds,
  Schedules,    \* MaintenanceSchedule ids
  Crew,         \* active CAMPUS_STAFF users with an active position
  Officers,     \* active users of a privileged role with an active position
  Calls,        \* concurrent requests to the handlers of several steps
  MaxTerms,     \* bound: assignments of one user to one request
  NoSchedule, NoUser

ASSUME WorkAssumption ==
  /\ NoSchedule \notin Schedules
  /\ NoUser \notin Crew \cup Officers
  /\ IsFiniteSet(Crew)
  /\ MaxTerms \in Nat

VARIABLES
  wr,       \* the WorkRequest table; status "none" while the row is absent
  terms,    \* per request and user, how many assignment rows there are
  duty,     \* per request and user, the role on the active row, or "none"
  call      \* per call, the request in flight with what it has read

workVars == <<wr, terms, duty, call>>

Users == Crew \cup Officers

Open == {"PENDING", "ASSIGNED", "IN_PROGRESS", "ON_HOLD"}
Closed == {"COMPLETED", "CANCELLED"}
Underway == {"ASSIGNED", "IN_PROGRESS"}
Roles == {"LEAD", "MEMBER"}

WorkRequestRows ==
  [status : Open \cup Closed \cup {"none"}, approval : {"PENDING", "APPROVED", "REJECTED"},
   live : BOOLEAN, schedule : Schedules \cup {NoSchedule}, performer : Users \cup {NoUser}]

Idle == [op |-> "idle"]

CallsInFlight ==
  {Idle} \cup [op : {"assign"}, on : WorkRequestIds, user : Users, role : Roles, pending : BOOLEAN]
         \cup [op : {"unassign"}, on : WorkRequestIds, user : Users, term : Nat, last : BOOLEAN]
         \cup [op : {"release", "remove"}, on : WorkRequestIds]
         \cup [op : {"progress", "report"}, on : WorkRequestIds, start : BOOLEAN]

WorkTypeOK ==
  /\ wr \in [WorkRequestIds -> WorkRequestRows]
  /\ terms \in [WorkRequestIds -> [Users -> Nat]]
  /\ duty \in [WorkRequestIds -> [Users -> Roles \cup {"none"}]]
  /\ call \in [Calls -> CallsInFlight]

Pending(s) == [status |-> "PENDING", approval |-> "PENDING", live |-> TRUE,
               schedule |-> s, performer |-> NoUser]

WorkInit ==
  /\ wr = [r \in WorkRequestIds |-> [Pending(NoSchedule) EXCEPT !.status = "none"]]
  /\ terms = [r \in WorkRequestIds |-> [u \in Users |-> 0]]
  /\ duty = [r \in WorkRequestIds |-> [u \in Users |-> "none"]]
  /\ call = [k \in Calls |-> Idle]

-----------------------------------------------------------------------------
(* The assignment table. *)

Assigned(r) == {u \in Users : duty[r][u] # "none"}
Leads(r) == {u \in Users : duty[r][u] = "LEAD"}

\* Mutant: no index on the active LEAD.
EngageTwoLeads(r, team, role) ==
  /\ team \cap Assigned(r) = {}
  /\ \A u \in team : terms[r][u] < MaxTerms
  /\ terms' = [terms EXCEPT ![r] = [u \in Users |-> IF u \in team THEN @[u] + 1 ELSE @[u]]]
  /\ duty' = [duty EXCEPT ![r] = [u \in Users |-> IF u \in team THEN role ELSE @[u]]]

\* New active rows on request r; the indexes allow one per user and one LEAD.
Engage(r, team, role) ==
  /\ team \cap Assigned(r) = {}
  /\ role = "LEAD" /\ team # {} => Leads(r) = {} /\ Cardinality(team) = 1
  /\ \A u \in team : terms[r][u] < MaxTerms
  /\ terms' = [terms EXCEPT ![r] = [u \in Users |-> IF u \in team THEN @[u] + 1 ELSE @[u]]]
  /\ duty' = [duty EXCEPT ![r] = [u \in Users |-> IF u \in team THEN role ELSE @[u]]]

\* authorizeOperationalActor
MayOperate(u, r) == u \in Officers \/ u \in Assigned(r)

Take(k, job) ==
  /\ call[k] = Idle
  /\ call' = [call EXCEPT ![k] = job]
  /\ UNCHANGED <<wr, terms, duty>>

Finish(k) == call' = [call EXCEPT ![k] = Idle]

Move(r, from, to) ==
  /\ wr[r].status \in from
  /\ wr' = [wr EXCEPT ![r].status = to]

-----------------------------------------------------------------------------
\* create and createWalkIn; a client may name the schedule the work is for
CreateWorkRequest(r, s) ==
  /\ wr[r].status = "none"
  /\ wr' = [wr EXCEPT ![r] = Pending(s)]
  /\ UNCHANGED <<terms, duty, call>>

\* Mutant: a review looks at the status only.
UnreviewedPending(r) == wr[r].status = "PENDING"

Unreviewed(r) == wr[r].status = "PENDING" /\ wr[r].approval = "PENDING"

(* approve.  A maintenance request is staffed in the same transaction:     *)
(* with the schedule's default assignee as LEAD when that user is eligible *)
(* and there is no LEAD, otherwise, when nobody is assigned yet, with the  *)
(* active users of the position configured for the asset type.             *)
Approve(r, team, role) ==
  /\ Unreviewed(r)
  /\ team # {} => /\ wr[r].schedule # NoSchedule
                  /\ role = "LEAD" \/ Assigned(r) = {}
  /\ Engage(r, team, role)
  /\ wr' = [wr EXCEPT ![r].approval = "APPROVED",
                      ![r].status = IF team = {} THEN @ ELSE "ASSIGNED"]
  /\ UNCHANGED call

Reject(r) ==
  /\ Unreviewed(r)
  /\ wr[r].schedule = NoSchedule
  /\ wr' = [wr EXCEPT ![r].approval = "REJECTED", ![r].status = "CANCELLED", ![r].live = FALSE]
  /\ UNCHANGED <<terms, duty, call>>

BeginRemove(k, r) ==
  /\ wr[r].status = "PENDING"
  /\ Take(k, [op |-> "remove", on |-> r])

CommitRemove(k) ==
  /\ call[k].op = "remove"
  /\ wr' = [wr EXCEPT ![call[k].on].live = FALSE]
  /\ Finish(k)
  /\ UNCHANGED <<terms, duty>>

BeginAssign(k, r, u, role) ==
  /\ wr[r].status \in {"PENDING"} \cup Underway
  /\ wr[r].approval = "APPROVED"
  /\ Take(k, [op |-> "assign", on |-> r, user |-> u, role |-> role,
              pending |-> wr[r].status = "PENDING"])

(* assign, its transaction: the row goes from PENDING to ASSIGNED, and has *)
(* to when it was read as PENDING; otherwise its status is not looked at.  *)
CommitAssign(k) ==
  LET r == call[k].on
      starts == wr[r].status = "PENDING" /\ wr[r].approval = "APPROVED"
  IN  /\ call[k].op = "assign"
      /\ call[k].pending => starts
      /\ Engage(r, {call[k].user}, call[k].role)
      /\ wr' = IF starts THEN [wr EXCEPT ![r].status = "ASSIGNED"] ELSE wr
      /\ Finish(k)

BeginUnassign(k, r, u) ==
  /\ wr[r].status \in Open
  /\ duty[r][u] # "none"
  /\ Take(k, [op |-> "unassign", on |-> r, user |-> u, term |-> terms[r][u],
              last |-> wr[r].status = "ASSIGNED" /\ Assigned(r) = {u}])

\* unassign, its transaction: the row is closed unless someone did already
CommitUnassign(k) ==
  LET r == call[k].on  u == call[k].user IN
  /\ call[k].op = "unassign"
  /\ duty[r][u] # "none" /\ terms[r][u] = call[k].term
  /\ duty' = [duty EXCEPT ![r][u] = "none"]
  /\ call' = [call EXCEPT ![k] = IF @.last THEN [op |-> "release", on |-> r] ELSE Idle]
  /\ UNCHANGED <<wr, terms>>

\* unassign, its last statement, when the row read was ASSIGNED to one user
ReleaseRequest(k) ==
  /\ call[k].op = "release"
  /\ wr' = [wr EXCEPT ![call[k].on].status = "PENDING"]
  /\ Finish(k)
  /\ UNCHANGED <<terms, duty>>

\* Some progress is made: the status the row was read with decides the next.
BeginProgress(k, r) ==
  /\ wr[r].status \in Underway
  /\ Take(k, [op |-> "progress", on |-> r, start |-> wr[r].status = "ASSIGNED"])

\* The check of the caller u and the claim are two statements (READ COMMITTED).
AuthorizeProgress(k, u) ==
  /\ call[k].op = "progress"
  /\ MayOperate(u, call[k].on)
  /\ call' = [call EXCEPT ![k].op = "report"]
  /\ UNCHANGED <<wr, terms, duty>>

CommitProgress(k) ==
  LET r == call[k].on IN
  /\ call[k].op = "report"
  /\ wr[r].status \in Underway
  /\ wr' = IF call[k].start THEN [wr EXCEPT ![r].status = "IN_PROGRESS"] ELSE wr
  /\ Finish(k)
  /\ UNCHANGED <<terms, duty>>

\* The call fails, or its process is lost, before its next statement.
AbandonCall(k) ==
  /\ call[k] # Idle
  /\ Finish(k)
  /\ UNCHANGED <<wr, terms, duty>>

-----------------------------------------------------------------------------
ProgressOnBehalf(r, u) ==
  /\ u \in Assigned(r)
  /\ Move(r, Underway, "IN_PROGRESS")
  /\ UNCHANGED <<terms, duty, call>>

\* Mutant: the performer need not be assigned.
CompleteWorkByAnyone(r, u) ==
  /\ wr[r].status \in Underway
  /\ wr' = [wr EXCEPT ![r].status = "COMPLETED", ![r].performer = u]
  /\ UNCHANGED <<terms, duty, call>>

(* completeAuthoritatively, for complete (u completes) and                 *)
(* completeOnBehalf (an officer records that u did the work).              *)
CompleteWork(r, u) ==
  /\ wr[r].status \in Underway
  /\ u \in Assigned(r)
  /\ wr' = [wr EXCEPT ![r].status = "COMPLETED", ![r].performer = u]
  /\ UNCHANGED <<terms, duty, call>>

\* The replacement takes over the role of the active row it closes.
Reassign(r, old, new) ==
  /\ wr[r].status \in Underway \cup {"ON_HOLD"}
  /\ old \in Assigned(r) /\ new \in Crew \ Assigned(r)
  /\ terms[r][new] < MaxTerms
  /\ terms' = [terms EXCEPT ![r][new] = @ + 1]
  /\ duty' = [duty EXCEPT ![r][old] = "none", ![r][new] = duty[r][old]]
  /\ UNCHANGED <<wr, call>>

Hold(r) == Move(r, Underway, "ON_HOLD") /\ UNCHANGED <<terms, duty, call>>

Resume(r) == Move(r, {"ON_HOLD"}, "IN_PROGRESS") /\ UNCHANGED <<terms, duty, call>>

Reopen(r) ==
  /\ wr[r].schedule = NoSchedule
  /\ wr[r].status = "COMPLETED"
  /\ wr' = [wr EXCEPT ![r].status = "IN_PROGRESS", ![r].live = TRUE]
  /\ UNCHANGED <<terms, duty, call>>

Cancel(r) ==
  /\ wr[r].status \in Underway \cup {"PENDING"}
  /\ wr' = [wr EXCEPT ![r].status = "CANCELLED", ![r].live = FALSE]
  /\ UNCHANGED <<terms, duty, call>>

-----------------------------------------------------------------------------
ReviewNext(r) ==
  \/ \E team \in SUBSET Crew, role \in Roles : Approve(r, team, role)
  \/ Reject(r)

StaffNext(r) ==
  \/ \E u \in Users : ProgressOnBehalf(r, u)
  \/ \E old \in Users, new \in Crew : Reassign(r, old, new)
  \/ Hold(r)
  \/ Resume(r)
  \/ Reopen(r)
  \/ Cancel(r)

CallNext(k) ==
  \/ \E r \in WorkRequestIds : BeginRemove(k, r)
  \/ CommitRemove(k)
  \/ \E r \in WorkRequestIds, u \in Users, role \in Roles : BeginAssign(k, r, u, role)
  \/ CommitAssign(k)
  \/ \E r \in WorkRequestIds, u \in Users : BeginUnassign(k, r, u)
  \/ CommitUnassign(k)
  \/ ReleaseRequest(k)
  \/ \E r \in WorkRequestIds : BeginProgress(k, r)
  \/ \E u \in Users : AuthorizeProgress(k, u)
  \/ CommitProgress(k)
  \/ AbandonCall(k)

\* The handlers that do not depend on the schedule a request is for.
HandlersNext ==
  \/ \E r \in WorkRequestIds : ReviewNext(r)
  \/ \E r \in WorkRequestIds : StaffNext(r)
  \/ \E k \in Calls : CallNext(k)
  \/ \E r \in WorkRequestIds, u \in Users :
       wr[r].schedule = NoSchedule /\ CompleteWork(r, u)

\* Everything but the completion of maintenance work (MaintenanceSchedules).
RequestNext ==
  \/ HandlersNext
  \/ \E r \in WorkRequestIds, s \in Schedules \cup {NoSchedule} : CreateWorkRequest(r, s)

WorkSpec == WorkInit /\ [][RequestNext]_workVars

-----------------------------------------------------------------------------
(* "Work request must be approved before staff can be assigned", and       *)
(* maintenance requests "are assigned only after approval": nobody is ever *)
(* assigned to, and no work is done on, a request that is not approved,    *)
(* whatever the handlers of several steps read before.                     *)
WorkedOnlyApproved ==
  \A r \in WorkRequestIds :
    \/ wr[r].approval = "APPROVED"
    \/ /\ wr[r].status \notin Underway \cup {"ON_HOLD", "COMPLETED"}
       /\ \A u \in Users : terms[r][u] = 0

(* A decision is final: no interleaving of reviews, edits and late writes  *)
(* revises it, and a rejected request stays cancelled and hidden.          *)
DecisionFinal ==
  [][\A r \in WorkRequestIds :
       /\ wr[r].approval # "PENDING" => wr'[r].approval = wr[r].approval
       /\ wr[r].approval = "REJECTED" => wr'[r] = wr[r]]_workVars

(* At most one active LEAD, across assignment, automatic assignment at     *)
(* approval and reassignment, which passes a role on.                      *)
OneLead == \A r \in WorkRequestIds : Cardinality(Leads(r)) <= 1

(* Whoever is on record for a completed request had been assigned to it,   *)
(* through reopening, reassignment and completion on behalf.               *)
CompletedByAssigned ==
  \A r \in WorkRequestIds :
    wr[r].status = "COMPLETED" =>
      wr[r].performer # NoUser /\ terms[r][wr[r].performer] > 0
=============================================================================
