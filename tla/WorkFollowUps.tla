--------------------------- MODULE WorkFollowUps ---------------------------
(***************************************************************************)
(* What WorkRequestsService keeps around a request besides its status: the *)
(* notifications of its assignments, the accomplishment record with the    *)
(* requester's rating, the questions of reviewers to the requester, and    *)
(* what a worker and an officer see.                                       *)
(*                                                                         *)
(* Asking for clarification, answering, and rating read the request and    *)
(* write later without looking at it again (READ COMMITTED); a desk is     *)
(* such a handler in flight.  acknowledgedAt and manuallyInformedAt of an  *)
(* assignment, which nothing reads, are left out.                          *)
(***************************************************************************)
EXTENDS WorkRequests

CONSTANTS
  Desks,        \* concurrent requests that ask, answer or rate
  MaxQuestions  \* bound: questions about one request

\* A user has one role.
ASSUME FollowUpsAssumption == Crew \cap Officers = {}

VARIABLES
  told,           \* assignment rows with a WORK_REQUEST_ASSIGNED notification
  accomplishment, \* per request, its WorkRequestAccomplishment row
  clarification,  \* per request, clarificationStatus
  dialogue,       \* history: per request, its questions and answers
  desk            \* per desk, the handler in flight

followVars == <<workVars, told, accomplishment, clarification, dialogue, desk>>

AssignmentRows == WorkRequestIds \X Users \X Nat

\* done: dateTimeCompleted is set
Accomplishments == [state : {"none", "started", "done"}, rated : BOOLEAN]

\* asked: how many questions; waiting: no answer that read the last one has
\* committed yet; crossed: and an answer was in flight when it was asked
Dialogues == [asked : Nat, waiting : BOOLEAN, crossed : BOOLEAN]

NoDialogue == [asked |-> 0, waiting |-> FALSE, crossed |-> FALSE]

\* to: the question the answer has read
DeskJobs ==
  {Idle} \cup [op : {"ask", "rate"}, on : WorkRequestIds]
         \cup [op : {"answer"}, on : WorkRequestIds, to : Nat]

FollowUpsTypeOK ==
  /\ WorkTypeOK
  /\ told \subseteq AssignmentRows
  /\ accomplishment \in [WorkRequestIds -> Accomplishments]
  /\ clarification \in [WorkRequestIds -> {"NONE", "REQUESTED", "RESPONDED"}]
  /\ dialogue \in [WorkRequestIds -> Dialogues]
  /\ desk \in [Desks -> DeskJobs]

FollowUpsInit ==
  /\ WorkInit
  /\ told = {}
  /\ accomplishment = [r \in WorkRequestIds |-> [state |-> "none", rated |-> FALSE]]
  /\ clarification = [r \in WorkRequestIds |-> "NONE"]
  /\ dialogue = [r \in WorkRequestIds |-> NoDialogue]
  /\ desk = [d \in Desks |-> Idle]

Questions == <<clarification, dialogue>>
KeepWork == UNCHANGED workVars

-----------------------------------------------------------------------------
(* The handlers of WorkRequests, with what they write besides. *)

\* Mutant: the notification is left to the caller, who may not get there.
AnnounceSometimes(r, team) ==
  \/ told' = told \cup {<<r, u, terms[r][u] + 1>> : u \in team}
  \/ UNCHANGED told

\* Mutant: counts the rows before it adds one.
AnnouncePrevious(r, team) == told' = told \cup {<<r, u, terms[r][u] - 1>> : u \in team}

\* createInTransaction, for each new assignment
Announce(r, team) == told' = told \cup {<<r, u, terms[r][u] + 1>> : u \in team}

StaffingStep ==
  /\ \/ \E r \in WorkRequestIds, team \in SUBSET Crew, role \in Roles :
          Approve(r, team, role) /\ Announce(r, team)
     \/ \E k \in Calls : CommitAssign(k) /\ Announce(call[k].on, {call[k].user})
     \/ \E r \in WorkRequestIds, old \in Users, new \in Crew :
          Reassign(r, old, new) /\ Announce(r, {new})
  /\ UNCHANGED <<accomplishment, Questions, desk>>

\* updateProgress keeps the record there is, or starts one.
ProgressStep ==
  /\ \E k \in Calls :
       LET r == call[k].on IN
       /\ CommitProgress(k)
       /\ \/ UNCHANGED accomplishment
          \/ /\ accomplishment[r].state = "none"
             /\ accomplishment' = [accomplishment EXCEPT ![r].state = "started"]
  /\ UNCHANGED <<told, Questions, desk>>

\* Mutant: only a request with some progress gets a record.
FinishRecordStarted(r) ==
  accomplishment' =
    [accomplishment EXCEPT ![r].state = IF @ = "none" THEN @ ELSE "done"]

\* completeAuthoritatively updates the record or creates it; a rating stays.
FinishRecord(r) == accomplishment' = [accomplishment EXCEPT ![r].state = "done"]

CompletionStep ==
  /\ \E r \in WorkRequestIds, u \in Users : CompleteWork(r, u) /\ FinishRecord(r)
  /\ UNCHANGED <<told, Questions, desk>>

OtherWorkStep ==
  /\ \/ \E r \in WorkRequestIds, s \in Schedules \cup {NoSchedule} : CreateWorkRequest(r, s)
     \/ \E r \in WorkRequestIds : Reject(r) \/ Hold(r) \/ Resume(r) \/ Reopen(r) \/ Cancel(r)
     \/ \E r \in WorkRequestIds, u \in Users : ProgressOnBehalf(r, u)
     \/ \E k \in Calls :
          \/ \E r \in WorkRequestIds, u \in Users, role \in Roles : BeginAssign(k, r, u, role)
          \/ \E r \in WorkRequestIds, u \in Users : BeginUnassign(k, r, u)
          \/ \E r \in WorkRequestIds : BeginRemove(k, r) \/ BeginProgress(k, r)
          \/ \E u \in Users : AuthorizeProgress(k, u)
          \/ CommitRemove(k) \/ CommitUnassign(k) \/ ReleaseRequest(k) \/ AbandonCall(k)
  /\ UNCHANGED <<told, accomplishment, Questions, desk>>

-----------------------------------------------------------------------------
TakeDesk(d, job) ==
  /\ desk[d] = Idle
  /\ desk' = [desk EXCEPT ![d] = job]
  /\ KeepWork /\ UNCHANGED <<told, accomplishment, Questions>>

FreeDesk(d) == desk' = [desk EXCEPT ![d] = Idle]

\* requestClarification, of a request with a requester; the row exists
BeginAsk(d, r) ==
  wr[r].status = "PENDING" /\ TakeDesk(d, [op |-> "ask", on |-> r])

Answering(r) == {d \in Desks : desk[d].op = "answer" /\ desk[d].on = r}

RecordQuestion(r) ==
  dialogue' = [dialogue EXCEPT ![r] = [asked |-> @.asked + 1, waiting |-> TRUE,
                                       crossed |-> Answering(r) # {}]]

RecordAnswer(r, n) ==
  dialogue' = IF n < dialogue[r].asked THEN dialogue
              ELSE [dialogue EXCEPT ![r] = [asked |-> n, waiting |-> FALSE, crossed |-> FALSE]]

\* Mutant: an answered request is not opened again.
CommitAskOnce(d) ==
  LET r == desk[d].on IN
  /\ desk[d].op = "ask"
  /\ dialogue[r].asked < MaxQuestions
  /\ clarification' = [clarification EXCEPT ![r] = IF @ = "NONE" THEN "REQUESTED" ELSE @]
  /\ RecordQuestion(r)
  /\ FreeDesk(d) /\ KeepWork /\ UNCHANGED <<told, accomplishment>>

CommitAsk(d) ==
  LET r == desk[d].on IN
  /\ desk[d].op = "ask"
  /\ dialogue[r].asked < MaxQuestions
  /\ clarification' = [clarification EXCEPT ![r] = "REQUESTED"]
  /\ RecordQuestion(r)
  /\ FreeDesk(d) /\ KeepWork /\ UNCHANGED <<told, accomplishment>>

\* respondClarification
BeginAnswer(d, r) ==
  /\ clarification[r] = "REQUESTED"
  /\ TakeDesk(d, [op |-> "answer", on |-> r, to |-> dialogue[r].asked])

CommitAnswer(d) ==
  LET r == desk[d].on IN
  /\ desk[d].op = "answer"
  /\ clarification' = [clarification EXCEPT ![r] = "RESPONDED"]
  /\ RecordAnswer(r, desk[d].to)
  /\ FreeDesk(d) /\ KeepWork /\ UNCHANGED <<told, accomplishment>>

\* complete, of a completed request: feedback by an officer or the requester
\* (NoUser: a user of neither kind), who is not assigned to it
BeginRate(d, r, u) ==
  /\ wr[r].status = "COMPLETED" /\ accomplishment[r].state # "none"
  /\ u \in Officers \cup {NoUser} /\ u \notin Assigned(r)
  /\ TakeDesk(d, [op |-> "rate", on |-> r])

CommitRate(d) ==
  /\ desk[d].op = "rate"
  /\ accomplishment' = [accomplishment EXCEPT ![desk[d].on].rated = TRUE]
  /\ FreeDesk(d) /\ KeepWork /\ UNCHANGED <<told, Questions>>

AbandonDesk(d) ==
  /\ desk[d] # Idle
  /\ FreeDesk(d) /\ KeepWork /\ UNCHANGED <<told, accomplishment, Questions>>

DeskNext(d) ==
  \/ \E r \in WorkRequestIds : BeginAsk(d, r) \/ BeginAnswer(d, r)
  \/ \E r \in WorkRequestIds, u \in Users \cup {NoUser} : BeginRate(d, r, u)
  \/ CommitAsk(d) \/ CommitAnswer(d) \/ CommitRate(d)
  \/ AbandonDesk(d)

FollowUpsNext ==
  \/ StaffingStep
  \/ ProgressStep
  \/ CompletionStep
  \/ OtherWorkStep
  \/ \E d \in Desks : DeskNext(d)

FollowUpsSpec == FollowUpsInit /\ [][FollowUpsNext]_followVars

-----------------------------------------------------------------------------
(* What a user sees. *)

Exists(r) == wr[r].status # "none"

\* Mutant: the assignments that have ended count.
ReadScopeOfFormer(u) ==
  IF u \in Officers THEN {r \in WorkRequestIds : Exists(r)}
                    ELSE {r \in WorkRequestIds : terms[r][u] > 0}

\* readScopeForUser, for an officer and for a worker
ReadScope(u) ==
  IF u \in Officers THEN {r \in WorkRequestIds : Exists(r)}
                    ELSE {r \in WorkRequestIds : u \in Assigned(r)}

\* statsForUser: what each count counts
Tiles(u) ==
  LET base == {r \in ReadScope(u) : wr[r].live}
      In(s) == {r \in base : wr[r].status = s}
  IN  [pendingApproval |-> {r \in In("PENDING") : wr[r].approval = "PENDING"},
       needsAssignment |-> {r \in In("PENDING") : wr[r].approval = "APPROVED" /\ Assigned(r) = {}},
       assigned        |-> {r \in In("ASSIGNED") : Assigned(r) # {}},
       inProgress      |-> In("IN_PROGRESS"),
       onHold          |-> In("ON_HOLD"),
       totalActive     |-> {r \in base : wr[r].status \in Open},
       ratedRequests   |-> {r \in base : accomplishment[r].rated}]

-----------------------------------------------------------------------------
(* A completed request has its completion record, so that the refusal of a *)
(* rating for the lack of one never happens, and only work that has been   *)
(* completed is rated, though the rating is written to a row read before.  *)
RatedWasCompleted ==
  \A r \in WorkRequestIds :
    wr[r].status = "COMPLETED" \/ accomplishment[r].rated => accomplishment[r].state = "done"

(* Every assignment is announced to its worker, by whichever of approval,  *)
(* assignment and reassignment it was made, and nothing else is.           *)
AssignmentsAnnounced ==
  /\ \A r \in WorkRequestIds, u \in Users : \A n \in 1..terms[r][u] : <<r, u, n>> \in told
  /\ \A row \in told : row[3] \in 1..terms[row[1]][row[2]]

(* "Operational users see only active assignments": nothing on a worker's  *)
(* dashboard waits for a review or for somebody to be assigned, whatever   *)
(* reviews, assignments and releases overlapped.                           *)
WorkerDashboard ==
  \A u \in Crew : Tiles(u).pendingApproval = {} /\ Tiles(u).needsAssignment = {}

(* A question is not lost: until an answer that read it commits, the       *)
(* request shows that it waits for one, however questions and answers of   *)
(* several users overlap.  The exception is a question that is asked while *)
(* an answer to the one before is in flight: neither handler looks at the  *)
(* request again, so that answer marks the new question as answered.       *)
QuestionsStayOpen ==
  \A r \in WorkRequestIds :
    dialogue[r].waiting /\ ~dialogue[r].crossed => clarification[r] = "REQUESTED"
=============================================================================
