------------------------ MODULE WorkFollowUpsProofs ------------------------
(***************************************************************************)
(* Proofs about WorkFollowUps, for any requests, users, calls and desks.   *)
(* Every step is a step of the work requests or leaves their tables alone, *)
(* so that WorkInv, which WorkRequestsProofs shows, is kept; what is left  *)
(* to show is that the notifications follow the assignments, that a        *)
(* completion record, once done, stays done, and which question every      *)
(* answer in flight has read.                                              *)
(***************************************************************************)
EXTENDS WorkFollowUps, WorkRequestsProofs

TablesTyped ==
  /\ told \subseteq AssignmentRows
  /\ accomplishment \in [WorkRequestIds -> Accomplishments]
  /\ clarification \in [WorkRequestIds -> {"NONE", "REQUESTED", "RESPONDED"}]
  /\ dialogue \in [WorkRequestIds -> Dialogues]
  /\ desk \in [Desks -> DeskJobs]

\* A request that is to be rated has been completed, and one that is to be
\* answered has been asked about.
DesksReady ==
  \A d \in Desks :
    /\ desk[d].op = "rate" => accomplishment[desk[d].on].state = "done"
    /\ desk[d].op = "answer" => clarification[desk[d].on] # "NONE"

\* An answer in flight has read the last question, unless it crossed that
\* question or the question has been answered.
AnswersRead ==
  \A d \in Desks : desk[d].op = "answer" =>
    /\ desk[d].to <= dialogue[desk[d].on].asked
    /\ \/ desk[d].to = dialogue[desk[d].on].asked
       \/ ~dialogue[desk[d].on].waiting
       \/ dialogue[desk[d].on].crossed

FollowUpsOK ==
  /\ TablesTyped
  /\ AssignmentsAnnounced
  /\ RatedWasCompleted
  /\ DesksReady
  /\ AnswersRead
  /\ QuestionsStayOpen

FollowUpsInv == WorkInv /\ FollowUpsOK

-----------------------------------------------------------------------------
LEMMA FollowUpsStart == FollowUpsInit => FollowUpsInv
<1> SUFFICES ASSUME FollowUpsInit PROVE FollowUpsInv
  OBVIOUS
<1>1. WorkInv
  BY WorkInitInv DEF FollowUpsInit
<1>2. TablesTyped
  BY DEF FollowUpsInit, TablesTyped, Accomplishments, DeskJobs, Dialogues, NoDialogue
<1>3. AssignmentsAnnounced
  BY DEF FollowUpsInit, WorkInit, AssignmentsAnnounced
<1>4. RatedWasCompleted
  BY DEF FollowUpsInit, WorkInit, RatedWasCompleted, Pending
<1>5. DesksReady
  BY DEF FollowUpsInit, DesksReady, Idle
<1>6. AnswersRead /\ QuestionsStayOpen
  BY DEF FollowUpsInit, AnswersRead, QuestionsStayOpen, NoDialogue, Idle
<1> QED BY <1>1, <1>2, <1>3, <1>4, <1>5, <1>6 DEF FollowUpsInv, FollowUpsOK

(* Every step is one of the work requests, or does not touch their tables. *)
LEMMA FollowUpsWork == FollowUpsNext => WorkStep \/ UNCHANGED workVars
<1> SUFFICES ASSUME FollowUpsNext PROVE WorkStep \/ UNCHANGED workVars
  OBVIOUS
<1>1. CASE StaffingStep
  BY <1>1 DEF StaffingStep, WorkStep, HandlersNext, ReviewNext, StaffNext, CallNext
<1>2. CASE ProgressStep
  BY <1>2 DEF ProgressStep, WorkStep, HandlersNext, CallNext
<1>3. CASE CompletionStep
  BY <1>3 DEF CompletionStep, WorkStep
<1>4. CASE OtherWorkStep
  BY <1>4 DEF OtherWorkStep, WorkStep, HandlersNext, ReviewNext, StaffNext, CallNext
<1>5. CASE \E d \in Desks : DeskNext(d)
  BY <1>5 DEF DeskNext, BeginAsk, BeginAnswer, BeginRate, CommitAsk, CommitAnswer,
              CommitRate, AbandonDesk, TakeDesk, KeepWork
<1> QED BY <1>1, <1>2, <1>3, <1>4, <1>5 DEF FollowUpsNext

-----------------------------------------------------------------------------
(* Assignments and their notifications. *)

(* A team's new rows, with the notifications for them, leave no row out.   *)
LEMMA AnnouncedWithRows ==
  ASSUME FollowUpsInv, NEW r \in WorkRequestIds, NEW team \in SUBSET Users,
         \A q \in WorkRequestIds, u \in Users :
           terms'[q][u] = IF q = r /\ u \in team THEN terms[q][u] + 1 ELSE terms[q][u],
         Announce(r, team)
  PROVE  AssignmentsAnnounced' /\ told' \subseteq AssignmentRows
<1>1. /\ terms \in [WorkRequestIds -> [Users -> Nat]]
      /\ told \subseteq AssignmentRows /\ AssignmentsAnnounced
  BY DEF FollowUpsInv, FollowUpsOK, TablesTyped, WorkInv, WorkTypeOK
<1>2. told' = told \cup {<<r, u, terms[r][u] + 1>> : u \in team}
  BY DEF Announce
<1>3. told' \subseteq AssignmentRows
  BY <1>1, <1>2 DEF AssignmentRows
<1>4. ASSUME NEW q \in WorkRequestIds, NEW u \in Users, NEW n \in 1..terms'[q][u]
      PROVE  <<q, u, n>> \in told'
  <2>1. terms[q][u] \in Nat
    BY <1>1
  <2>2. CASE n \in 1..terms[q][u]
    BY <1>1, <1>2, <2>2 DEF AssignmentsAnnounced
  <2>3. CASE n \notin 1..terms[q][u]
    <3>1. q = r /\ u \in team /\ n = terms[r][u] + 1
      BY <2>1, <2>3
    <3> QED BY <1>2, <3>1
  <2> QED BY <2>2, <2>3
<1>5. ASSUME NEW row \in told'
      PROVE  row[3] \in 1..terms'[row[1]][row[2]]
  <2>1. CASE row \in told
    <3>1. row[1] \in WorkRequestIds /\ row[2] \in Users
      BY <1>1, <2>1 DEF AssignmentRows
    <3>2. row[3] \in 1..terms[row[1]][row[2]]
      BY <1>1, <2>1 DEF AssignmentsAnnounced
    <3>3. terms[row[1]][row[2]] \in Nat
      BY <1>1, <3>1
    <3> QED BY <3>1, <3>2, <3>3
  <2>2. CASE row \notin told
    <3>1. PICK u \in team : row = <<r, u, terms[r][u] + 1>>
      BY <1>2, <1>5, <2>2
    <3>2. terms[r][u] \in Nat /\ terms'[r][u] = terms[r][u] + 1
      BY <1>1, <3>1
    <3> QED BY <3>1, <3>2
  <2> QED BY <2>1, <2>2
<1> QED BY <1>3, <1>4, <1>5 DEF AssignmentsAnnounced

LEMMA StaffingAnnounces ==
  FollowUpsInv /\ StaffingStep => AssignmentsAnnounced' /\ told' \subseteq AssignmentRows
<1> SUFFICES ASSUME FollowUpsInv, StaffingStep
             PROVE  AssignmentsAnnounced' /\ told' \subseteq AssignmentRows
  OBVIOUS
<1>1. terms \in [WorkRequestIds -> [Users -> Nat]] /\ WorkTypeOK
  BY DEF FollowUpsInv, WorkInv, WorkTypeOK
<1>2. ASSUME NEW r \in WorkRequestIds, NEW team \in SUBSET Users, NEW role,
             Engage(r, team, role), Announce(r, team)
      PROVE  AssignmentsAnnounced' /\ told' \subseteq AssignmentRows
  <2>1. terms' = [terms EXCEPT ![r] = [u \in Users |-> IF u \in team THEN @[u] + 1 ELSE @[u]]]
    BY <1>2 DEF Engage
  <2>2. \A q \in WorkRequestIds, u \in Users :
          terms'[q][u] = IF q = r /\ u \in team THEN terms[q][u] + 1 ELSE terms[q][u]
    BY <1>1, <2>1
  <2> QED BY <1>2, <2>2, AnnouncedWithRows
<1>3. CASE \E r \in WorkRequestIds, team \in SUBSET Crew, role \in Roles :
             Approve(r, team, role) /\ Announce(r, team)
  <2>1. \A team \in SUBSET Crew : team \in SUBSET Users
    BY DEF Users
  <2> QED BY <1>2, <1>3, <2>1 DEF Approve
<1>4. CASE \E k \in Calls : CommitAssign(k) /\ Announce(call[k].on, {call[k].user})
  <2>1. PICK k \in Calls : CommitAssign(k) /\ Announce(call[k].on, {call[k].user})
    BY <1>4
  <2>2. call[k].on \in WorkRequestIds /\ {call[k].user} \in SUBSET Users
    BY <1>1, <2>1, CallFields DEF CommitAssign
  <2>3. Engage(call[k].on, {call[k].user}, call[k].role)
    BY <2>1 DEF CommitAssign
  <2> QED BY <1>2, <2>1, <2>2, <2>3
<1>5. CASE \E r \in WorkRequestIds, old \in Users, new \in Crew :
             Reassign(r, old, new) /\ Announce(r, {new})
  <2>1. PICK r \in WorkRequestIds, old \in Users, new \in Crew :
          Reassign(r, old, new) /\ Announce(r, {new})
    BY <1>5
  <2>2. terms' = [terms EXCEPT ![r][new] = @ + 1] /\ {new} \in SUBSET Users
    BY <2>1 DEF Reassign, Users
  <2>3. \A q \in WorkRequestIds, u \in Users :
          terms'[q][u] = IF q = r /\ u \in {new} THEN terms[q][u] + 1 ELSE terms[q][u]
    BY <1>1, <2>2
  <2> QED BY <2>1, <2>2, <2>3, AnnouncedWithRows
<1> QED BY <1>3, <1>4, <1>5 DEF StaffingStep

(* The other steps make no assignment and announce none.                   *)
LEMMA OthersAnnounceNothing ==
  FollowUpsNext => StaffingStep \/ UNCHANGED <<told, terms>>
<1> SUFFICES ASSUME FollowUpsNext PROVE StaffingStep \/ UNCHANGED <<told, terms>>
  OBVIOUS
<1>1. CASE ProgressStep
  BY <1>1 DEF ProgressStep, CommitProgress
<1>2. CASE CompletionStep
  BY <1>2 DEF CompletionStep, CompleteWork
<1>3. CASE OtherWorkStep
  BY <1>3 DEF OtherWorkStep, CreateWorkRequest, Reject, Hold, Resume, Reopen, Cancel,
              ProgressOnBehalf, BeginAssign, BeginUnassign, BeginProgress, AuthorizeProgress, BeginRemove, Take,
              CommitRemove, CommitUnassign, ReleaseRequest, AbandonCall
<1>4. CASE \E d \in Desks : DeskNext(d)
  BY <1>4 DEF DeskNext, BeginAsk, BeginAnswer, BeginRate, CommitAsk, CommitAnswer,
              CommitRate, AbandonDesk, TakeDesk, KeepWork, workVars
<1> QED BY <1>1, <1>2, <1>3, <1>4 DEF FollowUpsNext

-----------------------------------------------------------------------------
(* Completion records and desks. *)

(* Only a completion completes a request.                                  *)
LEMMA CompletedEarlier ==
  ASSUME FollowUpsInv, FollowUpsNext, ~CompletionStep, NEW r \in WorkRequestIds,
         wr'[r].status = "COMPLETED"
  PROVE  wr[r].status = "COMPLETED"
<1>1. wr \in [WorkRequestIds -> WorkRequestRows] /\ WorkTypeOK
  BY DEF FollowUpsInv, WorkInv, WorkTypeOK
<1>2. CASE UNCHANGED wr
  BY <1>2
<1>3. CASE StaffingStep
  <2>1. ASSUME NEW q \in WorkRequestIds, NEW team \in SUBSET Crew, NEW role \in Roles,
               Approve(q, team, role)
        PROVE  wr[r].status = "COMPLETED"
    BY <1>1, <2>1 DEF Approve, WorkRequestRows
  <2>2. ASSUME NEW k \in Calls, CommitAssign(k) PROVE wr[r].status = "COMPLETED"
    <3>1. call[k].on \in WorkRequestIds
      BY <1>1, <2>2, CallFields DEF CommitAssign
    <3> QED BY <1>1, <2>2, <3>1 DEF CommitAssign
  <2>3. ASSUME NEW q \in WorkRequestIds, NEW old \in Users, NEW new \in Crew,
               Reassign(q, old, new)
        PROVE  wr[r].status = "COMPLETED"
    BY <2>3 DEF Reassign
  <2> QED BY <1>3, <2>1, <2>2, <2>3 DEF StaffingStep
<1>4. CASE ProgressStep
  BY <1>1, <1>4, CallFields DEF ProgressStep, CommitProgress
<1>5. CASE OtherWorkStep
  <2>1. ASSUME NEW k \in Calls, CommitRemove(k) \/ ReleaseRequest(k)
        PROVE  wr[r].status = "COMPLETED"
    <3>1. call[k].on \in WorkRequestIds
      BY <1>1, <2>1, CallFields DEF CommitRemove, ReleaseRequest
    <3>2. \/ wr' = [wr EXCEPT ![call[k].on].live = FALSE]
          \/ wr' = [wr EXCEPT ![call[k].on].status = "PENDING"]
      BY <2>1 DEF CommitRemove, ReleaseRequest
    <3> QED BY <1>1, <3>1, <3>2 DEF WorkRequestRows
  <2>2. ASSUME NEW q \in WorkRequestIds, NEW u \in Users, ProgressOnBehalf(q, u)
        PROVE  wr[r].status = "COMPLETED"
    BY <1>1, <2>2 DEF ProgressOnBehalf, Move
  <2>3. ASSUME NEW q \in WorkRequestIds, NEW s \in Schedules \cup {NoSchedule},
               CreateWorkRequest(q, s)
        PROVE  wr[r].status = "COMPLETED"
    BY <1>1, <2>3 DEF CreateWorkRequest, Pending
  <2>4. ASSUME NEW q \in WorkRequestIds,
               Reject(q) \/ Hold(q) \/ Resume(q) \/ Reopen(q) \/ Cancel(q)
        PROVE  wr[r].status = "COMPLETED"
    <3>1. CASE Hold(q) \/ Resume(q)
      <4>1. \/ wr' = [wr EXCEPT ![q].status = "ON_HOLD"]
            \/ wr' = [wr EXCEPT ![q].status = "IN_PROGRESS"]
        BY <3>1 DEF Hold, Resume, Move
      <4> QED BY <1>1, <4>1 DEF WorkRequestRows
    <3>2. CASE Reject(q)
      BY <1>1, <3>2 DEF Reject
    <3>3. CASE Reopen(q)
      BY <1>1, <3>3 DEF Reopen
    <3>4. CASE Cancel(q)
      BY <1>1, <3>4 DEF Cancel
    <3> QED BY <2>4, <3>1, <3>2, <3>3, <3>4
  <2> QED BY <1>2, <1>5, <2>1, <2>2, <2>3, <2>4
       DEF OtherWorkStep, BeginAssign, BeginUnassign, BeginProgress, AuthorizeProgress, BeginRemove, Take,
           CommitUnassign, AbandonCall
<1>6. CASE \E d \in Desks : DeskNext(d)
  BY <1>2, <1>6 DEF DeskNext, BeginAsk, BeginAnswer, BeginRate, CommitAsk, CommitAnswer,
                    CommitRate, AbandonDesk, TakeDesk, KeepWork, workVars
<1> QED BY <1>3, <1>4, <1>5, <1>6 DEF FollowUpsNext

(* A step keeps what is done done, and rates only what is.                 *)
RecordsStep ==
  /\ accomplishment' \in [WorkRequestIds -> Accomplishments]
  /\ \A r \in WorkRequestIds :
       /\ accomplishment[r].state = "done" => accomplishment'[r].state = "done"
       /\ accomplishment'[r].rated /\ ~accomplishment[r].rated => accomplishment[r].state = "done"

(* What is known of a desk in flight.                                      *)
LEMMA DeskFields ==
  ASSUME FollowUpsInv, NEW d \in Desks
  PROVE  /\ desk[d] \in DeskJobs
         /\ desk[d].op \in {"ask", "answer", "rate"} => desk[d].on \in WorkRequestIds
<1>1. desk[d] \in DeskJobs
  BY DEF FollowUpsInv, FollowUpsOK, TablesTyped
<1> QED BY <1>1 DEF DeskJobs, Idle

LEMMA RecordsKept == FollowUpsInv /\ FollowUpsNext => RecordsStep
<1> SUFFICES ASSUME FollowUpsInv, FollowUpsNext PROVE RecordsStep
  OBVIOUS
<1>1. accomplishment \in [WorkRequestIds -> Accomplishments] /\ WorkTypeOK
  BY DEF FollowUpsInv, FollowUpsOK, TablesTyped, WorkInv
<1>2. CASE UNCHANGED accomplishment
  BY <1>1, <1>2 DEF RecordsStep
<1>3. CASE ProgressStep
  <2>1. PICK k \in Calls :
          /\ CommitProgress(k)
          /\ \/ UNCHANGED accomplishment
             \/ /\ accomplishment[call[k].on].state = "none"
                /\ accomplishment' = [accomplishment EXCEPT ![call[k].on].state = "started"]
    BY <1>3 DEF ProgressStep
  <2>2. call[k].on \in WorkRequestIds
    BY <1>1, <2>1, CallFields DEF CommitProgress
  <2> QED BY <1>1, <1>2, <2>1, <2>2 DEF RecordsStep, Accomplishments
<1>4. CASE CompletionStep
  <2>1. PICK r \in WorkRequestIds :
          accomplishment' = [accomplishment EXCEPT ![r].state = "done"]
    BY <1>4 DEF CompletionStep, FinishRecord
  <2> QED BY <1>1, <2>1 DEF RecordsStep, Accomplishments
<1>5. CASE \E d \in Desks : CommitRate(d)
  <2>1. PICK d \in Desks : CommitRate(d)
    BY <1>5
  <2>2. desk[d].on \in WorkRequestIds /\ accomplishment[desk[d].on].state = "done"
    BY <2>1, DeskFields DEF CommitRate, FollowUpsInv, FollowUpsOK, DesksReady
  <2>3. accomplishment' = [accomplishment EXCEPT ![desk[d].on].rated = TRUE]
    BY <2>1 DEF CommitRate
  <2> QED BY <1>1, <2>2, <2>3 DEF RecordsStep, Accomplishments
<1>6. FollowUpsNext => \/ UNCHANGED accomplishment \/ ProgressStep \/ CompletionStep
                       \/ \E d \in Desks : CommitRate(d)
  BY DEF FollowUpsNext, StaffingStep, OtherWorkStep, DeskNext,
         BeginAsk, BeginAnswer, BeginRate, CommitAsk, CommitAnswer, AbandonDesk, TakeDesk
<1> QED BY <1>2, <1>3, <1>4, <1>5, <1>6

(* A request that was asked about stays one.                               *)
LEMMA QuestionsKept ==
  FollowUpsInv /\ FollowUpsNext =>
    /\ clarification' \in [WorkRequestIds -> {"NONE", "REQUESTED", "RESPONDED"}]
    /\ \A r \in WorkRequestIds :
         clarification'[r] # clarification[r] =>
           \/ clarification'[r] = "REQUESTED"
           \/ clarification'[r] = "RESPONDED" /\ clarification[r] # "NONE"
<1> SUFFICES ASSUME FollowUpsInv, FollowUpsNext
             PROVE  /\ clarification' \in [WorkRequestIds -> {"NONE", "REQUESTED", "RESPONDED"}]
                    /\ \A r \in WorkRequestIds :
                         clarification'[r] # clarification[r] =>
                           \/ clarification'[r] = "REQUESTED"
                           \/ clarification'[r] = "RESPONDED" /\ clarification[r] # "NONE"
  OBVIOUS
<1>1. clarification \in [WorkRequestIds -> {"NONE", "REQUESTED", "RESPONDED"}]
  BY DEF FollowUpsInv, FollowUpsOK, TablesTyped
<1>2. CASE UNCHANGED clarification
  BY <1>1, <1>2
<1>3. ASSUME NEW d \in Desks, CommitAsk(d) \/ CommitAnswer(d)
      PROVE  /\ clarification' \in [WorkRequestIds -> {"NONE", "REQUESTED", "RESPONDED"}]
             /\ \A r \in WorkRequestIds :
                  clarification'[r] # clarification[r] =>
                    \/ clarification'[r] = "REQUESTED"
                    \/ clarification'[r] = "RESPONDED" /\ clarification[r] # "NONE"
  <2>1. desk[d].on \in WorkRequestIds
    BY <1>3, DeskFields DEF CommitAsk, CommitAnswer
  <2>2. CommitAnswer(d) => clarification[desk[d].on] # "NONE"
    BY DEF CommitAnswer, FollowUpsInv, FollowUpsOK, DesksReady
  <2> QED BY <1>1, <1>3, <2>1, <2>2 DEF CommitAsk, CommitAnswer
<1>4. FollowUpsNext =>
        UNCHANGED clarification \/ \E d \in Desks : CommitAsk(d) \/ CommitAnswer(d)
  BY DEF FollowUpsNext, StaffingStep, ProgressStep, CompletionStep, OtherWorkStep,
         DeskNext, Questions, BeginAsk, BeginAnswer, BeginRate, CommitRate, AbandonDesk,
         TakeDesk
<1> QED BY <1>2, <1>3, <1>4

-----------------------------------------------------------------------------
(* The invariant is inductive. *)

LEMMA RatingsKept == FollowUpsInv /\ FollowUpsNext => RatedWasCompleted'
<1> SUFFICES ASSUME FollowUpsInv, FollowUpsNext, NEW r \in WorkRequestIds,
                    wr'[r].status = "COMPLETED" \/ accomplishment'[r].rated
             PROVE  accomplishment'[r].state = "done"
  BY DEF RatedWasCompleted
<1>1. RecordsStep /\ RatedWasCompleted
  BY RecordsKept DEF FollowUpsInv, FollowUpsOK
<1>2. CASE accomplishment'[r].rated
  BY <1>1, <1>2 DEF RecordsStep, RatedWasCompleted
<1>3. CASE wr[r].status = "COMPLETED"
  BY <1>1, <1>3 DEF RecordsStep, RatedWasCompleted
<1>4. CASE wr'[r].status = "COMPLETED" /\ wr[r].status # "COMPLETED"
  <2>1. CompletionStep
    BY <1>4, CompletedEarlier
  <2>2. PICK q \in WorkRequestIds, u \in Users : CompleteWork(q, u) /\ FinishRecord(q)
    BY <2>1 DEF CompletionStep
  <2>3. wr' = [wr EXCEPT ![q].status = "COMPLETED", ![q].performer = u]
    BY <2>2 DEF CompleteWork
  <2>4. r = q
    BY <1>4, <2>3 DEF FollowUpsInv, WorkInv, WorkTypeOK
  <2>5. accomplishment \in [WorkRequestIds -> Accomplishments]
    BY DEF FollowUpsInv, FollowUpsOK, TablesTyped
  <2> QED BY <2>2, <2>4, <2>5 DEF FinishRecord, Accomplishments
<1> QED BY <1>2, <1>3, <1>4

LEMMA DesksKept ==
  FollowUpsInv /\ FollowUpsNext => DesksReady' /\ desk' \in [Desks -> DeskJobs]
<1> SUFFICES ASSUME FollowUpsInv, FollowUpsNext
             PROVE  DesksReady' /\ desk' \in [Desks -> DeskJobs]
  OBVIOUS
<1>1. desk \in [Desks -> DeskJobs] /\ DesksReady /\ RecordsStep /\ RatedWasCompleted
  BY RecordsKept DEF FollowUpsInv, FollowUpsOK, TablesTyped
<1> DEFINE Ready(job) ==
             /\ job.op = "rate" => accomplishment[job.on].state = "done"
             /\ job.op = "answer" => clarification[job.on] # "NONE"
<1>2. ASSUME NEW d \in Desks, NEW job \in DeskJobs, Ready(job),
             desk' = [desk EXCEPT ![d] = job]
      PROVE  desk' \in [Desks -> DeskJobs] /\ \A e \in Desks : Ready(desk'[e])
  BY <1>1, <1>2 DEF DesksReady
<1>3. Idle \in DeskJobs /\ Ready(Idle)
  BY DEF DeskJobs, Idle
<1>4. ASSUME NEW d \in Desks, DeskNext(d)
      PROVE  \E job \in DeskJobs : Ready(job) /\ desk' = [desk EXCEPT ![d] = job]
  <2>1. CASE FreeDesk(d)
    BY <1>3, <2>1 DEF FreeDesk
  <2>2. ASSUME NEW r \in WorkRequestIds, BeginAsk(d, r)
        PROVE  \E job \in DeskJobs : Ready(job) /\ desk' = [desk EXCEPT ![d] = job]
    BY <2>2 DEF BeginAsk, TakeDesk, DeskJobs
  <2>3. ASSUME NEW r \in WorkRequestIds, BeginAnswer(d, r)
        PROVE  \E job \in DeskJobs : Ready(job) /\ desk' = [desk EXCEPT ![d] = job]
    <3>1. dialogue[r].asked \in Nat
      BY DEF FollowUpsInv, FollowUpsOK, TablesTyped, Dialogues
    <3> QED BY <2>3, <3>1 DEF BeginAnswer, TakeDesk, DeskJobs
  <2>4. ASSUME NEW r \in WorkRequestIds, NEW u \in Users \cup {NoUser}, BeginRate(d, r, u)
        PROVE  \E job \in DeskJobs : Ready(job) /\ desk' = [desk EXCEPT ![d] = job]
    BY <1>1, <2>4 DEF BeginRate, TakeDesk, DeskJobs, RatedWasCompleted
  <2> QED BY <1>4, <2>1, <2>2, <2>3, <2>4
       DEF DeskNext, CommitAsk, CommitAnswer, CommitRate, AbandonDesk
<1>5. FollowUpsNext => UNCHANGED desk \/ \E d \in Desks : DeskNext(d)
  BY DEF FollowUpsNext, StaffingStep, ProgressStep, CompletionStep, OtherWorkStep
<1>6. desk' \in [Desks -> DeskJobs] /\ \A d \in Desks : Ready(desk'[d])
  <2>1. CASE UNCHANGED desk
    BY <1>1, <2>1 DEF DesksReady
  <2>2. CASE \E d \in Desks : DeskNext(d)
    BY <1>2, <1>4, <2>2
  <2> QED BY <1>5, <2>1, <2>2
<1>7. ASSUME NEW d \in Desks
      PROVE  /\ desk'[d].op = "rate" => accomplishment'[desk'[d].on].state = "done"
             /\ desk'[d].op = "answer" => clarification'[desk'[d].on] # "NONE"
  <2>1. desk'[d] \in DeskJobs /\ Ready(desk'[d])
    BY <1>6
  <2>2. desk'[d].op \in {"rate", "answer"} => desk'[d].on \in WorkRequestIds
    BY <2>1 DEF DeskJobs, Idle
  <2> QED BY <1>1, <2>1, <2>2, QuestionsKept DEF RecordsStep
<1> QED BY <1>6, <1>7 DEF DesksReady

(* Every step keeps the questions and the desks, takes or frees a desk, or *)
(* commits a question or an answer.                                        *)
LEMMA DialogueStep ==
  ASSUME FollowUpsNext
  PROVE  \/ UNCHANGED <<Questions, desk>>
         \/ \E d \in Desks : FreeDesk(d) /\ UNCHANGED Questions
         \/ \E d \in Desks, r \in WorkRequestIds :
              \/ TakeDesk(d, [op |-> "ask", on |-> r])
              \/ TakeDesk(d, [op |-> "rate", on |-> r])
              \/ BeginAnswer(d, r)
         \/ \E d \in Desks : CommitAsk(d) \/ CommitAnswer(d)
BY DEF FollowUpsNext, StaffingStep, ProgressStep, CompletionStep, OtherWorkStep, DeskNext,
       BeginAsk, BeginRate, CommitRate, AbandonDesk

DialoguesOK ==
  AnswersRead /\ QuestionsStayOpen /\ dialogue \in [WorkRequestIds -> Dialogues]

(* What every step keeps of the questions and of the answers in flight.    *)
LEMMA DialoguesKept == FollowUpsInv /\ FollowUpsNext => DialoguesOK'
<1> SUFFICES ASSUME FollowUpsInv, FollowUpsNext PROVE DialoguesOK'
  OBVIOUS
<1>1. /\ DialoguesOK /\ desk \in [Desks -> DeskJobs]
      /\ clarification \in [WorkRequestIds -> {"NONE", "REQUESTED", "RESPONDED"}]
  BY DEF FollowUpsInv, FollowUpsOK, TablesTyped, DialoguesOK
<1>2. \A d \in Desks : desk[d].op = "answer" => desk[d].on \in WorkRequestIds /\ desk[d].to \in Nat
  BY <1>1 DEF DeskJobs, Idle
<1>3. CASE UNCHANGED <<Questions, desk>>
  BY <1>1, <1>3 DEF Questions, DialoguesOK, AnswersRead, QuestionsStayOpen
<1>4. ASSUME NEW d \in Desks, FreeDesk(d), UNCHANGED Questions PROVE DialoguesOK'
  BY <1>1, <1>4 DEF FreeDesk, Idle, Questions, DialoguesOK, AnswersRead, QuestionsStayOpen
<1>5. ASSUME NEW d \in Desks, NEW r \in WorkRequestIds,
             \/ TakeDesk(d, [op |-> "ask", on |-> r])
             \/ TakeDesk(d, [op |-> "rate", on |-> r])
      PROVE  DialoguesOK'
  BY <1>1, <1>5 DEF TakeDesk, Questions, DialoguesOK, AnswersRead, QuestionsStayOpen
<1>6. ASSUME NEW d \in Desks, NEW r \in WorkRequestIds, BeginAnswer(d, r) PROVE DialoguesOK'
  <2>1. dialogue[r].asked \in Nat /\ UNCHANGED <<clarification, dialogue>>
    BY <1>1, <1>6 DEF DialoguesOK, Dialogues, BeginAnswer, TakeDesk, Questions
  <2>2. desk' = [desk EXCEPT ![d] = [op |-> "answer", on |-> r, to |-> dialogue[r].asked]]
    BY <1>6 DEF BeginAnswer, TakeDesk
  <2> QED BY <1>1, <2>1, <2>2 DEF DialoguesOK, AnswersRead, QuestionsStayOpen
<1>7. ASSUME NEW d \in Desks, CommitAsk(d) PROVE DialoguesOK'
  <2>1. PICK r \in WorkRequestIds : r = desk[d].on
    BY <1>7, DeskFields DEF CommitAsk
  <2>2. /\ clarification' = [clarification EXCEPT ![r] = "REQUESTED"]
        /\ dialogue' = [dialogue EXCEPT ![r] = [asked |-> dialogue[r].asked + 1, waiting |-> TRUE,
                                                crossed |-> Answering(r) # {}]]
        /\ desk' = [desk EXCEPT ![d] = Idle]
    BY <1>1, <1>7, <2>1 DEF CommitAsk, RecordQuestion, FreeDesk, DialoguesOK
  <2>3. dialogue[r].asked \in Nat /\ dialogue' \in [WorkRequestIds -> Dialogues]
    <3>1. dialogue[r].asked \in Nat /\ (Answering(r) # {}) \in BOOLEAN
      BY <1>1 DEF DialoguesOK, Dialogues
    <3> QED BY <1>1, <2>2, <3>1 DEF DialoguesOK, Dialogues
  <2>4. QuestionsStayOpen'
    BY <1>1, <2>2 DEF DialoguesOK, QuestionsStayOpen
  <2>5. ASSUME NEW e \in Desks, desk'[e].op = "answer"
        PROVE  /\ desk'[e].to <= dialogue'[desk'[e].on].asked
               /\ \/ desk'[e].to = dialogue'[desk'[e].on].asked
                  \/ ~dialogue'[desk'[e].on].waiting
                  \/ dialogue'[desk'[e].on].crossed
    <3>1. desk'[e] = desk[e]
      BY <1>1, <2>2, <2>5 DEF Idle
    <3>2. CASE desk[e].on = r
      <4>1. e \in Answering(r)
        BY <2>5, <3>1, <3>2 DEF Answering
      <4>2. dialogue'[r].asked = dialogue[r].asked + 1 /\ dialogue'[r].crossed
        BY <1>1, <2>2, <4>1 DEF DialoguesOK
      <4>3. desk[e].to <= dialogue[r].asked /\ desk[e].to \in Nat
        BY <1>1, <1>2, <2>5, <3>1, <3>2 DEF DialoguesOK, AnswersRead
      <4> QED BY <2>3, <3>1, <3>2, <4>2, <4>3
    <3>3. CASE desk[e].on # r
      <4>1. dialogue'[desk[e].on] = dialogue[desk[e].on]
        BY <1>1, <1>2, <2>2, <2>5, <3>1, <3>3 DEF DialoguesOK
      <4> QED BY <1>1, <2>5, <3>1, <4>1 DEF DialoguesOK, AnswersRead
    <3> QED BY <3>2, <3>3
  <2> QED BY <2>3, <2>4, <2>5 DEF DialoguesOK, AnswersRead
<1>8. ASSUME NEW d \in Desks, CommitAnswer(d) PROVE DialoguesOK'
  <2>1. PICK r \in WorkRequestIds : r = desk[d].on
    BY <1>8, DeskFields DEF CommitAnswer
  <2>2. PICK n \in Nat : n = desk[d].to
    BY <1>2, <1>8 DEF CommitAnswer
  <2>3. /\ clarification' = [clarification EXCEPT ![r] = "RESPONDED"]
        /\ desk' = [desk EXCEPT ![d] = Idle]
        /\ desk[d].op = "answer"
        /\ RecordAnswer(r, n)
    BY <1>8, <2>1, <2>2 DEF CommitAnswer, FreeDesk
  <2>4. /\ dialogue[r].asked \in Nat /\ n <= dialogue[r].asked
        /\ n = dialogue[r].asked \/ ~dialogue[r].waiting \/ dialogue[r].crossed
    BY <1>1, <2>1, <2>2, <2>3 DEF DialoguesOK, AnswersRead, Dialogues
  <2>5. CASE n < dialogue[r].asked
    <3>1. dialogue' = dialogue /\ (~dialogue[r].waiting \/ dialogue[r].crossed)
      BY <2>3, <2>4, <2>5 DEF RecordAnswer
    <3> QED BY <1>1, <2>3, <3>1 DEF DialoguesOK, AnswersRead, QuestionsStayOpen, Idle
  <2>6. CASE n = dialogue[r].asked
    <3>1. dialogue' = [dialogue EXCEPT ![r] = [asked |-> n, waiting |-> FALSE, crossed |-> FALSE]]
      BY <2>3, <2>4, <2>6 DEF RecordAnswer
    <3>2. dialogue' \in [WorkRequestIds -> Dialogues]
      BY <1>1, <3>1 DEF DialoguesOK, Dialogues
    <3>3. QuestionsStayOpen'
      BY <1>1, <2>3, <3>1 DEF DialoguesOK, QuestionsStayOpen
    <3>4. \A q \in WorkRequestIds :
            /\ dialogue'[q].asked = dialogue[q].asked
            /\ q = r => ~dialogue'[q].waiting
            /\ q # r => dialogue'[q] = dialogue[q]
      BY <1>1, <2>6, <3>1 DEF DialoguesOK
    <3>5. AnswersRead'
      BY <1>1, <1>2, <2>3, <3>4 DEF DialoguesOK, AnswersRead, Idle
    <3> QED BY <3>2, <3>3, <3>5 DEF DialoguesOK
  <2> QED BY <2>4, <2>5, <2>6
<1> QED BY <1>3, <1>4, <1>5, <1>6, <1>7, <1>8, DialogueStep

LEMMA FollowUpsStep == FollowUpsInv /\ [FollowUpsNext]_followVars => FollowUpsInv'
<1> SUFFICES ASSUME FollowUpsInv, [FollowUpsNext]_followVars PROVE FollowUpsInv'
  OBVIOUS
<1>1. CASE FollowUpsNext
  <2>1. WorkInv'
    BY <1>1, FollowUpsWork, WorkStepInv, WorkStutterInv DEF FollowUpsInv
  <2>2. AssignmentsAnnounced' /\ told' \subseteq AssignmentRows
    <3>1. CASE StaffingStep
      BY <3>1, StaffingAnnounces
    <3>2. CASE UNCHANGED <<told, terms>>
      BY <3>2 DEF FollowUpsInv, FollowUpsOK, TablesTyped, AssignmentsAnnounced
    <3> QED BY <1>1, <3>1, <3>2, OthersAnnounceNothing
  <2>3. TablesTyped'
    BY <1>1, <2>2, RecordsKept, QuestionsKept, DesksKept, DialoguesKept
    DEF TablesTyped, RecordsStep, DialoguesOK
  <2> QED BY <1>1, <2>1, <2>2, <2>3, RatingsKept, DesksKept, DialoguesKept
       DEF FollowUpsInv, FollowUpsOK, DialoguesOK
<1>2. CASE UNCHANGED followVars
  <2>1. UNCHANGED workVars /\ WorkInv'
    BY <1>2, WorkStutterInv DEF followVars, FollowUpsInv
  <2> QED BY <1>2, <2>1
       DEF followVars, workVars, FollowUpsInv, FollowUpsOK, TablesTyped, AssignmentsAnnounced,
           RatedWasCompleted, DesksReady, AnswersRead, QuestionsStayOpen
<1> QED BY <1>1, <1>2

-----------------------------------------------------------------------------
(* The inductive invariant of the requests with what is kept around them.  *)
THEOREM FollowUpsInvariant == FollowUpsSpec => []FollowUpsInv
<1> QED BY FollowUpsStart, FollowUpsStep, PTL DEF FollowUpsSpec

(* The tables keep their types.                                            *)
THEOREM FollowUpsTypes == FollowUpsSpec => []FollowUpsTypeOK
<1>1. FollowUpsInv => FollowUpsTypeOK
  BY DEF FollowUpsInv, FollowUpsOK, TablesTyped, WorkInv, FollowUpsTypeOK
<1> QED BY FollowUpsInvariant, <1>1, PTL

(* Completed requests have a completion record, and only completed work is *)
(* rated.                                                                  *)
THEOREM RatingsAreOfCompletions == FollowUpsSpec => []RatedWasCompleted
<1>1. FollowUpsInv => RatedWasCompleted
  BY DEF FollowUpsInv, FollowUpsOK
<1> QED BY FollowUpsInvariant, <1>1, PTL

(* Every assignment ever made is announced, and nothing else is.           *)
THEOREM AssignmentsAreAnnounced == FollowUpsSpec => []AssignmentsAnnounced
<1>1. FollowUpsInv => AssignmentsAnnounced
  BY DEF FollowUpsInv, FollowUpsOK
<1> QED BY FollowUpsInvariant, <1>1, PTL

(* A worker's dashboard has nothing that waits for a review or for staff.  *)
THEOREM WorkersSeeReviewedWork == FollowUpsSpec => []WorkerDashboard
<1>1. FollowUpsInv => WorkerDashboard
  <2> SUFFICES ASSUME FollowUpsInv, NEW u \in Crew
               PROVE  Tiles(u).pendingApproval = {} /\ Tiles(u).needsAssignment = {}
    BY DEF WorkerDashboard
  <2>1. u \in Users /\ u \notin Officers
    BY FollowUpsAssumption DEF Users
  <2>2. \A r \in ReadScope(u) : r \in WorkRequestIds /\ u \in Assigned(r)
    BY <2>1 DEF ReadScope
  <2>3. \A r \in WorkRequestIds : u \in Assigned(r) => wr[r].approval = "APPROVED"
    BY <2>1 DEF FollowUpsInv, WorkInv, DecisionOK, StaffOK, WorkedOnlyApproved, DutyCounted,
                Assigned
  <2> QED BY <2>2, <2>3 DEF Tiles
<1> QED BY FollowUpsInvariant, <1>1, PTL

(* A request with a question that no answer has read shows that it waits,  *)
(* unless an answer crossed the question.                                  *)
THEOREM QuestionsNeverLost == FollowUpsSpec => []QuestionsStayOpen
<1>1. FollowUpsInv => QuestionsStayOpen
  BY DEF FollowUpsInv, FollowUpsOK
<1> QED BY FollowUpsInvariant, <1>1, PTL
=============================================================================
