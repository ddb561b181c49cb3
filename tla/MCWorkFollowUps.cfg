\* One request, two workers, a call and two desks in flight.  An officer
\* writes nothing here that a worker or a requester (NoUser) does not.
SPECIFICATION FollowUpsSpec
CONSTANTS
  WorkRequestIds = {w1}
  Schedules = {s1}
  Crew = {u1, u2}
  Officers = {}
  Calls = {k1}
  Desks = {d1, d2}
  MaxTerms = 2
  MaxQuestions = 2
  NoSchedule = NoSchedule
  NoUser = NoUser
SYMMETRY MCSymmetry
INVARIANTS
  FollowUpsTypeOK
  RatedWasCompleted
  AssignmentsAnnounced
  WorkerDashboard
  QuestionsStayOpen
CHECK_DEADLOCK FALSE
