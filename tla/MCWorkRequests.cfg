\* One request of either kind, a crew of two and an officer, two calls in flight.
SPECIFICATION WorkSpec
CONSTANTS
  WorkRequestIds = {w1}
  Schedules = {s1}
  Crew = {u1, u2}
  Officers = {o1}
  Calls = {k1, k2}
  MaxTerms = 2
  NoSchedule = NoSchedule
  NoUser = NoUser
SYMMETRY MCSymmetry
INVARIANTS
  WorkedOnlyApproved
  OneLead
  CompletedByAssigned
PROPERTIES
  DecisionFinal
CHECK_DEADLOCK FALSE
