\* One account, one request, one session, two sockets and a notification.
SPECIFICATION NotificationsSpec
CONSTANTS
  Users = {u1}
  Tokens = {t1}
  Resets = {x1}
  Roles = {admin, faculty}
  Administrator = admin
  Seeded = {u1}
  Requests = {q1}
  MaxFailed = 1
  MaxVersion = 1
  Sockets = {s1, s2}
  Notes = {n1}
  Workers = {w1}
  NoNote = NoNote
SYMMETRY Symmetry
INVARIANTS
  NotificationsTypeOK
  OpenIsRegistered
  ReceivedIsStored
CHECK_DEADLOCK FALSE
