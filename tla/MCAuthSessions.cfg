\* One account, two concurrent requests, two sessions, two roles.
SPECIFICATION AuthSpec
CONSTANTS
  Users = {u1}
  Tokens = {t1, t2}
  Resets = {x1}
  Roles = {admin, faculty}
  Administrator = admin
  Seeded = {}
  Requests = {q1, q2}
  MaxFailed = 2
  MaxVersion = 2
SYMMETRY Symmetry
INVARIANTS
  SessionOfPassword
  LockedWhenExhausted
PROPERTIES
  EndedForGood
CHECK_DEADLOCK FALSE
