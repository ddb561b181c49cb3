\* Two administrators, and every way to make them lose that role.
SPECIFICATION AuthSpec
CONSTANTS
  Users = {u1, u2}
  Tokens = {}
  Resets = {}
  Roles = {admin, faculty}
  Administrator = admin
  Seeded = {u1, u2}
  Requests = {q1, q2}
  MaxFailed = 2
  MaxVersion = 2
INVARIANTS
  AdministratorRemains
CHECK_DEADLOCK FALSE
