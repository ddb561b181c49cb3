\* One schedule of either basis, two work requests, a keeper, three days.
SPECIFICATION MaintenanceSpec
CONSTANTS
  item = item
  WorkRequestIds = {w1, w2}
  Schedules = {s1}
  Asset <- MCAsset
  Crew = {u1}
  Officers = {}
  Calls = {}
  Keepers = {h1}
  MaxTerms = 1
  Periods = {1, 2}
  Horizon = 2
  NoSchedule = NoSchedule
  NoUser = NoUser
  NoCycle = NoCycle
INVARIANTS
  MaintenanceTypeOK
  RuntimeCyclesReached
  CyclesDistinct
PROPERTIES
  CompletionOwnsAdvancement
  DueGenerated
CHECK_DEADLOCK FALSE
