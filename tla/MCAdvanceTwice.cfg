\* A completion that is overwritten and made again.
SPECIFICATION MaintenanceSpec
CONSTANTS
  item = item
  WorkRequestIds = {w1}
  Schedules = {s1}
  Asset <- MCAsset
  Crew = {u1}
  Officers = {}
  Calls = {k1}
  Keepers = {}
  MaxTerms = 2
  Periods = {1, 2}
  Horizon = 2
  NoSchedule = NoSchedule
  NoUser = NoUser
  NoCycle = NoCycle
PROPERTIES
  AdvancesOnce
CHECK_DEADLOCK FALSE
