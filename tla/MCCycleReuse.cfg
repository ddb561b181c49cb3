\* Work recorded on the day that leads back to the first cycle.
SPECIFICATION MaintenanceSpec
CONSTANTS
  item = item
  WorkRequestIds = {w1}
  Schedules = {s1}
  Asset <- MCAsset
  Crew = {u1}
  Officers = {}
  Calls = {}
  Keepers = {}
  MaxTerms = 1
  Periods = {1, 2}
  Horizon = 2
  NoSchedule = NoSchedule
  NoUser = NoUser
  NoCycle = NoCycle
PROPERTIES
  AdvancesToNewCycle
CHECK_DEADLOCK FALSE
