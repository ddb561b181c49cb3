\* An event, two edits in flight, six moments on three days.
SPECIFICATION CalendarSpec
CONSTANTS
  Events = {e1}
  Editors = {q1, q2}
  Horizon = 5
  DayLength = 2
  Open = Open
  Unsent = Unsent
SYMMETRY Symmetry
INVARIANTS
  CalendarTypeOK
  EndsAfterStart
  AuditDescribesRow
  ListingFindsOverlaps
CHECK_DEADLOCK FALSE
