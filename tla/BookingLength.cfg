CONSTANTS
  Hour = 2
  SlotStep = 1
  ViennaOffset = 1
  Request = {q1}
  Staff = {m1}
  Service = {s1}
  DefaultStaff = {m1}
  DefaultService = {s1}
  Schedules <- AllSchedules
  Durations = {1}
  SeanceLengths = {2}
  MaxEdits = 0
  Faults = {}
  Starts = {2, 3, 4, 5, 6}
SPECIFICATION Spec
SYMMETRY Symmetry
CHECK_DEADLOCK FALSE
INVARIANTS CreatedFits
