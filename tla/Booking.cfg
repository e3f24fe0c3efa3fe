CONSTANTS
  Hour = 2
  SlotStep = 1
  ViennaOffset = 1
  Request = {q1, q2}
  Staff = {m1, m2}
  Service = {s1}
  DefaultStaff = {m1}
  DefaultService = {s1}
  Schedules <- TwoSchedules
  Durations = {3}
  SeanceLengths = {3}
  MaxEdits = 1
  Faults = {"crmError", "answerLost"}
  Starts = {4, 5}
SPECIFICATION Spec
SYMMETRY Symmetry
CHECK_DEADLOCK FALSE
INVARIANTS TypeOK CreatedBeside RefusedMadeNothing OfferHolds SomebodyIsFree CreatedFits
