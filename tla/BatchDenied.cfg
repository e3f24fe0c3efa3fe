CONSTANTS
  Batch = {b1}
  Admin = Admin
  Answer <- FewAnswers
  NoAnswer = NoAnswer
  Policy <- OpenPolicy
  MaxCalls = 2
  Faults = {}
SPECIFICATION Spec
INVARIANT ConfirmedIsBooked
CHECK_DEADLOCK FALSE
