CONSTANTS
  Batch = {b1}
  Admin = Admin
  Answer <- Answers
  NoAnswer = NoAnswer
  Policy <- EveryPolicy
  MaxCalls = 2
  Faults = {"crash", "dbError", "netError", "refused"}
SPECIFICATION FairSpec
INVARIANTS HandOffIsHeld FailedBookingIsOpen ConfirmedIsAnswered
PROPERTY EveryBatchAnswered
CHECK_DEADLOCK FALSE
