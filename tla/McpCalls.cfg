CONSTANTS
  Request = {r1, r2}
  OnTimeout = "NEED_HUMAN"
  TimerEnabled = TRUE
  Faults = {"crash", "dbError", "dbLost"}
SPECIFICATION FairSpec
CHECK_DEADLOCK FALSE
INVARIANTS AnswersAreRecorded AuditMatchesTool
PROPERTY EveryCallEnds
