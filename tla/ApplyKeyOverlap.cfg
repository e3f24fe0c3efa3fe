CONSTANTS
  Request = {r1, r2}
  Key = {k1}
  Approval = {a1}
  Target = {t1}
  NoKey = NoKey
  NoApproval = NoApproval
  NoRequest = NoRequest
  NoTarget = NoTarget
  Faults = {}
  Overlap = TRUE
SPECIFICATION Spec
SYMMETRY Symmetry
CHECK_DEADLOCK FALSE
INVARIANT AppliedAtMostOnce
