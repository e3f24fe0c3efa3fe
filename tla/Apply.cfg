CONSTANTS
  Request = {r1, r2}
  Key = {k1}
  Approval = {a1, a2}
  Target = {t1, t2}
  NoKey = NoKey
  NoApproval = NoApproval
  NoRequest = NoRequest
  NoTarget = NoTarget
  Faults = {"crash", "lostReply", "reject", "dbError"}
  Overlap = TRUE
SPECIFICATION FairSpec
CHECK_DEADLOCK FALSE
INVARIANTS EffectsAreAuthorised StoredAnswerIsReal OkMeansApplied AliasHitsPlannedTarget
PROPERTIES ImplementsGuardedEffects PendingKeySettles
