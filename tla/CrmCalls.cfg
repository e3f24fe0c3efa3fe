CONSTANTS
  Call = {c1, c2, c3}
  MaxTokens = 1
  RefillTicks = 2
  TimeoutTicks = 3
  Faults = {"crmError", "dbError"}
SPECIFICATION FairSpec
INVARIANTS AtMostTwoBuckets BucketBalance
PROPERTIES EveryCallEnds
