CONSTANTS
  Call = {c1, c2, c3}
  NoValue = NoValue
  TtlRows <- Shortened
  DefaultTtl = 2
  TtlRefresh = 2
  MaxEdits = 1
  MaxTtlEdits = 1
  MaxClock = 4
  Faults = {"dbError", "redisError"}
  Agent = {a1}
  NoAgent = NoAgent
  AgentOf <- OneAgent
  PerAgent = TRUE
  Rps = 1
  Rpm = 2
  Burst = 1
  Minute = 8
SPECIFICATION Spec
SYMMETRY Symmetry
INVARIANTS TypeOK BoundedStaleness AdmittedWithinRates RetryAfterIsEnough
CHECK_DEADLOCK FALSE
