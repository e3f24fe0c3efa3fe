CONSTANTS
  Delivery = {1, 2, 3}
  Message = {1, 2}
  Conversation = {"c1"}
  MsgOf <- TwiceDelivered
  ConvOf <- OneChat
  Ided = {1}
  Copied <- Copies
  DebounceMs = 2
  QuietMs = 1
  MaxTotalMs = 3
  MaxBuffered = 3
  NoBuffer = NoBuffer
  Faults = {"crash", "dbError"}
SPECIFICATION FairSpec
CHECK_DEADLOCK FALSE
INVARIANTS OneTimerPerBuffer ClosesOnTime StoredOnce
PROPERTIES ImplementsHandOver EveryMessageHanded
