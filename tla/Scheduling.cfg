CONSTANTS
  m1 = m1
  m2 = m2
  Master = {m1, m2}
  NoMaster = NoMaster
  NoDay = NoDay
  Time = {1}
  Plan <- Plans
  Wish <- Wanted
  DefaultStaff = {m1}
  MAX_ALTERNATIVE_DAYS = 2
  MAX_ALTERNATIVE_SLOTS = 2
  MaxEdits = 2
  CallFaults = {"callFails"}
SPECIFICATION WishFairSpec
CHECK_DEADLOCK FALSE
INVARIANTS WishTypeOK WeekdayIsMeant OffersWereFree RefusalsWereTrue
PROPERTY EveryWishAnswered
