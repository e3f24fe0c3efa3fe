CONSTANTS
  Action = {a1, a2}
  NoAction = NoAction
  First = 2
  Repeat = 3
  MaxReminders = 2
  SlowTicks = 1
  MaxDeaths = 1
  Faults = {"crash", "dbError"}
SPECIFICATION FairSpec
INVARIANTS CountsAreSent RemindedInTime
PROPERTIES RemindersAreSpaced EveryActionIsBroughtUp
