SPECIFICATION Spec
CONSTANTS
  Jobs = {j1, j2}
  RatePerMinute = 2
  HourlyLimit = 1
  DailyLimit = 1
  SlotLimit = 1
  Lease = 2
  HourLength = 1
  DayLength = 2
  MaxTime = 2
  MaxCrashes = 0
SYMMETRY Symmetry
INVARIANT SlotsRespected
