SPECIFICATION Spec
CONSTANTS
  Jobs = {j1, j2}
  RatePerMinute = 2
  HourlyLimit = 2
  DailyLimit = 3
  SlotLimit = 2
  Lease = 1
  HourLength = 1
  DayLength = 2
  MaxTime = 1
  MaxCrashes = 1
SYMMETRY Symmetry
INVARIANT ReservationsWithinLimit
INVARIANT CountersExact
INVARIANT SlotsGivenBack
INVARIANT SpillBounded
