CONSTANTS
  advancedWeek = advancedWeek
  advancedYear = advancedYear
  Products <- AllProducts
  Period <- Periods
  None = None
  MaxTime = 1
  MaxInFlight = 2
  MaxFaults = 1
SPECIFICATION Spec
INVARIANTS TypeOK PaidIsActive PaidFor
PROPERTIES LoadingEnds RestoreEnds
