SPECIFICATION Spec
CONSTANTS
  FreeRequests = 2
  MonthLength = 3
  Nothing = Nothing
  MaxDay = 3
  MaxFaults = 0
INVARIANT
  WeeklyPackage
