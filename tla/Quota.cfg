SPECIFICATION Spec
CONSTANTS
  FreeRequests = 2
  MonthLength = 2
  Nothing = Nothing
  MaxDay = 2
  MaxFaults = 2
INVARIANTS
  TypeOK
  
  
