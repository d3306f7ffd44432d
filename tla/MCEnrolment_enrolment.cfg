CONSTANTS
  d1 = d1  c1 = c1
  Desks <- OneDesk
  Customers <- OneCustomer
  Terms <- SomeTerms
  FirstPlans <- LegacyOrNone
  MaxConfigurations = 2
  MaxPlans = 1
  MaxSaves = 5
  MaxRequests = 2
  MaxAgreements = 2
SPECIFICATION Spec
CONSTRAINT Bound
INVARIANTS
  AgreedIsRequested
PROPERTIES
  ClosedTakesNothingNew
CHECK_DEADLOCK FALSE
