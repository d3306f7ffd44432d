CONSTANTS
  p1 = p1  p2 = p2  e1 = e1  e2 = e2  v1 = v1  v2 = v2  w1 = w1  w2 = w2
  NoPayment = NoPayment
  NoEvent = NoEvent
  MaxContributions = 3
  BasePeriods = 3
  Required = 2
  MaxExtra = 1
  CheckoutTicks = 1
  MaxTime = 5
  Payments <- TwoPayments
  Events <- TwoEvents
  Deliveries <- TwoDeliveries
  Creators <- TwoRequests
  MaxFaults = 1
SPECIFICATION Spec
SYMMETRY Symmetry
CONSTRAINT Bound
INVARIANTS
  ScheduleIsHonoured
  LedgerHasIntegrity
  AnsweredIsAccountedFor
PROPERTIES
  NoOrderWhileBlocked
  ClaimsAreFinal
CHECK_DEADLOCK FALSE
