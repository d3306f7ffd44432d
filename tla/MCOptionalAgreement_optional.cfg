CONSTANTS
  p1 = p1  p2 = p2  e1 = e1  e2 = e2  v1 = v1  v2 = v2  w1 = w1  w2 = w2  d1 = d1  d2 = d2
  NoPayment = NoPayment
  NoEvent = NoEvent
  MaxContributions = 2
  MaxFaults = 1
  MaxObservations = 2
  MayPause = TRUE
  Bodies = {"first"}
  Payments <- TwoPayments
  Events <- TwoEvents
  Deliveries <- TwoDeliveries
  Creators <- TwoRequests
  Desks <- TwoDesks
SPECIFICATION Spec
SYMMETRY Symmetry
CONSTRAINT Scenarios
INVARIANTS
  OneOutstandingCheckout
  AnsweredIsAccountedFor
  NeverCreditedAndResolved
  RetiredOrderHasNoMoney
PROPERTIES
  HandedWhileClear
CHECK_DEADLOCK FALSE
