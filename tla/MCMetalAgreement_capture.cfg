CONSTANTS
  p1 = p1  p2 = p2  k1 = k1  k2 = k2  k3 = k3  w1 = w1  w2 = w2
  r1 = r1  r2 = r2  s1 = s1  s2 = s2
  NoPayment = NoPayment
  NoOrder = NoOrder
  MaxContributions = 1
  MaxMonth = 0
  MaxRate = 1
  Payments <- TwoPayments
  OncePerMonth = TRUE
  EligibleFrom = 1
  AllowAfterEligibility = FALSE
  Keys <- OneKey
  Workers <- TwoWorkers
  MaxFaults = 2
  Receipts <- None
  Settlements <- None
  Grams <- GramsAtRate
  Quantities <- SomeQuantities
SPECIFICATION Spec
SYMMETRY Symmetry
INVARIANTS PaidIffAllocatedOnce CreditIsCaptured AcknowledgedIsAccountedFor
PROPERTIES OutcomeIsFinal EvidenceIsKept
