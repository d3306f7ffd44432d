CONSTANTS
  p1 = p1  p2 = p2  k1 = k1  k2 = k2  k3 = k3  w1 = w1  w2 = w2
  r1 = r1  r2 = r2  s1 = s1  s2 = s2
  NoPayment = NoPayment
  NoOrder = NoOrder
  MaxContributions = 2
  MaxMonth = 1
  MaxRate = 1
  Payments <- OnePayment
  OncePerMonth = FALSE
  EligibleFrom = 1
  AllowAfterEligibility = TRUE
  Keys <- OneKey
  Workers <- OneWorker
  MaxFaults = 0
  Receipts <- OneReceipt
  Settlements <- OneSettlement
  Grams <- GramsAtRate
  Quantities <- SomeQuantities
SPECIFICATION Spec
SYMMETRY Symmetry
INVARIANTS RedeemedIsSettled
