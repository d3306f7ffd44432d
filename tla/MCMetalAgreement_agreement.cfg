CONSTANTS
  p1 = p1  p2 = p2  k1 = k1  k2 = k2  k3 = k3  w1 = w1  w2 = w2
  r1 = r1  r2 = r2  s1 = s1  s2 = s2
  NoPayment = NoPayment
  NoOrder = NoOrder
  MaxContributions = 2
  MaxMonth = 1
  MaxRate = 2
  Payments <- OnePayment
  OncePerMonth = TRUE
  EligibleFrom = 1
  AllowAfterEligibility = TRUE
  Keys <- TwoKeys
  Workers <- TwoWorkers
  MaxFaults = 1
  Receipts <- TwoReceipts
  Settlements <- TwoSettlements
  Grams <- GramsAtRate
  Quantities <- SomeQuantities
SPECIFICATION Spec
SYMMETRY Symmetry
CONSTRAINT Bound
INVARIANTS TypeOK OneUnresolvedCheckout OneProviderOrder OneSuccessPerMonth PendingCanBeConfirmed NeverOverdrawn ReportsAgree
PROPERTIES ImplementsLedger RowsStand
