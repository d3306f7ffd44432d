CONSTANTS
  d1 = d1  d2 = d2
  Amount = 2
  MaxContributions = 2
  MaxRequests = 1
  MaxNotes = 1
  MaxDispositions = 2
  MaxDecisions = 2
  Desks <- TwoDesks
  Modes <- BothModes
  Invoices <- SomeInvoices
SPECIFICATION Spec
SYMMETRY Symmetry
CONSTRAINT Bound
INVARIANTS
  HistoriesValidate
  BenefitSpentOnce
  RefundsWithinCapture
PROPERTIES
  ImplementsDisposition
CHECK_DEADLOCK FALSE
