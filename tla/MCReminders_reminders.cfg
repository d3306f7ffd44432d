CONSTANTS
  Jobs = {j1, j2}
  MaxDay = 2
  Leads = {1}
  RetryLimit = 2
  MaxSettlements = 1
  MaxChanges = 2
  MaxFaults = 2
SPECIFICATION RemindersSpec
SYMMETRY JobSymmetry
CONSTRAINT Bound
INVARIANTS RemindedOnce
PROPERTIES RemindsTheTruth
CHECK_DEADLOCK FALSE
