CONSTANTS
  NoValue = NoValue
  Grades = {g22}
  Closing = 2
  Quantum = 7
  Instalment = 7
  Percentage = 35
  Maturity = 2
  PostMaturity = TRUE
  MaxCash = 3
  MaxPayouts = 3
  Proposals <- MCProposals
  Selections = {1, 2, 3, 4, 6, 7}
  Bases = {"ANNIVERSARY", "CALENDAR_MONTH"}
  Starts <- MCStarts
  Required = {12}
  Misses <- MCMisses
  Controls <- MCControls
  Rates = {"NONE", "TODAY", "EARLIER"}
  Prices = {3, 4, 5, 13}
  MaxCredits = 3
  Percentages = {1, 12, 33, 50, 100}
SPECIFICATION Spec
INVARIANTS
  AgreedIsOperable
  DatesAreKept
  MoneyIsKept
CHECK_DEADLOCK FALSE
