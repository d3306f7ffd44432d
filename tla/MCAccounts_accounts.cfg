CONSTANTS
  MaxUsers = 2
  MaxInvitations = 2
  MaxRegistrations = 2
  MaxOffers = 2
  MaxReissues = 1
  MaxAgreements = 1
  MaxRequests = 2
  MaxNotices = 2
SPECIFICATION Spec
CONSTRAINT Bound
INVARIANTS
  OneWorkingLink
  ApprovedAsConfirmed
  OutcomeIsOwed
PROPERTIES
  RemovedIsFinal
CHECK_DEADLOCK FALSE
