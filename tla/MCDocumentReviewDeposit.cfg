SPECIFICATION Spec
CONSTANTS
  con29 = con29
  e1 = e1
  title = title
  mortgage = mortgage
  Searches = {con29}
  Enquiries = {e1}
  Title = title
  Mortgage = mortgage
  MaxDocuments = 3
  MaxDrafts = 2
  MaxDecisions = 2
  MaxEscalations = 2
  MaxReopened = 1
INVARIANTS ReopenedDepositLocks
CHECK_DEADLOCK FALSE
