SPECIFICATION MCSpec
CONSTANTS
  con29 = con29
  e1 = e1
  title = title
  mortgage = mortgage
  Searches = {con29}
  Enquiries = {e1}
  Title = title
  Mortgage = mortgage
  MaxDocuments = 3
  MaxDrafts = 2
  MaxDecisions = 2
  MaxEscalations = 2
  MaxReopened = 1
  purchase = purchase
  sale = sale
  d1 = d1
  d2 = d2
  Files = {purchase, sale}
  Sales = {sale}
  Dates = {d1, d2}
  NoFile = NoFile
  NoDate = NoDate
  MaxRequests = 2
  MaxHolds = 2
  MaxUpsets = 1
SYMMETRY MCDateSymmetry
INVARIANTS
  FilesTypeOK
  HeldUpIsAsked
  OneDesk
  JudgedAsReturned
  ReportAsApproved
  FullReportWent
  CompletesInOrder
  ExchangedTogether
  SameDay
PROPERTIES TogetherSpec
CHECK_DEADLOCK FALSE
