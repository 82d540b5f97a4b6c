SPECIFICATION MCSpec
CONSTANTS
  Rows = {1, 2, 3}
  Sweeps = {1, 2}
  BatchLimit = 2
  MaxLost = 1
  m1 = m1
  thread1 = thread1
  Messages = {m1}
  Conversations = {thread1}
  ConversationOf <- MCConversationOf
  Handlers = {1, 2}
  NoMessage = NoMessage
  PageSize = 1
  MaxNotices = 2
  MaxDropped = 2
  ann = ann
  bob = bob
  eve = eve
  invoice = invoice
  Accounts = {ann, bob, eve}
  Invoices = {invoice}
  PaidBy <- MCPaidBy
  NoAccount = NoAccount
  Processes = {1, 2}
INVARIANTS AroundTypeOK FiledOnce CreditedOnce OneReferrerPaid
PROPERTIES CancelledInTime DueSettles NothingMissed
CHECK_DEADLOCK FALSE
