SPECIFICATION FairSpec
CONSTANTS
  pack = pack
  e1 = e1
  e2 = e2
  j1 = j1
  j2 = j2
  Waits <- MCPack
  Enquiries <- MCNone
  Replies = Replies
  Jobs <- MCTwoJobs
  NoWait = NoWait
  NoTask = NoTask
  MaxProposals = 2
  MaxClicks = 2
  MaxCrashes = 1
INVARIANTS TypeOK OnePendingPerKey PendingIsOutstanding ApprovedWent
PROPERTIES OutstandingIsPut DecisionsSpec
