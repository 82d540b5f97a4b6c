SPECIFICATION Spec
CONSTANTS
  pack = pack
  e1 = e1
  e2 = e2
  j1 = j1
  j2 = j2
  Waits <- MCWaits
  Enquiries <- MCEnquiries
  Replies = Replies
  Jobs <- MCOneJob
  NoWait = NoWait
  NoTask = NoTask
  MaxProposals = 1
  MaxClicks = 2
  MaxCrashes = 1
PROPERTIES WithdrawnHasArrived
