SPECIFICATION Spec
CONSTANTS
  i1 = i1
  i2 = i2
  r1 = r1
  r2 = r2
  r3 = r3
  Instances <- MCInstances
  Requests <- MCRequests
  InstOf <- MCInstOf
  title = title
  search = search
  Steps <- MCSteps
  NoView = NoView
  NoRequest = NoRequest
  MaxLog = 4
SYMMETRY MCSymmetry
INVARIANTS TypeOK CopiesFaithful ReadModelCurrent NoConcurrencyError UndoneOnce AdvanceJustified
PROPERTIES LogGrowsCacheAdvances SerialSpec
