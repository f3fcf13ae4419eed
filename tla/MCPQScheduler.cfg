SPECIFICATION FairSpec
CONSTANTS
  r1 = r1
  r2 = r2
  m1 = m1
  NoRequest = NoRequest
  NoModel = NoModel
  Requests <- MCRequests
  Models <- MCModels
  Priority <- MCPriority
  ModelOf <- MCModelOf
  MaxCap = 2
  MaxSignals = 1
INVARIANTS
  OnePlace
  SuccessIsFinal
  NeverSleepsOnWork
PROPERTIES
  NeverOverCommits
  ServedUnlessPaused
