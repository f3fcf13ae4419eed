SPECIFICATION AllSpec
CONSTANTS
  LineMax = 8
  LineBase = 1
  QuotedLen <- MCQuotedLen
  Jobs <- MCJobs
  Segs <- MCSegs
  ToolJobs <- MCToolJobs
  Hosts <- MCHosts
  NoHost = NoHost
  IpOf <- MCIpOf
  PortOf <- MCPortOf
  Cap = 3
  KeyBytes = 1
  MaxTrouble = 2
INVARIANTS
  KeysAndPlan
  VerdictsAreTrue
PROPERTIES
  AdmittedFits
  BatchesExact
  ResolutionIsSound
  ToolsAgree
CHECK_DEADLOCK FALSE
