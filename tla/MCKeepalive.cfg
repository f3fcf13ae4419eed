SPECIFICATION FairSpec
CONSTANTS
  p = p
  Prefixes <- MCPrefixes
  Window = 2
  LeaseTtl = 2
  Horizon = 4
  MaxFaults = 2
INVARIANTS
  LeaseLapses
  WindowHolds
PROPERTIES
  OnlyAbsentDropped
  EveryRowEnds
CHECK_DEADLOCK FALSE
