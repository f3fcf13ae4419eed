SPECIFICATION RecoveryFairSpec
CONSTANTS
  a = a
  b = b
  Keys <- MCKeys
  MaxFaults = 2
INVARIANTS
  IssuedIsRecorded
  HandleIsSettled
  VerdictsAreTrue
PROPERTIES
  ConflictStaysFailed
  RestartSettles
  FlowEnds
  ShutdownEnds
CHECK_DEADLOCK FALSE
