SPECIFICATION FairSpec
CONSTANTS
  k1 = k1
  k2 = k2
  c1 = c1
  c2 = c2
  Intents <- MCIntents
  Consumers <- MCConsumers
  MaxConcurrent = 1
  QueueSize = 1
  FinishedMax = 1
  MaxSubmits = 2
INVARIANTS
  NoDoubleRun
  GateBalanced
  NeverUnknown
PROPERTIES
  EveryIntentSettles
CHECK_DEADLOCK FALSE
