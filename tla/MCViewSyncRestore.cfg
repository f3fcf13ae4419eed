SPECIFICATION Spec
CONSTANTS
  b1 = b1
  b2 = b2
  p1 = p1
  NoPlace = NoPlace
  Blocks <- MCBlocks
  Places <- MCOnePlace
  LogCap = 2
  RingCap = 2
  ChanCap = 1
  MaxSeq = 2
  MaxEpoch = 1
  MaxBreaks = 1
  Causes <- OnlyRestore
INVARIANT CaughtUpAgrees
CHECK_DEADLOCK FALSE
