SPECIFICATION FairSpec
CONSTANTS
  b1 = b1
  b2 = b2
  p1 = p1
  NoPlace = NoPlace
  Blocks <- MCBlocks
  Places <- MCOnePlace
  LogCap = 2
  RingCap = 2
  ChanCap = 1
  MaxSeq = 3
  MaxEpoch = 1
  MaxBreaks = 1
  Causes <- AllCauses
INVARIANTS
  StreamIsSound
  LogContiguous
PROPERTIES
  Converges
CHECK_DEADLOCK FALSE
