CONSTANTS
  NumNs = 2
  NumBlocks = 3
  NsOf <- MCNsOf
  Drafts = {}
  Prev <- MCPrev
  Nodes = {n1}
  Kinds = {request}
  Quotas <- MCTightQuotas
  Bpb <- MCBpb
  InactiveCap = 1
  PoolCapacity = 2
  MaxRefs = 2
SPECIFICATION Spec
PROPERTY HardCeiling
