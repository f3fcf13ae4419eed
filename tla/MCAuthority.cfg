CONSTANTS
  NumNs = 2
  NumBlocks = 3
  NsOf <- MCNsOf
  Drafts = {}
  Prev <- MCPrev
  Nodes = {n1, n2}
  Kinds = {request, writeback}
  Quotas <- MCQuotas
  Bpb <- MCBpb
  InactiveCap = 1
  PoolCapacity = 2
  MaxRefs = 2
SPECIFICATION Spec
INVARIANTS
  UsedExact
  RefsAgree
PROPERTIES
  Frozen
  ReclaimOnlyBorrowed
SYMMETRY Symmetry
