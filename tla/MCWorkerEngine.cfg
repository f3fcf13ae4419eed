SPECIFICATION FairSpec
CONSTANTS
  call1 = call1
  call2 = call2
  call3 = call3
  idA = idA
  idB = idB
  NoReq = NoReq
  NoItem = NoItem
  Sentinel = Sentinel
  Ids <- MCIds
  Items <- MCItems
  IdOf <- MCIdOf
  PromptLen <- MCPromptLen
  MaxNew <- MCMaxNew
  Hint <- MCHint
  Roles <- MCRoles
  PullCost = 1
  BufReqs = 2
  BufTokens = 2
INVARIANTS
  NoDoubleWrite
  CountsExact
  NoStaleResult
  SlotsAreReturned
  StrandedAtMostOne
PROPERTIES
  ImplementsService
  EveryRequestAnswered
CHECK_DEADLOCK FALSE
