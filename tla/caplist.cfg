SPECIFICATION FairSpec
CONSTANTS
  n1 = n1
  n2 = n2
  n3 = n3
  n4 = n4
  Sentinel = Sentinel
  Null = Null
  Harts = {1, 2}
  Calls <- AllCalls
  Nodes = {n1, n2, n3}
  InitList <- TwoCaps
INVARIANTS TypeOK EveryLiveNodeListed NextUnlessMet
PROPERTIES RefinesCapSeq OnlyHolderChangesLiveness LockFreeUnlessMet
CHECK_DEADLOCK FALSE
