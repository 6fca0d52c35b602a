SPECIFICATION FairSpec
CONSTANTS
  Harts = {1, 2, 3}
  Tickets = 4
INVARIANTS TypeOK TicketsOut MutualExclusion
PROPERTIES ServedInOrder AcquireReturns
