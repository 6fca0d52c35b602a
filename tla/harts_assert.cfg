SPECIFICATION Spec
CONSTANTS
  h1 = h1
  h2 = h2
  p0 = p0
  p1 = p1
  p2 = p2
  NoProc = NoProc
  Harts = {h1, h2}
  Procs = {p0, p1}
  Root = p0
  Channels = {0}
  ServerChans = {}
  Slots <- AllSlots
  Supervisees <- RootSupervises
  Receiver <- P1Receives
  Callers <- RootCalls
INVARIANT ReleaseAssertHolds
CHECK_DEADLOCK FALSE
