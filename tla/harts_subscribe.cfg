SPECIFICATION Spec
CONSTANTS
  h1 = h1
  h2 = h2
  p0 = p0
  p1 = p1
  p2 = p2
  NoProc = NoProc
  Harts = {h1, h2}
  Procs = {p0, p1, p2}
  Root = p0
  Channels = {0}
  ServerChans = {0}
  Slots <- AllSlots
  Supervisees <- RootSupervises
  Receiver <- P1Receives
  Callers <- BothCall
INVARIANT WaitingClientSubscribed
CHECK_DEADLOCK FALSE
