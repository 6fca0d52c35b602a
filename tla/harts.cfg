SPECIFICATION FairRegsSpec
CONSTANTS
  h1 = h1
  h2 = h2
  p0 = p0
  p1 = p1
  p2 = p2
  NoProc = NoProc
  Harts = {h1, h2}
  Procs = {p0, p1, p2}
  Root = p0
  Channels = {0, 1}
  ServerChans = {0}
  Slots <- ServerOnOne
  Supervisees <- RootSupervises
  Receiver <- P1ServesP2Receives
  Callers <- P2CallsOthersSend
INVARIANTS TypeOK Exclusive WordTellsUser AssertUnlessTorn NoMutualWait
PROPERTIES ReplyToRequester FindsWhatItWasTold OneMessagePerWait SuspendTakesEffect
CHECK_DEADLOCK FALSE
