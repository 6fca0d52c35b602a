SPECIFICATION Spec
CONSTANTS
  Procs = {0, 1}
  Slots <- Even
  HartIds = {}
  NQuantum = 1
  NChannels = 2
  Boot <- ChannelBoot
  Words <- ChannelWords
  None = None
INVARIANTS OneOwner ReceiverFollowsCaps MessageReachesHolder ChildrenFollow
CHECK_DEADLOCK FALSE
