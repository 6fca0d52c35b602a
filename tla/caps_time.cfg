SPECIFICATION Spec
CONSTANTS
  Procs = {0, 1}
  Slots <- Even
  HartIds = {1, 2}
  NQuantum = 2
  NChannels = 0
  Boot <- SecondHart
  Words <- TimeAndPidWords
  None = None
INVARIANTS TypeOK OneOwner ScheduleFollowsCaps OwnerIsServed ChildrenFollow
CHECK_DEADLOCK FALSE
