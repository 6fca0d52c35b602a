SPECIFICATION Spec
CONSTANTS
  Procs = {0, 1}
  Slots <- Small
  HartIds = {1}
  NQuantum = 2
  NChannels = 0
  Boot <- OneHart
  Words <- TimeWords
  None = None
PROPERTY RevokeDeletesChildren
CHECK_DEADLOCK FALSE
