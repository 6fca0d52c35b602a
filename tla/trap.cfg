SPECIFICATION Spec
CONSTANTS
  p1 = p1
  p2 = p2
  h1 = h1
  Null = Null
  Kernel = Kernel
  Harts = {h1}
  Procs = {p1, p2}
  Files <- OwnFiles
  Errors = {4}
  Values <- OneValues
  Writes <- OneWrites
  Faults <- OneFaults
  MRET = 12
  WORD = 4
INVARIANTS TypeOK TrapFindsItsProcess
PROPERTIES RefinesUserView
CHECK_DEADLOCK FALSE
