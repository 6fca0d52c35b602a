SPECIFICATION FairSpec
CONSTANTS
  Harts = {1, 2}
  Procs = {0, 1}
  N_QUANTUM = 3
  TICKS = 2
  SCHEDULER_TICKS = 2
  KERNEL_TICKS = 1
  MAX_TIMES <- DivideSecond
INVARIANTS TypeOK RunsInItsQuanta SliceEndsWithFrame
PROPERTIES NoQuantumSkipped OwnerRuns
