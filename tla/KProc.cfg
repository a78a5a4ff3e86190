SPECIFICATION Spec
CONSTANTS
  NPROC = 3
  NCPU = 2
  Programs = {{"exit", "kill"}, {"exit", "pause"}, {"exit", "acquiresleep"}}
INVARIANTS RunsOnce SchedLocks NoMissedWakeup NoSpinDeadlock
