SPECIFICATION Spec
CONSTANTS
  Drivers <- AllDrivers
  Last = 1
  NR_DEVFREQS = 3
  MaxLoads = 3
  MaxChanges = 2
INVARIANTS
  NotFatal
CHECK_DEADLOCK FALSE
