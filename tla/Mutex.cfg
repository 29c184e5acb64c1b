SPECIFICATION Spec
CONSTANTS
  Thread = {a, b, c, d}
  Mtx = {m}
  NULL = NULL
  AppPrio = {0, 1, 2}
  Ceiling = 0
  MaxCount = 2
  MaxHeld = 1
  TimedWaits = TRUE
INVARIANTS LockConsistent OwnerInherits PriorityRestored
SYMMETRY Symm
CHECK_DEADLOCK FALSE
