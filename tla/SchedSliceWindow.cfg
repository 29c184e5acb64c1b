SPECIFICATION Spec
CONSTANTS
  t1 = t1
  t2 = t2
  Thread = {idle, main, t1}
  Idle = idle
  Main = main
  NULL = NULL
  NumCoop = 0
  NumPreempt = 2
  MainPrio = 0
  AppPrio <- MCPreemptPrio
  SemLimit = 1
  MaxLock = 1
  DeferredSwap = TRUE
  Slice = 1
  Fns = {"spawn", "suspend"}
INVARIANTS SuspendedNeverRuns
