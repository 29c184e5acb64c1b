SPECIFICATION Spec
CONSTANTS
  t1 = t1
  t2 = t2
  Thread = {idle, main, t1, t2}
  Idle = idle
  Main = main
  NULL = NULL
  NumCoop = 1
  NumPreempt = 1
  MainPrio = 0
  AppPrio <- MCPrio2
  SemLimit = 1
  MaxLock = 1
  DeferredSwap = TRUE
  Slice = 0
  Fns = {"yield", "sleep", "wakeup", "sched_lock", "priority_set", "suspend", "resume", "spawn", "cancel", "abort", "sem"}
SYMMETRY Symm
INVARIANTS TypeOK ReadyQMirrorsThreads CacheIsNext NoMissedPreemption WaitersMatchSemaphore
