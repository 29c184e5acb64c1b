SPECIFICATION FairSpec
CONSTANTS
  t1 = t1
  t2 = t2
  Thread = {idle, main, t1, t2}
  Idle = idle
  Main = main
  NULL = NULL
  NumCoop = 0
  NumPreempt = 2
  MainPrio = 0
  AppPrio <- MCPreemptPrio
  SemLimit = 1
  MaxLock = 1
  DeferredSwap = FALSE
  Slice = 2
  Fns = {"yield", "sleep", "wakeup", "suspend", "resume", "spawn", "cancel", "abort", "sem"}
PROPERTY RoundRobin
INVARIANTS ReadyQMirrorsThreads CacheIsNext NoMissedPreemption
