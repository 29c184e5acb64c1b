SPECIFICATION TimerFairSpec
CONSTANTS
  tm1 = tm1
  tm2 = tm2
  th1 = th1
  th2 = th2
  s1 = s1
  s2 = s2
  Timeout = {tm1, s1, s2}
  Tmr = {tm1}
  Thr = {th1, th2}
  MaxTicks = 2
  MaxStatus = 1
INVARIANTS QueueMatchesDeltas NoStrandedWaiter
PROPERTIES TimersCountDown SyncReturns
