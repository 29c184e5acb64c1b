SPECIFICATION FairSpec
CONSTANTS
  WorkQueue = {sysq, otherq}
  sys_work_q = sysq
  Work = {w}
  DelayedWork = {d}
  Alert = {a}
  DefaultAlert = {da}
  Caller = {c1, c2}
  NULL = NULL
  MaxSends = 2
  MaxPending = 1
INVARIANTS PendingInOneHand CountdownHasQueue AlertInFlight
PROPERTIES SubmittedIsHandled
