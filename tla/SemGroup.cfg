SPECIFICATION Spec
CONSTANTS
  s1 = s1
  s2 = s2
  s3 = s3
  Thread = {t1, t2, t3}
  Sem = {s1, s2, s3}
  NULL = NULL
  SemLimit = 2
  AppPrio = {0, 1}
  SemArray <- MCSemArray
INVARIANT DummiesMatchWaits
PROPERTY ImplementsMultiWait
