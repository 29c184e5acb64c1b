SPECIFICATION Spec
CONSTANTS
  Thread = {t1, t2, t3}
  NULL = NULL
  Writer = {t1, t2}
  Reader = {t2, t3}
  Size = 2
  MaxXfer = 3
  AppPrio = {0, 1}
INVARIANT StreamIntact WaitOnlyWhenStuck
VIEW View
