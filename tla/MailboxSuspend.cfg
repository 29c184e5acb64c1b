SPECIFICATION Spec
CONSTANTS
  Thread = {t1, t2, t3}
  NULL = NULL
  ANY = ANY
  Async = {a1}
  Block = {b1}
  AppPrio = {0}
  SuspendableIn = {"rx", "tx"}
INVARIANT BlockedUntilDisposed
SYMMETRY Symmetry
