SPECIFICATION Spec
CONSTANTS
  Thread = {a, b, c}
  NULL = NULL
  Item = {x, y, z, w}
  MaxMsgs = 2
  AppPrio = {0, 1}
  Kinds = {"fifo", "lifo", "stack", "msgq", "slab"}
INVARIANTS ItemsConserved NobodyWaitsInVain
PROPERTIES ServedInOrder ItemsLeaveInOrder
SYMMETRY Symm
