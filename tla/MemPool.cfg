SPECIFICATION Spec
CONSTANTS
  Thread = {t1, t2, t3}
  NULL = NULL
  MinBlockSize = 2
  NrBlockSets = 3
  NrMaxBlocks = 1
  ReqSize = {2, 3, 9, 33}
  AppPrio = {0, 1}
  Policy = {"SPLIT_BEFORE_DEFRAG", "DEFRAG_BEFORE_SPLIT", "SPLIT_ONLY"}
  MaxHeld = 5
INVARIANT PoolPartition NobodyWaitsInVain
PROPERTY ServedInOrder
SYMMETRY Symmetry
