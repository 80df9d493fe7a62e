CONSTANTS
  a = a
  b = b
  c = c
  d = d
  e = e
  yes = yes
  no = no
  None = None
  Node <- MCNode
  Val <- MCVal
  Graphs <- AllGraphs
  MaxConcurrency = 2
  HasStore = TRUE
  MaxResumes = 1
SPECIFICATION FairSpec
INVARIANTS
  Causality
  StartedOnce
  LimitNeverBinds
  NothingReadyAtTheEnd
  NothingLeftOpen
  CancelCutsCleanly
  StoreIsRight
PROPERTY
  Termination
