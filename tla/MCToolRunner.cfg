CONSTANTS
  k1 = k1
  k2 = k2
  k3 = k3
  Call = {k1, k2, k3}
  Threaded = {k1, k2}
  Workers = 1
SPECIFICATION FairRunnerSpec
INVARIANTS
  RecordsAgreeWithReply
PROPERTY
  EveryCallEnds
