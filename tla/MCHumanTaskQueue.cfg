CONSTANTS
  ann = ann
  bob = bob
  t1 = t1
  t2 = t2
  Nobody = Nobody
  Task <- MCTask
  User <- MCUser
  Rank <- MCRank
  Serves <- MCServes
  Limit = 1
  MaxHandovers = 2
  MaxForgets = 1
SPECIFICATION QueueFairSpec
INVARIANTS
  ClaimIsALock
  AnsweredByClaimer
PROPERTY
  EveryTaskIsAnswered
