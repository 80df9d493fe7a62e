CONSTANTS
  r1 = r1
  r2 = r2
  old = old
  young = young
  None = None
  Run <- MCRun
  Thread <- MCThread
  Contexts <- MCContexts
  Known = {old}
  MaxSteps = 2
  Budget = 2
  MaxDeletes = 1
SPECIFICATION FairSpec
INVARIANTS
  ThreadsOnlyGrow
  TurnsDoNotMix
  NoTurnLost
  BudgetHolds
PROPERTY
  EveryRunEnds
