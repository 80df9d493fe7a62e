CONSTANTS
  r1 = r1
  r2 = r2
  r3 = r3
  t = t
  s = s
  s2 = s2
  u1 = u1
  None = None
  Runs <- MCRuns
  ThreadOf <- MCThreadOf
  SessionOf <- MCSessionOf
  UserOf <- MCUserOf
  Within <- MCWithin
  Tiers = {"short", "long", "episodic"}
  MaxEntries = 1
SYMMETRY MCSymmetry
SPECIFICATION MemorySpec
INVARIANTS
  SavesAreAPrefix
  OwnPastIsLoaded
CHECK_DEADLOCK FALSE
