CONSTANTS
  s1 = s1
  s2 = s2
  c1 = c1
  c2 = c2
  q1 = q1
  q2 = q2
  l = l
  i1 = i1
  i2 = i2
  NoValue = NoValue
  Thrower = {s1, s2}
  Catcher = {c1, c2}
  Timed = {c1}
  Requester = {q1, q2}
  Listener = {l}
  Addr = {i1, i2}
  Casts <- MCCasts
SPECIFICATION BusFairSpec
INVARIANTS
  SignalReachesAll
  NoHandlerLeftBehind
  StrayRepliesComeLate
PROPERTY
  WaitingEnds
\* A catcher without a timeout may wait for ever.
CHECK_DEADLOCK FALSE
