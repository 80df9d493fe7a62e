SPECIFICATION Spec
CONSTANTS
  None = None
  c1 = c1
  c2 = c2
  a1 = a1
  a2 = a2
  a3 = a3
  Call = {c1, c2}
  Action = {a1, a2, a3}
  Tokens = {0, 2}
  MaxRounds = 2
  MaxAdds = 1
  Scenarios <- HumanInTheLoop
INVARIANT AnswerIsUsed
