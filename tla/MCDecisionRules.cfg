CONSTANTS
  Fields <- MCFields
  Texts <- MCTexts
  Bounds <- MCBounds
  Rank <- MCRank
  Equals <- MCEquals
  Numbers <- MCNumbers
  Integral <- MCIntegral
  Empty = "empty"
  TrueText = "True"
  Values <- MCValues
  Str <- MCStr
  Tables <- MCTables
  Inputs <- MCInputs
  NoTable = NoTable
SPECIFICATION Spec
INVARIANTS
  DecisionIsRight
  ScoreIsRight
