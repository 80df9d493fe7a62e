SPECIFICATION Spec
CONSTANTS
  Scenarios <- AllTalks
  MaxSteps = 1
  MaxChain = 2
  MaxFails = 1
INVARIANTS
  ConversationArrives
  CallsAreAnswered
  RepliesComeBack
  EveryoneIsAsked
