CONSTANTS
  MaxTokens = 2
  MaxCalls = 3
SPECIFICATION Spec
INVARIANTS TypeOK EndedSessionLeaves SubmittingHasCall
PROPERTIES LoadingEnds LoginTakesEffect
