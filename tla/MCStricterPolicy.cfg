CONSTANTS
  MaxMarks = 2
  Contexts <- MCContexts
SPECIFICATION Spec
INVARIANT StricterPolicyWins
CHECK_DEADLOCK FALSE
