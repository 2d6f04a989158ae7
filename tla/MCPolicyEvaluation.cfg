CONSTANTS
  MaxMarks = 2
  Contexts <- MCContexts
SPECIFICATION Spec
INVARIANTS
  TypeOK
  FirstVerdictRules
  SecretOutputWithheld
  OnlyAdviceShadows
\* The evaluation of one event ends.
CHECK_DEADLOCK FALSE
