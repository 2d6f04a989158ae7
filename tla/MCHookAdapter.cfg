CONSTANTS
  Hooks = {h1, h2}
  Invocations <- MCInvocations
  Limit = 2
SPECIFICATION Spec
INVARIANTS
  TypeOK
  SpoiledAreFew
  NoImplicitAllow
  PolicyReachesHost
PROPERTIES
  KeepsEvidenceTrail
  EveryEventAnswered
