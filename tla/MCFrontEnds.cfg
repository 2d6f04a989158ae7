CONSTANTS
  i1 = i1
  i2 = i2
  x1 = x1
  Items = {i1, i2}
  Receipts = {x1}
  Starts <- MCStarts
  Limit = 2
  Null = Null
  Nothing = Nothing
  Torn = Torn
  NoSize = NoSize
SPECIFICATION Spec
INVARIANTS
  TypeOK
  RiskyNeverScheduled
  DenialIsFinal
  ReplayStable
  SimulatorAgrees
  AgreesWithHook
PROPERTIES
  EvidenceGrows
