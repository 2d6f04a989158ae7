CONSTANTS
  r1 = r1
  r2 = r2
  Refs = {r1, r2}
  Blank = Blank
  Prefixed <- MCPrefixed
  GateDecisions <- MCGateDecisions
  MaxReports = 2
SPECIFICATION Spec
INVARIANT BuiltRecordValidates
