CONSTANTS
  r1 = r1
  r2 = r2
  d1 = d1
  d2 = d2
  d3 = d3
  p1 = p1
  p2 = p2
  Refs = {r1, r2, "pass", "command_blocked", "network_blocked",
          "secret_value", "path_outside_repo", "protected_path",
          "path_denied", "path_not_allowed", "dependency", "migration",
          "config"}
  Blank = Blank
  Prefixed <- MCPrefixed
  Domains = {d1, d2, d3}
  Subdomains <- MCSubdomains
  Paths = {p1, p2}
  Proposals <- MCProposals
  AttemptOf <- MCAttemptOf
  AdapterGates <- MCAdapterGates
  GateDecisions <- MCGateDecisions
  NoProposal = NoProposal
  MaxPreflights = 1
  MaxReports = 3
SPECIFICATION SessionSpec
INVARIANTS
  TypeOK
  SeverityFloor
  BuildersAgree
  ValidatedIsStrict
  RefusalsHaveCause
  ReportOrderIrrelevant
  FindingsReachRuntime
PROPERTIES
  OutcomeMonotone
  ApprovalsLiftNoBlock
  TighterFindsMore
  OrderIrrelevant
