CONSTANTS
  c1 = c1
  c2 = c2
  a1 = a1
  Claims = {c1, c2}
  Proposals = {a1}
  ClaimPolicies <- MCClaimPolicies
  ActionPolicies <- MCActionPolicies
  Submissions <- MCSubmissions
  MaxRecords = 1
  Nothing = Nothing
SPECIFICATION Spec
INVARIANTS
  TypeOK
  ActionsRestOnEvidence
  GatesHold
  DefaultsHold
PROPERTIES
  EvidenceNeverHurts
