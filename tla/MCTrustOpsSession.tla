------------------------- MODULE MCTrustOpsSession -------------------------
(* TrustOpsSession with gates of every outcome and a choice of overrides.  *)
EXTENDS TrustOpsSession

CONSTANTS r1, r2

\* Every reference has its prefix, in whatever list it stands.
MCPrefixed == [field \in Fields |-> Refs]

Gate(outcome, override, evidence) ==
  [outcome |-> outcome, receipt |-> r1, gate |-> r2, evidence |-> evidence,
   override |-> override]

\* Every outcome with evidence; overrides that keep, raise and lower.
MCGateDecisions ==
  {Gate(o, "none", {r1}) : o \in Outcomes} \cup
  {Gate("warn", "block", {r1}), Gate("warn", "allow", {r2}),
   Gate("review", "revoke", {r2}), Gate("rollback", "revoke", {r1}),
   Gate("rollback", "quarantine", {r1}),
   Gate("pass", "none", {}), Gate("pass", "none", {Blank}),
   Gate("quarantine", "none", {}), Gate("quarantine", "none", {Blank}),
   Gate("unknown", "none", {r1}),
   [Gate("pass", "none", {r1}) EXCEPT !.gate = r1],
   [Gate("block", "none", {r1}) EXCEPT !.receipt = Blank]}
=============================================================================
