---------------------------- MODULE DecisionABI ----------------------------
(***************************************************************************)
(* The decision ABI shared by every guardrail: the eight decisions, what   *)
(* each of them lets the agent do, and the two fail-closed answers of      *)
(* decision_from_event.  An artifact keeps its policy, its decision, its   *)
(* severity and its effects; wording, digests, identifiers and timestamps  *)
(* are left out.                                                           *)
(***************************************************************************)
EXTENDS Naturals

Decision == {"allow", "allow_with_context", "instruct", "deny",
             "redact", "escalate", "quarantine", "defer"}

Severity == {"info", "low", "medium", "high", "critical"}

\* The decisions an agent may not continue under.
Stopping == {"deny", "escalate", "defer", "quarantine"}

\* What the agent may do next, as default_effects_for_decision says.
DefaultEffects(d) ==
  [agentMayContinue      |-> d \notin Stopping,
   requiresHumanApproval |-> d \in {"escalate", "defer", "quarantine"},
   redacted              |-> d = "redact"]

Effects == [agentMayContinue : BOOLEAN, requiresHumanApproval : BOOLEAN,
            redacted : BOOLEAN]

\* PolicyDecision.create without explicit effects.
Artifact(policy, d, s) ==
  [policyId |-> policy, decision |-> d, severity |-> s,
   effects |-> DefaultEffects(d)]

Oversized(size, limit) == size > limit

OversizedPayload == Artifact("core/oversized-payload", "defer", "high")
RequiredPolicyLoadFailed ==
  Artifact("core/required-policy-load-failed", "quarantine", "critical")

\* decision_from_event: the size test comes first, then the policy error,
\* and everything else is allowed.
DecisionFromEvent(policy, size, limit, policyError) ==
  IF Oversized(size, limit) THEN OversizedPayload
  ELSE IF policyError       THEN RequiredPolicyLoadFailed
  ELSE Artifact(policy, "allow", "info")
=============================================================================
