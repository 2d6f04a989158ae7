--------------------------- MODULE ClaimAdmission ---------------------------
(***************************************************************************)
(* Admission of claims, on the evidence that comes with them, and of agent *)
(* actions, on the claims they name: the two evaluate methods and the      *)
(* default policies.  Scope, wording and digests are left out; the effects *)
(* the code states are the default ones of each decision.                  *)
(***************************************************************************)
EXTENDS DecisionABI, FiniteSets

RawSources == {"model_output", "graph_candidate", "vector_candidate"}
CandidateSources ==
  RawSources \cup {"human_authored", "verified_citation", "explainable_trace"}

ClaimClasses == {"technical_document", "world_gaia",
                 "explainable_text_classification", "runtime_action"}
ActionClasses == {"publish_gaia_manifest", "update_claim_registry",
                  "execute_ingest_fusion", "activate_agent_artifact"}

\* Trust is a string the caller chooses: "unknown" is any other one.
TrustRank == [low |-> 0, medium |-> 1, high |-> 2, verified |-> 3]
Trusts == DOMAIN TrustRank \cup {"unknown"}

\* The rank of a trust, where it has one.
RankOr(trust, default) ==
  IF trust \in DOMAIN TrustRank THEN TrustRank[trust] ELSE default

EvidenceRule ==
  [trace : BOOLEAN, citation : BOOLEAN, human : BOOLEAN, minimum : Trusts,
   disallowed : SUBSET CandidateSources]
ReviewGate == [claims : SUBSET ClaimClasses, actions : SUBSET ActionClasses]

ClaimPolicy ==
  [class : ClaimClasses, rule : EvidenceRule, gates : SUBSET ReviewGate]
ActionPolicy ==
  [class : ActionClasses, gates : SUBSET ReviewGate, needsClaims : BOOLEAN]

\* What a claim is submitted with.
Submission ==
  [source : CandidateSources, trace : BOOLEAN, citation : BOOLEAN,
   human : BOOLEAN, trust : Trusts]

-----------------------------------------------------------------------------
(* Claims.                                                                 *)

Disallowed(p, s) == s.source \in p.rule.disallowed

Missing(p, s) ==
  \/ p.rule.trace /\ ~s.trace
  \/ p.rule.citation /\ ~s.citation

Unverified(p, s) == p.rule.human /\ ~s.human

GatedClaim(p) == \E gate \in p.gates : p.class \in gate.claims

\* An unknown trust of the source ranks lowest, an unknown minimum medium.
BelowMinimum(p, s) == RankOr(s.trust, 0) < RankOr(p.rule.minimum, 1)

\* Mutant of AdmitClaim: verification is looked for before evidence.
AdmitClaim_VerificationFirst(p, s) ==
  IF Disallowed(p, s) THEN Artifact(p.class, "deny", "high")
  ELSE IF Unverified(p, s) THEN Artifact(p.class, "escalate", "high")
  ELSE IF Missing(p, s) THEN Artifact(p.class, "deny", "medium")
  ELSE IF GatedClaim(p) THEN Artifact(p.class, "escalate", "high")
  ELSE IF BelowMinimum(p, s) THEN Artifact(p.class, "allow_with_context", "low")
  ELSE Artifact(p.class, "allow", "info")

\* Mutant of AdmitClaim: low trust is settled before the gates.
AdmitClaim_TrustBeforeGates(p, s) ==
  IF Disallowed(p, s) THEN Artifact(p.class, "deny", "high")
  ELSE IF Missing(p, s) THEN Artifact(p.class, "deny", "medium")
  ELSE IF Unverified(p, s) THEN Artifact(p.class, "escalate", "high")
  ELSE IF BelowMinimum(p, s) THEN Artifact(p.class, "allow_with_context", "low")
  ELSE IF GatedClaim(p) THEN Artifact(p.class, "escalate", "high")
  ELSE Artifact(p.class, "allow", "info")

\* Mutant of AdmitClaim: a raw candidate is let in when a human vouches.
AdmitClaim_HumanOverrides(p, s) ==
  IF Disallowed(p, s) /\ ~s.human THEN Artifact(p.class, "deny", "high")
  ELSE IF Missing(p, s) THEN Artifact(p.class, "deny", "medium")
  ELSE IF Unverified(p, s) \/ GatedClaim(p)
       THEN Artifact(p.class, "escalate", "high")
  ELSE IF BelowMinimum(p, s) THEN Artifact(p.class, "allow_with_context", "low")
  ELSE Artifact(p.class, "allow", "info")

\* Mutant of AdmitClaim: the admission state instead of its ABI decision.
AdmitClaim_AdmissionState(p, s) ==
  IF Disallowed(p, s) THEN Artifact(p.class, "deny", "high")
  ELSE IF Missing(p, s) THEN Artifact(p.class, "deny", "medium")
  ELSE IF Unverified(p, s) \/ GatedClaim(p)
       THEN Artifact(p.class, "require_review", "high")
  ELSE IF BelowMinimum(p, s) THEN Artifact(p.class, "provisional", "low")
  ELSE Artifact(p.class, "allow", "info")

\* ClaimAdmissionPolicy.evaluate: the first check that fails rules.
AdmitClaim(p, s) ==
  IF Disallowed(p, s) THEN Artifact(p.class, "deny", "high")
  ELSE IF Missing(p, s) THEN Artifact(p.class, "deny", "medium")
  ELSE IF Unverified(p, s) \/ GatedClaim(p)
       THEN Artifact(p.class, "escalate", "high")
  ELSE IF BelowMinimum(p, s) THEN Artifact(p.class, "allow_with_context", "low")
  ELSE Artifact(p.class, "allow", "info")

-----------------------------------------------------------------------------
(* Actions.                                                                *)

GatedAction(p) == \E gate \in p.gates : p.class \in gate.actions

\* ActionAdmissionPolicy.evaluate: that claims are named, not which.
AdmitAction(p, named) ==
  IF p.needsClaims /\ named = {} THEN Artifact(p.class, "deny", "high")
  ELSE IF GatedAction(p) THEN Artifact(p.class, "escalate", "high")
  ELSE Artifact(p.class, "allow", "info")

-----------------------------------------------------------------------------
(* The default policies.                                                   *)

\* Mutant of Rule: no source is disallowed by default.
Rule_NoneDisallowed(citation, human, minimum) ==
  [trace |-> TRUE, citation |-> citation, human |-> human,
   minimum |-> minimum, disallowed |-> {}]

Rule(citation, human, minimum) ==
  [trace |-> TRUE, citation |-> citation, human |-> human,
   minimum |-> minimum, disallowed |-> RawSources]

DefaultEvidenceRules ==
  [technical_document |-> Rule(TRUE, FALSE, "medium"),
   world_gaia |-> Rule(TRUE, TRUE, "high"),
   explainable_text_classification |-> Rule(FALSE, FALSE, "medium"),
   runtime_action |-> Rule(FALSE, TRUE, "high")]

DefaultClaimPolicies ==
  {[class |-> class, rule |-> DefaultEvidenceRules[class],
    gates |-> IF class = "world_gaia"
              THEN {[claims |-> {"world_gaia"}, actions |-> {}]} ELSE {}] :
     class \in ClaimClasses}

DefaultActionPolicies ==
  {[class |-> class, needsClaims |-> TRUE,
    gates |-> IF class = "execute_ingest_fusion" THEN {}
              ELSE {[claims |-> {}, actions |-> {class}]}] :
     class \in ActionClasses}
=============================================================================
