------------------------ MODULE DeviceOrchestration ------------------------
(***************************************************************************)
(* The device orchestration policy and the event-capability records ruled  *)
(* with it.  Of the action types, effect classes, approval modes and       *)
(* adapter healths, free strings all, the ones the code compares with are  *)
(* kept, "other" standing for the rest.                                    *)
(***************************************************************************)
EXTENDS DecisionABI

CONSTANTS
  Receipts,  \* references to receipts
  Null       \* a list of receipts that is null

ASSUME NullAssumption == \A R \in SUBSET Receipts : R # Null

Outcomes == {"allowed", "denied", "requires_approval", "requires_local_only",
             "redacted", "degraded"}

RawCameraActions == {"export_raw_video", "retain_raw_video"}
HighRiskActionTypes == {"unlock_door", "export_raw_video"}
ActionTypes == RawCameraActions \cup HighRiskActionTypes \cup {"other"}

EffectClasses == {"observe", "low_risk_actuation", "medium_risk_actuation",
                  "high_risk_actuation", "other"}

\* Only a health the code names counts against the adapter.
Healths == {"healthy", "degraded", "other"}
Unhealthy == {"degraded"}

Modes == {"none", "explicit_user_approval", "other"}
ApprovalModes == {"explicit_user_approval"}

DeviceContext ==
  [action : ActionTypes, class : EffectClasses, health : Healths, mode : Modes]

\* A context as a caller hands it over: a dictionary that may lack any field.
Input ==
  [action : ActionTypes \cup {"absent"}, class : EffectClasses \cup {"absent"},
   health : Healths \cup {"absent"}, mode : Modes \cup {"absent"}]

\* x or y
Or(x, y) == IF x # "absent" THEN x ELSE y

\* A field that is missing has the mildest value there is.
WithDefaults(input) ==
  [action |-> Or(input.action, "other"), class |-> Or(input.class, "observe"),
   health |-> Or(input.health, "healthy"), mode |-> Or(input.mode, "none")]

HighRisk(c) ==
  c.class = "high_risk_actuation" \/ c.action \in HighRiskActionTypes

\* What a class is worth when nothing else speaks against the action.
OutcomeOfClass ==
  [observe |-> "allowed", low_risk_actuation |-> "allowed",
   medium_risk_actuation |-> "requires_approval", other |-> "denied"]

\* Mutant of EvaluateOrchestrationAction: approval is permission.
EvaluateOrchestrationAction_ApprovalAllows(c) ==
  IF c.health \in Unhealthy THEN "degraded"
  ELSE IF c.action \in RawCameraActions THEN "denied"
  ELSE IF HighRisk(c)
       THEN IF c.mode \in ApprovalModes THEN "allowed" ELSE "denied"
  ELSE OutcomeOfClass[c.class]

\* Mutant of EvaluateOrchestrationAction: only the class is looked at once
\* the adapter's health has a name the code does not know.
EvaluateOrchestrationAction_OddHealth(c) ==
  IF c.health \in Unhealthy THEN "degraded"
  ELSE IF c.health = "healthy" /\ c.action \in RawCameraActions THEN "denied"
  ELSE IF c.class = "high_risk_actuation" \/
          (c.health = "healthy" /\ HighRisk(c))
       THEN IF c.mode \in ApprovalModes THEN "requires_approval" ELSE "denied"
  ELSE OutcomeOfClass[c.class]

\* evaluate_orchestration_action: health first, then the action, then the
\* class.
EvaluateOrchestrationAction(c) ==
  IF c.health \in Unhealthy THEN "degraded"
  ELSE IF c.action \in RawCameraActions THEN "denied"
  ELSE IF HighRisk(c)
       THEN IF c.mode \in ApprovalModes THEN "requires_approval" ELSE "denied"
  ELSE OutcomeOfClass[c.class]

DecisionOf ==
  [allowed |-> "allow", denied |-> "deny", requires_approval |-> "escalate",
   requires_local_only |-> "instruct", redacted |-> "redact",
   degraded |-> "defer"]

SeverityOf ==
  [allowed |-> "info", denied |-> "high", requires_approval |-> "high",
   requires_local_only |-> "medium", redacted |-> "medium",
   degraded |-> "medium"]

\* Mutant of OrchestrationArtifact: a degraded adapter is mere context.
OrchestrationArtifact_DegradedContinues(c) ==
  LET outcome == EvaluateOrchestrationAction(c)
  IN  Artifact("guardrail-fabric/device-orchestration",
               IF outcome = "degraded" THEN "allow_with_context"
               ELSE DecisionOf[outcome],
               SeverityOf[outcome])

\* sourceos_decision_from_orchestration_context
OrchestrationArtifact(c) ==
  LET outcome == EvaluateOrchestrationAction(c)
  IN  Artifact("guardrail-fabric/device-orchestration",
               DecisionOf[outcome], SeverityOf[outcome])

-----------------------------------------------------------------------------
(* Event-capability records.                                               *)

\* What the annotator reads of a record and what it writes into it.  The
\* event requests an action and reports a health, the capability declares
\* an action and knows a health, and each of the four may be absent.
Record ==
  [requested : ActionTypes \cup {"absent"}, declared : ActionTypes \cup {"absent"},
   reported : Healths \cup {"absent"}, known : Healths \cup {"absent"},
   token : BOOLEAN, effect : EffectClasses, mode : Modes,
   receipts : {Null} \cup SUBSET Receipts, evidence : SUBSET Receipts,
   outcome : Outcomes \cup {"absent"},
   status : {"scheduled", "blocked_or_waiting", "absent"}]

\* context_from_event_capability_record: the event goes before the
\* capability, and a token stands in for the approval of a high-risk effect
\* that asks for none.
ContextOf(r) ==
  [action |-> Or(r.requested, Or(r.declared, "other")),
   class |-> r.effect,
   health |-> Or(r.reported, Or(r.known, "healthy")),
   mode |-> IF r.effect = "high_risk_actuation" /\ r.token /\ r.mode = "none"
            THEN "explicit_user_approval" ELSE r.mode]

Status(outcome) ==
  IF outcome \in {"allowed", "redacted"} THEN "scheduled" ELSE "blocked_or_waiting"

\* Mutant of Annotate: the receipts replace the evidence.
Annotate_ReceiptsOnly(r) ==
  LET outcome == EvaluateOrchestrationAction(ContextOf(r))
  IN  [r EXCEPT !.outcome = outcome, !.status = Status(outcome),
                !.evidence = r.receipts]

\* Mutant of Annotate: the decision of the ABI for the outcome.
Annotate_Decision(r) ==
  LET outcome == EvaluateOrchestrationAction(ContextOf(r))
  IN  [r EXCEPT !.outcome = DecisionOf[outcome], !.status = Status(outcome),
                !.evidence = @ \cup r.receipts]

\* Mutant of Annotate: the approval token is spent by the annotation.
Annotate_SpendsToken(r) ==
  LET outcome == EvaluateOrchestrationAction(ContextOf(r))
  IN  [r EXCEPT !.outcome = outcome, !.status = Status(outcome),
                !.evidence = @ \cup r.receipts, !.token = FALSE]

\* annotate_event_capability_record, of a record with a list of receipts.
\* The outcome is written in three places, none of which is read again.
Annotate(r) ==
  LET outcome == EvaluateOrchestrationAction(ContextOf(r))
  IN  [r EXCEPT !.outcome = outcome, !.status = Status(outcome),
                !.evidence = @ \cup r.receipts]
=============================================================================
