-------------------------- MODULE PolicyEvaluation --------------------------
(***************************************************************************)
(* evaluate_baseline as the loop it is: the policies of the pack are asked *)
(* one after the other and the first one that speaks ends the evaluation.  *)
(***************************************************************************)
EXTENDS BaselinePolicies

CONSTANT Contexts        \* the tool events to evaluate

ASSUME ContextsAssumption == Contexts \subseteq Context

VARIABLES
  ctx,     \* the event under evaluation
  next,    \* the position in the pack of the next policy to ask
  ruling   \* the decision returned, NoVerdict while the loop runs

vars == <<ctx, next, ruling>>

Ruled == ruling # NoVerdict

Init ==
  /\ ctx \in Contexts
  /\ next = 1
  /\ ruling = NoVerdict

\* Mutant of Skip: advice is passed over as if the policy did not apply.
Skip_PastAdvice ==
  /\ ~Ruled
  /\ next <= 15
  /\ Pack(ctx)[next] = NoVerdict \/ Pack(ctx)[next].decision = "instruct"
  /\ next' = next + 1
  /\ UNCHANGED <<ctx, ruling>>

\* The policy at hand does not apply: go on to the next one.
Skip ==
  /\ ~Ruled
  /\ next <= 15
  /\ Pack(ctx)[next] = NoVerdict
  /\ next' = next + 1
  /\ UNCHANGED <<ctx, ruling>>

\* The policy at hand applies: return its decision.
Return ==
  /\ ~Ruled
  /\ next <= 15
  /\ Pack(ctx)[next] # NoVerdict
  /\ ruling' = Pack(ctx)[next]
  /\ UNCHANGED <<ctx, next>>

\* Mutant of Allow: the last policy of the pack may be left out.
Allow_OffByOne ==
  /\ ~Ruled
  /\ next \in 15 .. 16
  /\ ruling' = BaselineAllow
  /\ UNCHANGED <<ctx, next>>

\* Mutant of Allow: the fall-through answers as decision_from_event does.
Allow_FromEvent ==
  /\ ~Ruled
  /\ next = 16
  /\ ruling' = DecisionFromEvent("core/event", 0, 0, FALSE)
  /\ UNCHANGED <<ctx, next>>

\* No policy of the pack applied.
Allow ==
  /\ ~Ruled
  /\ next = 16
  /\ ruling' = BaselineAllow
  /\ UNCHANGED <<ctx, next>>

Next == Skip \/ Return \/ Allow

Spec == Init /\ [][Next]_vars /\ WF_vars(Next)

-----------------------------------------------------------------------------

\* Every variable has its type.
TypeOK ==
  /\ ctx \in Contexts
  /\ next \in 1 .. 16
  /\ ruling \in {NoVerdict, BaselineAllow} \cup {Pack(ctx)[i] : i \in 1 .. 15}

MayContinue == ruling.effects.agentMayContinue

\* The loop returns what EvaluateBaseline, the first verdict of the pack,
\* says: neither a skipped policy nor the fall-through to allow loses one.
FirstVerdictRules == Ruled => ruling = EvaluateBaseline(ctx)

\* The first six policies (tampering, privilege, download and run, secret
\* files, environment) outrank the whole pack: what one of them stops, no
\* other policy lets through, in spite of the first verdict being final.
LeadingBlocksHold ==
  (Ruled /\ \E i \in 1 .. 6 : Pack(ctx)[i] # NoVerdict) => ~MayContinue

\* A secret in a tool's output is never passed over: the ruling asks for the
\* output to be redacted or stops the event, whatever else the event does.
SecretOutputWithheld ==
  (Ruled /\ ctx.secretOutput) => (ruling.effects.redacted \/ ~MayContinue)

\* An event whose output holds no secret and that no policy of the pack only
\* advises on (risky history, global install) is stopped as soon as one of
\* the fifteen policies would stop it: advice and redaction are the only two
\* ways for an earlier policy to shadow a later, stricter one.
OnlyAdviceShadows ==
  ( /\ Ruled
    /\ ~ctx.secretOutput
    /\ \A i \in 1 .. 15 : Pack(ctx)[i].decision # "instruct"
    /\ \E i \in 1 .. 15 : ~Pack(ctx)[i].effects.agentMayContinue )
  => ~MayContinue

\* The conflict rule of the control-plane document (stricter policy wins),
\* for events that have no secret output to redact: an event that some
\* policy of the pack stops is stopped.
StricterPolicyWins ==
  ( /\ Ruled
    /\ ~ctx.secretOutput
    /\ \E i \in 1 .. 15 : ~Pack(ctx)[i].effects.agentMayContinue )
  => ~MayContinue
=============================================================================
