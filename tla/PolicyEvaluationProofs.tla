----------------------- MODULE PolicyEvaluationProofs -----------------------
(***************************************************************************)
(* Proofs about the policy pack and its evaluation, for every set of       *)
(* contexts: the runs check contexts of at most two marks.                 *)
(***************************************************************************)
EXTENDS PolicyEvaluation, BaselinePoliciesProofs, TLAPS

\* The policies before the one at hand did not apply, and the ruling is the
\* verdict at hand, or the allow artifact when the pack is exhausted.
Progress ==
  /\ \A i \in 1 .. 15 : i < next => Pack(ctx)[i] = NoVerdict
  /\ Ruled => \/ /\ next <= 15
                 /\ Pack(ctx)[next] # NoVerdict
                 /\ ruling = Pack(ctx)[next]
              \/ /\ next = 16
                 /\ ruling = BaselineAllow

IInv == TypeOK /\ Progress

\* IInv holds initially.
LEMMA InitIInv == Init => IInv
  BY DEF Init, IInv, TypeOK, Progress, Ruled

\* IInv is inductive.
LEMMA NextIInv == IInv /\ [Next]_vars => IInv'
<1> SUFFICES ASSUME IInv, [Next]_vars
             PROVE  IInv'
  OBVIOUS
<1> USE DEF IInv, TypeOK, Progress, Ruled
<1>1. CASE Skip
  BY <1>1 DEF Skip
<1>2. CASE Return
  BY <1>2 DEF Return
<1>3. CASE Allow
  BY <1>3 DEF Allow
<1>4. CASE UNCHANGED vars
  BY <1>4 DEF vars
<1> QED  BY <1>1, <1>2, <1>3, <1>4 DEF Next

\* TypeOK and Progress hold throughout every evaluation.
LEMMA IInvHolds == Spec => []IInv
  BY InitIInv, NextIInv, PTL DEF Spec

\* The evaluation keeps to its types, for every set of contexts.
THEOREM TypeCorrect == Spec => []TypeOK
<1>1. IInv => TypeOK
  BY DEF IInv
<1> QED  BY <1>1, IInvHolds, PTL

-----------------------------------------------------------------------------

\* The loop and the function agree.
LEMMA ProgressGivesFirst == IInv => FirstVerdictRules
<1> SUFFICES ASSUME IInv, Ruled
             PROVE  ruling = EvaluateBaseline(ctx)
  BY DEF FirstVerdictRules
<1> DEFINE hits == {i \in 1 .. 15 : Pack(ctx)[i] # NoVerdict}
<1>1. CASE next <= 15 /\ Pack(ctx)[next] # NoVerdict /\ ruling = Pack(ctx)[next]
  <2>1. next \in hits /\ \A j \in hits : next <= j
    BY <1>1 DEF IInv, TypeOK, Progress
  <2>2. \A i \in hits : (\A j \in hits : i <= j) => i = next
    BY <2>1
  <2>3. (CHOOSE i \in hits : \A j \in hits : i <= j) = next
    BY <2>1, <2>2
  <2> QED  BY <1>1, <2>1, <2>3 DEF EvaluateBaseline
<1>2. CASE next = 16 /\ ruling = BaselineAllow
  <2>1. hits = {}
    BY <1>2 DEF IInv, Progress
  <2> QED  BY <1>2, <2>1 DEF EvaluateBaseline
<1> QED  BY <1>1, <1>2 DEF IInv, Progress

\* evaluate_baseline's loop returns the first verdict of the pack, for
\* every event.
THEOREM FirstVerdict == Spec => []FirstVerdictRules
  BY ProgressGivesFirst, IInvHolds, PTL

-----------------------------------------------------------------------------

\* When some policy speaks, the ruling is the verdict at hand and no policy
\* before it spoke.
LEMMA RulingIsFirst ==
  ASSUME IInv, Ruled, NEW i \in 1 .. 15, Pack(ctx)[i] # NoVerdict
  PROVE  next \in 1 .. i /\ Pack(ctx)[next] # NoVerdict /\ ruling = Pack(ctx)[next]
  BY DEF IInv, TypeOK, Progress

\* What one of the six leading policies stops stays stopped, for every event.
THEOREM LeadingBlocks == Spec => []LeadingBlocksHold
<1>1. IInv => LeadingBlocksHold
  <2> SUFFICES ASSUME IInv, Ruled, NEW i \in 1 .. 6, Pack(ctx)[i] # NoVerdict
               PROVE  ~MayContinue
    BY DEF LeadingBlocksHold
  <2>1. next \in 1 .. 6 /\ Pack(ctx)[next] # NoVerdict /\ ruling = Pack(ctx)[next]
    BY RulingIsFirst
  <2>2. Stops(Pack(ctx)[next])
    BY <2>1, LeadingStop
  <2> QED  BY <2>1, <2>2 DEF Stops, MayContinue
<1> QED  BY <1>1, IInvHolds, PTL

\* A secret in an output is redacted or the event is stopped, for every event.
THEOREM SecretsWithheld == Spec => []SecretOutputWithheld
<1>1. IInv => SecretOutputWithheld
  <2> SUFFICES ASSUME IInv, Ruled, ctx.secretOutput
               PROVE  ruling.effects.redacted \/ ~MayContinue
    BY DEF SecretOutputWithheld
  <2>1. Pack(ctx)[7] # NoVerdict /\ Pack(ctx)[7].effects.redacted
    <3>1. Pack(ctx)[7] = Artifact("secrets/redact-secret-output", "redact",
                                  "critical")
      BY DEF Pack, RedactSecretOutput, Verdict
    <3> QED  BY <3>1, ArtifactSays
  <2>2. next \in 1 .. 7 /\ Pack(ctx)[next] # NoVerdict /\ ruling = Pack(ctx)[next]
    BY <2>1, RulingIsFirst
  <2>3. CASE next = 7
    BY <2>1, <2>2, <2>3
  <2>4. CASE next \in 1 .. 6
    BY <2>2, <2>4, LeadingStop DEF Stops, MayContinue
  <2> QED  BY <2>2, <2>3, <2>4
<1> QED  BY <1>1, IInvHolds, PTL

\* Advice and redaction are the only ways to shadow a stricter policy, for
\* every event.
THEOREM OnlyAdvice == Spec => []OnlyAdviceShadows
<1>1. IInv => OnlyAdviceShadows
  <2> SUFFICES ASSUME IInv, Ruled, ~ctx.secretOutput,
                      \A i \in 1 .. 15 : Pack(ctx)[i].decision # "instruct",
                      NEW i \in 1 .. 15, Stops(Pack(ctx)[i])
               PROVE  ~MayContinue
    BY DEF OnlyAdviceShadows, Stops
  <2>1. Pack(ctx)[i] # NoVerdict
    BY NoVerdictContinues
  <2>2. next \in 1 .. 15 /\ Pack(ctx)[next] # NoVerdict /\ ruling = Pack(ctx)[next]
    BY <2>1, RulingIsFirst
  <2>3. Stops(Pack(ctx)[next])
    BY <2>2, ContinuingVerdicts
  <2> QED  BY <2>2, <2>3 DEF Stops, MayContinue
<1> QED  BY <1>1, IInvHolds, PTL
=============================================================================
