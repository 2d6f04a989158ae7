-------------------------- MODULE FrontEndsProofs --------------------------
(***************************************************************************)
(* Proofs about the annotator and the simulator, for queues of any size,   *)
(* any records, any command lines and any payload limit.                   *)
(***************************************************************************)
EXTENDS FrontEnds, BaselinePoliciesProofs

-----------------------------------------------------------------------------
(* The device policy.                                                      *)

\* A record yields a context.
LEMMA ContextTyped ==
  ASSUME NEW r \in Record
  PROVE  ContextOf(r) \in DeviceContext
<1>1. /\ Or(r.requested, Or(r.declared, "other")) \in ActionTypes
      /\ Or(r.reported, Or(r.known, "healthy")) \in Healths
  BY DEF Record, Or, ActionTypes, Healths
<1> QED  BY <1>1 DEF ContextOf, DeviceContext, Record, Modes

\* So does any tool input, the fields it lacks filled in.
LEMMA InputTyped ==
  ASSUME NEW input \in Input
  PROVE  WithDefaults(input) \in DeviceContext
BY DEF Input, WithDefaults, Or, DeviceContext, ActionTypes, EffectClasses,
       Healths, Modes

\* A context that no health and no approval makes allowed.
RiskyContext(c) ==
  c.action # "other" \/ c.class \notin {"observe", "low_risk_actuation"}

\* The outcome of a context: which ones there are, and what allows.
LEMMA OutcomeTyped ==
  ASSUME NEW c \in DeviceContext
  PROVE  LET o == EvaluateOrchestrationAction(c)
         IN  /\ o \in {"allowed", "denied", "requires_approval", "degraded"}
             /\ o = "allowed" => ~RiskyContext(c)
             /\ o \in {"denied", "requires_approval"} => RiskyContext(c)
<1>1. /\ c.class \in EffectClasses /\ c.action \in ActionTypes
      /\ c.action \notin RawCameraActions /\ ~HighRisk(c) => c.action = "other"
  BY DEF DeviceContext, ActionTypes, RawCameraActions, HighRisk
<1>2. /\ OutcomeOfClass["observe"] = "allowed"
      /\ OutcomeOfClass["low_risk_actuation"] = "allowed"
      /\ OutcomeOfClass["medium_risk_actuation"] = "requires_approval"
      /\ OutcomeOfClass["other"] = "denied"
  BY DEF OutcomeOfClass
<1>3. c.action \in RawCameraActions => c.action # "other"
  BY DEF RawCameraActions
<1>4. HighRisk(c) => RiskyContext(c)
  BY DEF HighRisk, HighRiskActionTypes, RiskyContext
<1> QED  BY <1>1, <1>2, <1>3, <1>4 DEF EvaluateOrchestrationAction,
             EffectClasses, HighRisk, RiskyContext

\* What the agent is told of a context.
LEMMA ContextTold ==
  ASSUME NEW c \in DeviceContext
  PROVE  LET o == EvaluateOrchestrationAction(c)
             told == OrchestrationArtifact(c)
         IN  /\ told.decision = "deny" <=> o = "denied"
             /\ told.effects.agentMayContinue <=> o = "allowed"
             /\ told.effects.requiresHumanApproval
                  <=> o \in {"requires_approval", "degraded"}
<1> DEFINE o == EvaluateOrchestrationAction(c)
<1>1. o \in {"allowed", "denied", "requires_approval", "degraded"}
  BY OutcomeTyped
<1>2. /\ OrchestrationArtifact(c).decision = DecisionOf[o]
      /\ OrchestrationArtifact(c).effects = DefaultEffects(DecisionOf[o])
  BY DEF OrchestrationArtifact, Artifact
<1> HIDE DEF o
<1>3. /\ DecisionOf["allowed"] = "allow" /\ DecisionOf["denied"] = "deny"
      /\ DecisionOf["requires_approval"] = "escalate"
      /\ DecisionOf["degraded"] = "defer"
  BY DEF DecisionOf
<1>4. \A d : /\ DefaultEffects(d).agentMayContinue <=> d \notin Stopping
             /\ DefaultEffects(d).requiresHumanApproval
                  <=> d \in {"escalate", "defer", "quarantine"}
  BY DEF DefaultEffects
<1>5. /\ OrchestrationArtifact(c).decision = "deny" <=> o = "denied"
      /\ OrchestrationArtifact(c).effects.agentMayContinue <=> o = "allowed"
      /\ OrchestrationArtifact(c).effects.requiresHumanApproval
           <=> o \in {"requires_approval", "degraded"}
  BY <1>1, <1>2, <1>3, <1>4 DEF Stopping
<1> QED  BY <1>5 DEF o

\* The outcome of a record, and its risk.
LEMMA RecordRuled ==
  ASSUME NEW r \in Record
  PROVE  LET o == EvaluateOrchestrationAction(ContextOf(r))
         IN  /\ o \in {"allowed", "denied", "requires_approval", "degraded"}
             /\ Status(o) = "scheduled" <=> o = "allowed"
             /\ Status(o) \in {"scheduled", "blocked_or_waiting"}
             /\ o = "allowed" => ~Risky(r)
             /\ o \in {"denied", "requires_approval"} => Risky(r)
<1> DEFINE c == ContextOf(r)
           o == EvaluateOrchestrationAction(c)
<1>1. c \in DeviceContext /\ c.class = r.effect
  BY ContextTyped DEF ContextOf
<1>2. RiskyContext(c) <=> Risky(r)
  BY <1>1 DEF RiskyContext, Risky
<1> HIDE DEF c
<1>3. /\ o \in {"allowed", "denied", "requires_approval", "degraded"}
      /\ o = "allowed" => ~RiskyContext(c)
      /\ o \in {"denied", "requires_approval"} => RiskyContext(c)
  BY <1>1, OutcomeTyped
<1> HIDE DEF o
<1>4. /\ Status(o) = "scheduled" <=> o = "allowed"
      /\ Status(o) \in {"scheduled", "blocked_or_waiting"}
  BY <1>3 DEF Status
<1> QED  BY <1>2, <1>3, <1>4 DEF o, c

\* An annotated record is one: its context and its risk are what they were,
\* its evidence is at least that.
LEMMA AnnotateKeeps ==
  ASSUME NEW r \in Record, r.receipts # Null
  PROVE  LET a == Annotate(r)
         IN  /\ a \in Record /\ a # Nothing
             /\ a.outcome = EvaluateOrchestrationAction(ContextOf(a))
             /\ a.status = Status(a.outcome)
             /\ a.receipts # Null
             /\ a.receipts \subseteq a.evidence
             /\ Risky(a) <=> Risky(r)
             /\ r.evidence \subseteq a.evidence
<1> DEFINE a == Annotate(r)
           o == EvaluateOrchestrationAction(ContextOf(r))
<1>1. o \in Outcomes /\ Status(o) \in {"scheduled", "blocked_or_waiting"}
  BY RecordRuled, Zenon DEF Outcomes
<1>2. a = [r EXCEPT !.outcome = o, !.status = Status(o),
                    !.evidence = r.evidence \cup r.receipts]
  BY DEF Annotate
<1> HIDE DEF o, a
<1>3. r.evidence \cup r.receipts \in SUBSET Receipts
  BY DEF Record
<1>4. /\ a \in Record /\ a.outcome = o /\ a.status = Status(o)
      /\ a.receipts = r.receipts /\ a.evidence = r.evidence \cup r.receipts
      /\ a.requested = r.requested /\ a.declared = r.declared
      /\ a.reported = r.reported /\ a.known = r.known /\ a.token = r.token
      /\ a.effect = r.effect /\ a.mode = r.mode
  BY <1>1, <1>2, <1>3 DEF Record
<1>5. ContextOf(a) = ContextOf(r)
  BY <1>4 DEF ContextOf
<1>6. a # Nothing
  BY <1>4, NothingAssumption
<1> QED  BY <1>4, <1>5, <1>6 DEF Risky, o, a

-----------------------------------------------------------------------------
(* The invariant.                                                          *)

\* A batch is the queue annotated: each record with the outcome of its own
\* fields and its receipts among its evidence, with the risk of the queue's
\* record and at least its evidence.
Follows(b) ==
  /\ b \in Batch
  /\ \A i \in Items :
       /\ b[i] = Nothing <=> queue[i] = Nothing
       /\ b[i] # Nothing =>
            /\ b[i].outcome = EvaluateOrchestrationAction(ContextOf(b[i]))
            /\ b[i].status = Status(b[i].outcome)
            /\ b[i].receipts # Null
            /\ b[i].receipts \subseteq b[i].evidence
            /\ Risky(b[i]) <=> Risky(queue[i])
            /\ queue[i].evidence \subseteq b[i].evidence

\* What was heard of a record tells its risk.
HeardSound ==
  \A i \in Items :
    /\ heard[i] \cap {"denied", "requires_approval"} # {} =>
         Held(i) /\ Risky(queue[i])
    /\ "allowed" \in heard[i] => Held(i) /\ ~Risky(queue[i])

QueueSound ==
  \A i \in Items : (Held(i) /\ queue[i].status = "scheduled") => ~Risky(queue[i])

RunSound ==
  IF pc = "idle" THEN held = Nothing ELSE Follows(held)

FileSound == out \notin {Nothing, Torn} => Follows(out)

PoisonSound ==
  Raises(queue) =>
    pc = "idle" /\ out = Nothing /\ \A i \in Items : heard[i] = {}

QueueType ==
  queue \in Batch /\ pc \in {"idle", "annotated", "writing"}
  /\ heard \in [Items -> SUBSET Outcomes]

\* The queue and the annotator, apart from the simulator.
QInv ==
  QueueType /\ HeardSound /\ QueueSound /\ RunSound /\ FileSound /\ PoisonSound

SimType ==
  /\ request \in Request
  /\ simPc \in {"started", "decided", "logged", "printed", "raised"}
  /\ artifact # Nothing => Sound(artifact)

SimStage ==
  /\ simPc = "started" => artifact = Nothing
  /\ simPc \in {"started", "decided"} => log = <<>>
  /\ simPc = "logged" => log = <<artifact>>
  /\ log \in {<<>>, <<artifact>>}

\* The device policy ruled on the tool input as it is.
SimRuled == DeviceRuled => artifact = OrchestrationArtifact(Simulated)

SInv == SimType /\ SimStage /\ SimRuled /\ AgreesWithHook /\ PrintedIsLogged

IInv == QInv /\ SInv

\* An annotated batch follows the queue it was made of.
LEMMA AnnotatedFollows ==
  ASSUME queue \in Batch, ~Raises(queue)
  PROVE  Follows(AnnotateAll(queue))
<1> DEFINE b == AnnotateAll(queue)
<1>1. ASSUME NEW i \in Items, queue[i] = Nothing  PROVE b[i] = Nothing
  BY <1>1 DEF AnnotateAll
<1>2. ASSUME NEW i \in Items, queue[i] # Nothing
      PROVE  /\ b[i] = Annotate(queue[i])
             /\ queue[i] \in Record /\ queue[i].receipts # Null
  BY <1>2 DEF AnnotateAll, Batch, Raises
<1> HIDE DEF b
<1>3. ASSUME NEW i \in Items, queue[i] # Nothing
      PROVE  /\ b[i] \in Record /\ b[i] # Nothing
             /\ b[i].outcome = EvaluateOrchestrationAction(ContextOf(b[i]))
             /\ b[i].status = Status(b[i].outcome)
             /\ b[i].receipts # Null
             /\ b[i].receipts \subseteq b[i].evidence
             /\ Risky(b[i]) <=> Risky(queue[i])
             /\ queue[i].evidence \subseteq b[i].evidence
  <2>1. /\ b[i] = Annotate(queue[i])
        /\ queue[i] \in Record /\ queue[i].receipts # Null
    BY <1>2, <1>3
  <2> QED  BY <2>1, AnnotateKeeps
<1>4. b \in Batch
  <2>1. \A i \in Items : b[i] \in {Nothing} \cup Record
    BY <1>1, <1>3, Zenon
  <2> QED  BY <2>1 DEF AnnotateAll, Batch, b
<1>5. Follows(b)
  BY <1>1, <1>3, <1>4, Zenon DEF Follows
<1> QED  BY <1>5 DEF b

\* A record of an annotated batch: its outcome tells its risk.
LEMMA FollowsRisk ==
  ASSUME NEW b, Follows(b), NEW i \in Items, b[i] # Nothing
  PROVE  /\ b[i] \in Record /\ Held(i)
         /\ b[i].outcome \in Outcomes
         /\ b[i].outcome = "allowed" => ~Risky(queue[i])
         /\ b[i].outcome \in {"denied", "requires_approval"} =>
              Risky(queue[i])
         /\ b[i].status = "scheduled" => ~Risky(b[i])
<1>1. b[i] \in Record /\ queue[i] # Nothing
  BY DEF Follows, Batch
<1>2. /\ b[i].outcome = EvaluateOrchestrationAction(ContextOf(b[i]))
      /\ b[i].status = Status(b[i].outcome)
      /\ Risky(b[i]) <=> Risky(queue[i])
  BY DEF Follows
<1>3. /\ b[i].outcome \in {"allowed", "denied", "requires_approval", "degraded"}
      /\ Status(b[i].outcome) = "scheduled" <=> b[i].outcome = "allowed"
      /\ b[i].outcome = "allowed" => ~Risky(b[i])
      /\ b[i].outcome \in {"denied", "requires_approval"} => Risky(b[i])
  BY <1>1, <1>2, RecordRuled, Zenon
<1> QED  BY <1>1, <1>2, <1>3 DEF Held, Outcomes

-----------------------------------------------------------------------------
(* The steps of the queue and of the annotator.                            *)

\* Another event or receipt for a record leaves its risk, its status and its
\* evidence.
LEMMA ChangeKeeps ==
  ASSUME QInv, NEW i \in Items, Held(i), NEW r \in Record, Change(i, r),
         Risky(r) <=> Risky(queue[i]), r.status = queue[i].status,
         r.evidence = queue[i].evidence,
         (r.receipts = Null) <=> (queue[i].receipts = Null)
  PROVE  QInv'
<1> USE DEF QInv
<1>1. /\ queue' = [queue EXCEPT ![i] = r]
      /\ UNCHANGED <<pc, held, out, heard>>
  BY DEF Change
<1>2. r # Nothing
  BY NothingAssumption
<1>3. /\ queue' \in Batch /\ queue'[i] = r
      /\ \A j \in Items : j # i => queue'[j] = queue[j]
  BY <1>1 DEF QueueType, Batch
<1>4. \A j \in Items : /\ queue'[j] = Nothing <=> queue[j] = Nothing
                       /\ Risky(queue'[j]) <=> Risky(queue[j])
                       /\ queue'[j].status = queue[j].status
                       /\ queue'[j].evidence = queue[j].evidence
                       /\ (queue'[j].receipts = Null) <=> (queue[j].receipts = Null)
  BY <1>2, <1>3, Zenon DEF Held
<1>5. ASSUME NEW b, Follows(b)  PROVE Follows(b)'
  BY <1>4, <1>5 DEF Follows
<1>6. QueueType' /\ HeardSound' /\ QueueSound'
  BY <1>1, <1>3, <1>4 DEF QueueType, HeardSound, QueueSound, Held
<1>7. RunSound' /\ FileSound'
  <2>1. pc' # "idle" => Follows(held)'
    BY <1>1, <1>5 DEF RunSound
  <2>2. out' \notin {Nothing, Torn} => Follows(out)'
    BY <1>1, <1>5 DEF FileSound
  <2> QED  BY <1>1, <2>1, <2>2 DEF RunSound, FileSound, Follows
<1>8. PoisonSound'
  BY <1>1, <1>4 DEF PoisonSound, Raises
<1> QED  BY <1>6, <1>7, <1>8

\* The annotated file becomes the queue.
LEMMA AdoptKeeps ==
  ASSUME QInv, Adopt  PROVE QInv'
<1> USE DEF QInv
<1>1. /\ pc = "idle" /\ out \notin {Nothing, Torn} /\ queue' = out
      /\ out' = Nothing /\ UNCHANGED <<pc, held, heard>>
  BY DEF Adopt
<1>2. Follows(out) /\ queue' \in Batch
  BY <1>1 DEF FileSound, Follows
<1>3. \A i \in Items : /\ queue'[i] = Nothing <=> queue[i] = Nothing
                       /\ queue'[i] # Nothing =>
                            /\ Risky(queue'[i]) <=> Risky(queue[i])
                            /\ queue'[i].receipts # Null
                            /\ queue'[i].status = "scheduled" => ~Risky(queue'[i])
  BY <1>1, <1>2, FollowsRisk DEF Follows
<1>4. QueueType' /\ HeardSound' /\ QueueSound'
  BY <1>1, <1>2, <1>3 DEF QueueType, HeardSound, QueueSound, Held
<1>5. ~Raises(queue)'
  BY <1>3 DEF Raises
<1> QED  BY <1>1, <1>4, <1>5 DEF RunSound, FileSound, PoisonSound

\* The annotator reads, opens, writes, or is killed.
LEMMA RunKeeps ==
  ASSUME QInv, ReadQueue \/ OpenOutput \/ WriteOutput \/ Kill
  PROVE  QInv'
<1> USE DEF QInv
<1>1. CASE ReadQueue
  <2>1. /\ pc = "idle" /\ ~Raises(queue) /\ pc' = "annotated"
        /\ held' = AnnotateAll(queue) /\ UNCHANGED <<queue, out, heard>>
    BY <1>1 DEF ReadQueue
  <2>2. Follows(held)'
    BY <2>1, AnnotatedFollows DEF QueueType, Follows
  <2> QED  BY <2>1, <2>2 DEF QueueType, HeardSound, QueueSound, RunSound,
                FileSound, PoisonSound, Held, Raises, Follows
<1>2. CASE OpenOutput
  <2>1. /\ pc = "annotated" /\ pc' = "writing" /\ out' = Torn
        /\ UNCHANGED <<queue, held, heard>>
    BY <1>2 DEF OpenOutput
  <2>2. ~Raises(queue)
    BY <2>1 DEF PoisonSound
  <2> QED  BY <2>1, <2>2 DEF QueueType, HeardSound, QueueSound, RunSound,
                FileSound, PoisonSound, Held, Raises, Follows
<1>3. CASE WriteOutput
  <2>1. /\ pc = "writing" /\ pc' = "idle" /\ held' = Nothing /\ out' = held
        /\ queue' = queue
        /\ heard' = [i \in Items |-> IF held[i] = Nothing THEN heard[i]
                                     ELSE heard[i] \cup {held[i].outcome}]
    BY <1>3 DEF WriteOutput
  <2>2. Follows(held) /\ ~Raises(queue)
    BY <2>1 DEF RunSound, PoisonSound
  <2>3. ASSUME NEW i \in Items
        PROVE  /\ heard'[i] \in SUBSET Outcomes
               /\ heard'[i] \cap {"denied", "requires_approval"} # {} =>
                    Held(i) /\ Risky(queue[i])
               /\ "allowed" \in heard'[i] => Held(i) /\ ~Risky(queue[i])
    <3>1. CASE held[i] = Nothing
      BY <2>1, <3>1 DEF QueueType, HeardSound
    <3>2. CASE held[i] # Nothing
      <4>1. heard'[i] = heard[i] \cup {held[i].outcome}
        BY <2>1, <3>2
      <4>2. /\ Held(i) /\ held[i].outcome \in Outcomes
            /\ held[i].outcome = "allowed" => ~Risky(queue[i])
            /\ held[i].outcome \in {"denied", "requires_approval"} =>
                 Risky(queue[i])
        BY <2>2, <3>2, FollowsRisk
      <4> QED  BY <4>1, <4>2 DEF QueueType, HeardSound
    <3> QED  BY <3>1, <3>2
  <2>4. QueueType' /\ HeardSound'
    BY <2>1, <2>3 DEF QueueType, HeardSound, Held
  <2> QED  BY <2>1, <2>2, <2>4 DEF QueueSound, RunSound, FileSound,
                PoisonSound, Held, Raises, Follows
<1>4. CASE Kill
  BY <1>4 DEF Kill, QueueType, HeardSound, QueueSound, RunSound, FileSound,
              PoisonSound, Held, Raises, Follows
<1> QED  BY <1>1, <1>2, <1>3, <1>4

\* A step of the simulator.
SimStep == Simulate \/ Unreadable \/ LogDecision \/ LogFails \/ PrintDecision

QueueStep ==
  \/ \E i \in Items : \/ \E health \in Healths : Report(i, health)
                      \/ Approve(i)
                      \/ \E receipt \in Receipts : Receive(i, receipt)
  \/ Adopt \/ ReadQueue \/ OpenOutput \/ WriteOutput \/ Kill

\* A step is one of the queue or one of the simulator, and leaves the other.
LEMMA StepsApart ==
  Next <=> \/ QueueStep /\ UNCHANGED simVars
           \/ SimStep /\ UNCHANGED queueVars
BY DEF Next, QueueStep, SimStep, Report, Approve, Receive, Change, Adopt,
       ReadQueue, OpenOutput, WriteOutput, Kill, Simulate, Unreadable,
       LogDecision, LogFails, PrintDecision, SimGoto

\* Every step of the queue keeps its part of the invariant.
LEMMA QueueKeeps ==
  ASSUME QInv, QueueStep  PROVE QInv'
<1>1. ASSUME NEW i \in Items, Held(i)  PROVE queue[i] \in Record
  BY <1>1 DEF QInv, QueueType, Batch, Held
<1>2. ASSUME NEW i \in Items, NEW health \in Healths, Report(i, health)
      PROVE  QInv'
  <2> DEFINE r == [queue[i] EXCEPT !.reported = health]
  <2>1. Held(i) /\ Change(i, r) /\ queue[i] \in Record
    BY <1>1, <1>2 DEF Report
  <2>2. /\ r \in Record /\ r.status = queue[i].status
        /\ r.evidence = queue[i].evidence /\ r.receipts = queue[i].receipts
        /\ r.requested = queue[i].requested /\ r.declared = queue[i].declared
        /\ r.effect = queue[i].effect
    BY <2>1 DEF Record
  <2> HIDE DEF r
  <2>3. Risky(r) <=> Risky(queue[i])
    BY <2>2 DEF Risky, ContextOf
  <2> QED  BY <2>1, <2>2, <2>3, ChangeKeeps
<1>3. ASSUME NEW i \in Items, Approve(i)  PROVE QInv'
  <2> DEFINE r == [queue[i] EXCEPT !.token = TRUE]
  <2>1. Held(i) /\ Change(i, r) /\ queue[i] \in Record
    BY <1>1, <1>3 DEF Approve
  <2>2. /\ r \in Record /\ r.status = queue[i].status
        /\ r.evidence = queue[i].evidence /\ r.receipts = queue[i].receipts
        /\ r.requested = queue[i].requested /\ r.declared = queue[i].declared
        /\ r.effect = queue[i].effect
    BY <2>1 DEF Record
  <2> HIDE DEF r
  <2>3. Risky(r) <=> Risky(queue[i])
    BY <2>2 DEF Risky, ContextOf
  <2> QED  BY <2>1, <2>2, <2>3, ChangeKeeps
<1>4. ASSUME NEW i \in Items, NEW receipt \in Receipts, Receive(i, receipt)
      PROVE  QInv'
  <2> DEFINE r == [queue[i] EXCEPT !.receipts = queue[i].receipts \cup {receipt}]
  <2>1. /\ Held(i) /\ Change(i, r) /\ queue[i] \in Record
        /\ queue[i].receipts # Null
    BY <1>1, <1>4 DEF Receive
  <2>2. /\ queue[i].receipts \cup {receipt} \in SUBSET Receipts
        /\ queue[i].receipts \cup {receipt} # Null
    BY <2>1, NullAssumption DEF Record
  <2>3. /\ r \in Record /\ r.status = queue[i].status
        /\ r.evidence = queue[i].evidence /\ r.receipts # Null
        /\ r.requested = queue[i].requested /\ r.declared = queue[i].declared
        /\ r.effect = queue[i].effect
    BY <2>1, <2>2 DEF Record
  <2> HIDE DEF r
  <2>4. Risky(r) <=> Risky(queue[i])
    BY <2>3 DEF Risky, ContextOf
  <2> QED  BY <2>1, <2>3, <2>4, ChangeKeeps
<1> QED  BY <1>2, <1>3, <1>4, AdoptKeeps, RunKeeps DEF QueueStep

-----------------------------------------------------------------------------
(* The steps of the simulator.                                             *)

\* The simulator decides on a sound artifact.
LEMMA SimulatedSound ==
  ASSUME SimType
  PROVE  Sound(SimulatedDecision)
<1> USE ArtifactSays DEF Decision
<1>1. Sound(OversizedPayload) /\ Sound(RequiredPolicyLoadFailed)
  BY DEF OversizedPayload, RequiredPolicyLoadFailed
<1>2. Sound(Artifact("core/simulated-event", "allow", "info"))
  OBVIOUS
<1> HIDE ArtifactSays DEF Decision
<1>3. Sound(Fallback)
  BY <1>1, <1>2 DEF Fallback, DecisionFromEvent
<1>4. CASE request.device
  <2> DEFINE o == EvaluateOrchestrationAction(Simulated)
  <2>1. Simulated \in DeviceContext
    BY InputTyped DEF SimType, Request, Simulated
  <2>2. o \in {"allowed", "denied", "requires_approval", "degraded"}
    BY <2>1, OutcomeTyped, Zenon
  <2>3. SimulatedDecision
          = Artifact("guardrail-fabric/device-orchestration",
                     DecisionOf[o], SeverityOf[o])
    BY <1>4 DEF SimulatedDecision, OrchestrationArtifact, Simulated
  <2> HIDE DEF o
  <2>4. DecisionOf[o] \in Decision
    BY <2>2 DEF DecisionOf, Decision
  <2> QED  BY <2>3, <2>4, ArtifactSays
<1>5. CASE ~request.device
  BY <1>3, <1>5, BaselineSound DEF SimulatedDecision
<1> QED  BY <1>4, <1>5

\* Outside the device route, and but for a size within the limit, the
\* simulator decides as the hook.
LEMMA SimulatedAsHook ==
  ASSUME SimType, request.baseline, ~request.device,
         request.size = NoSize \/ TooLarge \/ request.policyError
  PROVE  SimulatedDecision = HookDecision
<1>1. CASE request.size = NoSize
  <2>1. ~TooLarge /\ ~Oversized(0, Limit)
    BY <1>1, LimitAssumption DEF TooLarge, Oversized
  <2> QED  BY <1>1, <2>1 DEF SimulatedDecision, Fallback, DecisionFromEvent,
                HookDecision
<1>2. CASE request.size # NoSize
  <2>1. TooLarge <=> Oversized(request.size, Limit)
    BY <1>2 DEF TooLarge
  <2> QED  BY <1>2, <2>1 DEF SimulatedDecision, Fallback, DecisionFromEvent,
                HookDecision
<1> QED  BY <1>1, <1>2

\* Every step of the simulator keeps its part of the invariant.
LEMMA SimKeeps ==
  ASSUME SInv, SimStep  PROVE SInv'
<1> USE DEF SInv
<1>1. request' = request
  BY DEF SimStep, Simulate, Unreadable, LogDecision, LogFails, PrintDecision,
         SimGoto
<1>2. CASE Simulate
  <2>1. /\ simPc = "started" /\ simPc' = "decided"
        /\ artifact' = SimulatedDecision /\ log' = log
    BY <1>2 DEF Simulate, SimGoto
  <2>2. SimType'
    BY <1>1, <2>1, SimulatedSound DEF SimType
  <2>3. AgreesWithHook'
    <3>1. HookDecision' = HookDecision /\ TooLarge' = TooLarge
      BY <1>1 DEF HookDecision, TooLarge
    <3> QED  BY <1>1, <2>1, <3>1, SimulatedAsHook DEF AgreesWithHook
  <2>4. SimRuled'
    BY <1>1, <2>1 DEF SimRuled, DeviceRuled, Simulated, SimulatedDecision
  <2> QED  BY <2>1, <2>2, <2>3, <2>4 DEF SimStage, PrintedIsLogged
<1>3. CASE Unreadable \/ LogDecision \/ LogFails \/ PrintDecision
  <2>1. artifact' = artifact
    BY <1>3 DEF Unreadable, LogDecision, LogFails, PrintDecision
  <2>2. AgreesWithHook'
    <3>1. HookDecision' = HookDecision /\ TooLarge' = TooLarge
      BY <1>1 DEF HookDecision, TooLarge
    <3> QED  BY <1>1, <2>1, <3>1 DEF AgreesWithHook
  <2>3. SimType' /\ SimStage' /\ PrintedIsLogged'
    <3>1. CASE Unreadable \/ LogFails
      <4>1. simPc' = "raised" /\ log' = log
        BY <3>1 DEF Unreadable, LogFails, SimGoto
      <4> QED  BY <1>1, <2>1, <4>1 DEF SimType, SimStage, PrintedIsLogged
    <3>2. CASE LogDecision
      <4>1. /\ simPc = "decided" /\ simPc' = "logged"
            /\ log' = Append(log, artifact)
        BY <3>2 DEF LogDecision, SimGoto
      <4>2. log' = <<artifact>>
        BY <4>1 DEF SimStage
      <4> QED  BY <1>1, <2>1, <4>1, <4>2 DEF SimType, SimStage, PrintedIsLogged
    <3>3. CASE PrintDecision
      <4>1. /\ request.writeLog => simPc = "logged"
            /\ simPc' = "printed" /\ log' = log
        BY <3>3 DEF PrintDecision, SimGoto
      <4> QED  BY <1>1, <2>1, <4>1 DEF SimType, SimStage, PrintedIsLogged
    <3> QED  BY <1>3, <3>1, <3>2, <3>3
  <2>4. SimRuled'
    BY <1>1, <2>1 DEF SimRuled, DeviceRuled, Simulated
  <2> QED  BY <2>2, <2>3, <2>4
<1> QED  BY <1>2, <1>3 DEF SimStep

-----------------------------------------------------------------------------
(* The theorems.                                                           *)

\* The invariant holds at first.
LEMMA InitIInv == Init => IInv
<1> SUFFICES ASSUME Init  PROVE IInv
  OBVIOUS
<1>1. PICK start \in Starts : queue = start.queue /\ request = start.request
  BY DEF Init
<1>2. /\ queue \in Batch /\ request \in Request
      /\ \A i \in Items : queue[i] # Nothing => Fresh(queue[i])
  BY <1>1, StartsAssumption
<1>3. QInv
  BY <1>2 DEF Init, QInv, QueueType, HeardSound, QueueSound, RunSound,
              FileSound, PoisonSound, Held, Fresh
<1>4. SInv
  BY <1>2 DEF Init, SInv, SimType, SimStage, SimRuled, DeviceRuled,
              AgreesWithHook, PrintedIsLogged
<1> QED  BY <1>3, <1>4 DEF IInv

\* The invariant is inductive.
LEMMA Inductive == Spec => []IInv
<1>1. IInv /\ [Next]_vars => IInv'
  <2> SUFFICES ASSUME IInv, [Next]_vars  PROVE IInv'
    OBVIOUS
  <2>1. UNCHANGED queueVars => QInv'
    BY DEF IInv, queueVars, QInv, QueueType, HeardSound, QueueSound, RunSound,
           FileSound, PoisonSound, Held, Raises, Follows
  <2>2. UNCHANGED simVars => SInv'
    BY DEF IInv, simVars, SInv, SimType, SimStage, SimRuled, DeviceRuled,
           Simulated, AgreesWithHook, PrintedIsLogged, HookDecision, TooLarge
  <2>3. CASE QueueStep /\ UNCHANGED simVars
    BY <2>2, <2>3, QueueKeeps DEF IInv
  <2>4. CASE SimStep /\ UNCHANGED queueVars
    BY <2>1, <2>4, SimKeeps DEF IInv
  <2>5. CASE UNCHANGED vars
    BY <2>1, <2>2, <2>5 DEF vars, IInv
  <2> QED  BY <2>3, <2>4, <2>5, StepsApart
<1> QED  BY <1>1, InitIInv, PTL DEF Spec

\* TypeOK, for any queue and command line.
THEOREM TypeCorrect == Spec => []TypeOK
<1>1. IInv => TypeOK
  BY DEF IInv, QInv, SInv, QueueType, RunSound, FileSound, Follows, SimType,
         SimStage, Sound, TypeOK
<1> QED  BY <1>1, Inductive, PTL

\* RiskyNeverScheduled, whatever is requested, declared or approved.
THEOREM RiskWaits == Spec => []RiskyNeverScheduled
<1>1. IInv => RiskyNeverScheduled
  <2> SUFFICES ASSUME IInv, NEW b \in Batches, NEW i \in Items,
                      b[i] # Nothing, b[i].status = "scheduled"
               PROVE  ~Risky(b[i])
    BY DEF RiskyNeverScheduled
  <2>1. b = queue \/ Follows(b)
    BY DEF Batches, IInv, QInv, RunSound, FileSound
  <2>2. CASE b = queue
    BY <2>2 DEF IInv, QInv, QueueSound, Held
  <2>3. CASE Follows(b)
    BY <2>3, FollowsRisk
  <2> QED  BY <2>1, <2>2, <2>3
<1> QED  BY <1>1, Inductive, PTL

\* DenialIsFinal, through any replays.
THEOREM DenialsStand == Spec => []DenialIsFinal
<1>1. IInv => DenialIsFinal
  BY DEF IInv, QInv, HeardSound, DenialIsFinal
<1> QED  BY <1>1, Inductive, PTL

\* An annotated batch that is annotated again stays as it is.
LEMMA AnnotatedStable ==
  ASSUME NEW b, Follows(b)
  PROVE  ~Raises(b) /\ AnnotateAll(b) = b
<1>1. b \in [Items -> {Nothing} \cup Record]
  BY DEF Follows, Batch
<1>2. ASSUME NEW i \in Items, b[i] # Nothing
      PROVE  Annotate(b[i]) = b[i]
  <2> DEFINE r == b[i]
             o == EvaluateOrchestrationAction(ContextOf(r))
  <2>1. r \in Record
    BY <1>1, <1>2
  <2>2. r.outcome = o /\ r.status = Status(o)
        /\ r.evidence \cup r.receipts = r.evidence
    BY <1>2 DEF Follows
  <2>3. Annotate(r) = [r EXCEPT !.outcome = o, !.status = Status(o),
                               !.evidence = r.evidence \cup r.receipts]
    BY DEF Annotate
  <2> HIDE DEF r, o
  <2>4. Annotate(r) = [r EXCEPT !.outcome = r.outcome, !.status = r.status,
                               !.evidence = r.evidence]
    BY <2>2, <2>3
  <2>5. Annotate(r) = r
    BY <2>1, <2>4 DEF Record
  <2> QED  BY <2>5 DEF r
<1>3. \A i \in Items :
        (IF b[i] = Nothing THEN Nothing ELSE Annotate(b[i])) = b[i]
  BY <1>2
<1>4. AnnotateAll(b) = [i \in Items |-> b[i]]
  BY <1>3 DEF AnnotateAll
<1>5. ~Raises(b)
  BY DEF Follows, Raises
<1> QED  BY <1>1, <1>4, <1>5

\* ReplayStable, for batches of any size.
THEOREM ReplaysStable == Spec => []ReplayStable
<1>1. IInv => ReplayStable
  BY AnnotatedStable DEF IInv, QInv, RunSound, FileSound, ReplayStable
<1> QED  BY <1>1, Inductive, PTL

\* SimulatorAgrees, for any tool input, any records, and any reports,
\* approvals and runs before and after the simulation.
THEOREM SameAnswers == Spec => []SimulatorAgrees
<1>1. ASSUME IInv, DeviceRuled
      PROVE  Simulated \in DeviceContext /\ artifact = OrchestrationArtifact(Simulated)
  BY <1>1, InputTyped DEF IInv, SInv, SimType, SimRuled, Request, Simulated
<1>2. ASSUME IInv, DeviceRuled  PROVE SameContext
  <2> SUFFICES ASSUME NEW b \in {held, out} \ {Nothing, Torn}, NEW i \in Items,
                      b[i] # Nothing, ContextOf(b[i]) = Simulated
               PROVE  /\ artifact.effects.agentMayContinue
                           <=> b[i].status = "scheduled"
                      /\ artifact.effects.requiresHumanApproval
                           <=> b[i].outcome \in {"requires_approval", "degraded"}
    BY DEF SameContext
  <2>1. Follows(b)
    BY <1>2 DEF IInv, QInv, RunSound, FileSound
  <2>2. /\ b[i] \in Record
        /\ b[i].outcome = EvaluateOrchestrationAction(Simulated)
        /\ b[i].status = Status(b[i].outcome)
    BY <2>1 DEF Follows, Batch
  <2>3. b[i].status = "scheduled" <=> b[i].outcome = "allowed"
    BY <2>2, RecordRuled
  <2> QED  BY <1>1, <1>2, <2>2, <2>3, ContextTold
<1>3. ASSUME IInv, DeviceRuled  PROVE SameAction
  <2> SUFFICES ASSUME NEW i \in Items, Held(i),
                      ContextOf(queue[i]).action = Simulated.action,
                      ContextOf(queue[i]).class = Simulated.class
               PROVE  /\ artifact.effects.agentMayContinue =>
                           heard[i] \cap {"denied", "requires_approval"} = {}
                      /\ artifact.decision = "deny" => "allowed" \notin heard[i]
    BY DEF SameAction
  <2>1. Risky(queue[i]) <=> RiskyContext(Simulated)
    BY DEF Risky, RiskyContext, ContextOf
  <2>2. /\ artifact.effects.agentMayContinue => ~RiskyContext(Simulated)
        /\ artifact.decision = "deny" => RiskyContext(Simulated)
    BY <1>1, <1>3, OutcomeTyped, ContextTold
  <2> QED  BY <1>3, <2>1, <2>2 DEF IInv, QInv, HeardSound
<1>4. IInv => SimulatorAgrees
  BY <1>2, <1>3 DEF SimulatorAgrees
<1> QED  BY <1>4, Inductive, PTL

\* PoisonedBatchWaits, for queues of any size.
THEOREM PoisonWaits == Spec => []PoisonedBatchWaits
<1>1. IInv => PoisonedBatchWaits
  BY DEF IInv, QInv, PoisonSound, PoisonedBatchWaits
<1> QED  BY <1>1, Inductive, PTL

\* AgreesWithHook, for any event and any limit.
THEOREM HookForecast == Spec => []AgreesWithHook
<1>1. IInv => AgreesWithHook
  BY DEF IInv, SInv
<1> QED  BY <1>1, Inductive, PTL

\* PrintedIsLogged, for any command line.
THEOREM LoggedFirst == Spec => []PrintedIsLogged
<1>1. IInv => PrintedIsLogged
  BY DEF IInv, SInv
<1> QED  BY <1>1, Inductive, PTL

\* EvidenceGrows, whatever is received, replayed or killed.
THEOREM EvidenceKept == Spec => EvidenceGrows
<1>1. ASSUME IInv, [Next]_vars, NEW i \in Items, Held(i)
      PROVE  /\ queue'[i] # Nothing
             /\ queue[i].evidence \subseteq queue'[i].evidence
  <2>1. queue \in Batch /\ queue[i] \in Record
    BY <1>1 DEF IInv, QInv, QueueType, Batch, Held
  <2>2. ASSUME NEW j \in Items, NEW r \in Record, Change(j, r),
               r.evidence = queue[j].evidence
        PROVE  /\ queue'[i] # Nothing
               /\ queue[i].evidence \subseteq queue'[i].evidence
    BY <1>1, <2>1, <2>2, NothingAssumption DEF Change, Batch, Held
  <2>3. \A j \in Items : Held(j) => queue[j] \in Record
    BY <2>1 DEF Batch, Held
  <2>4. ASSUME NEW j \in Items, NEW health \in Healths, Report(j, health)
        PROVE  /\ queue'[i] # Nothing
               /\ queue[i].evidence \subseteq queue'[i].evidence
    <3> DEFINE r == [queue[j] EXCEPT !.reported = health]
    <3>1. Change(j, r) /\ r \in Record /\ r.evidence = queue[j].evidence
      BY <2>3, <2>4 DEF Report, Record
    <3> HIDE DEF r
    <3> QED  BY <2>2, <3>1
  <2>5. ASSUME NEW j \in Items, Approve(j)
        PROVE  /\ queue'[i] # Nothing
               /\ queue[i].evidence \subseteq queue'[i].evidence
    <3> DEFINE r == [queue[j] EXCEPT !.token = TRUE]
    <3>1. Change(j, r) /\ r \in Record /\ r.evidence = queue[j].evidence
      BY <2>3, <2>5 DEF Approve, Record
    <3> HIDE DEF r
    <3> QED  BY <2>2, <3>1
  <2>6. ASSUME NEW j \in Items, NEW receipt \in Receipts, Receive(j, receipt)
        PROVE  /\ queue'[i] # Nothing
               /\ queue[i].evidence \subseteq queue'[i].evidence
    <3> DEFINE r == [queue[j] EXCEPT !.receipts = queue[j].receipts \cup {receipt}]
    <3>1. Held(j) /\ Change(j, r) /\ queue[j].receipts # Null
      BY <2>6 DEF Receive
    <3>2. queue[j].receipts \cup {receipt} \in SUBSET Receipts
      BY <2>3, <3>1 DEF Record
    <3>3. r \in Record /\ r.evidence = queue[j].evidence
      BY <2>3, <3>1, <3>2 DEF Record
    <3> HIDE DEF r
    <3> QED  BY <2>2, <3>1, <3>3
  <2>7. CASE Adopt
    <3>1. out \notin {Nothing, Torn} /\ queue' = out
      BY <2>7 DEF Adopt
    <3> QED  BY <1>1, <3>1 DEF IInv, QInv, FileSound, Follows, Held
  <2>8. CASE queue' = queue
    BY <1>1, <2>8 DEF Held
  <2>9. ReadQueue \/ OpenOutput \/ WriteOutput \/ Kill \/ SimStep \/ UNCHANGED vars
          => queue' = queue
    BY DEF ReadQueue, OpenOutput, WriteOutput, Kill, SimStep, Simulate,
           Unreadable, LogDecision, LogFails, PrintDecision, SimGoto, vars,
           queueVars
  <2> QED  BY <1>1, <2>4, <2>5, <2>6, <2>7, <2>8, <2>9, StepsApart DEF QueueStep
<1>2. IInv /\ [Next]_vars =>
        [\A i \in Items :
           Held(i) => /\ queue'[i] # Nothing
                      /\ queue[i].evidence \subseteq queue'[i].evidence]_vars
  BY <1>1
<1> QED  BY <1>2, Inductive, PTL DEF Spec, EvidenceGrows
=============================================================================
