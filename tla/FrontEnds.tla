----------------------------- MODULE FrontEnds -----------------------------
(***************************************************************************)
(* The two command lines beside the hook adapter.  The event-capability    *)
(* command reads a queue of records and writes them annotated to a file,   *)
(* from which the queue is filled again; meanwhile adapters report their   *)
(* health, users approve and receipts arrive.  The simulator evaluates one *)
(* event, logs the decision when asked to, and prints it.                  *)
(***************************************************************************)
EXTENDS DeviceOrchestration, BaselinePolicies

CONSTANTS
  Items,      \* the places of the queue
  Starts,     \* first contents of the queue, with a command line of the
              \* simulator
  Limit,      \* payload limit, in bytes
  Nothing,    \* no record, no batch, no file, no artifact
  Torn,       \* a file opened for writing and not written
  NoSize      \* no payload size given

\* A place may hold something that is not an object.
Batch == [Items -> {Nothing} \cup Record]

\* Of the tool input, what the device policy reads and what the pack reads.
Request ==
  [readable : BOOLEAN, device : BOOLEAN, baseline : BOOLEAN, input : Input,
   ctx : Context, size : {NoSize} \cup Nat, policyError : BOOLEAN,
   writeLog : BOOLEAN]

\* A record nobody has annotated yet.
Fresh(r) == r.outcome = "absent" /\ r.status = "absent"

ASSUME StartsAssumption ==
  \A start \in Starts :
    /\ start.request \in Request
    /\ start.queue \in Batch
    /\ \A i \in Items : start.queue[i] # Nothing => Fresh(start.queue[i])
ASSUME LimitAssumption == Limit \in Nat
ASSUME NothingAssumption == Nothing \notin Record
ASSUME NoSizeAssumption == NoSize \notin Nat

VARIABLES
  queue,     \* the records SourceOS holds
  pc,        \* where the annotator is
  held,      \* the annotated batch it has in memory
  out,       \* the file it writes
  heard,     \* the outcomes every record was ever written with
  request,   \* the command line of the simulator
  simPc,     \* where the simulator is
  artifact,  \* the decision it came to
  log        \* the decision log

queueVars == <<queue, pc, held, out, heard>>
simVars == <<request, simPc, artifact, log>>
vars == <<queueVars, simVars>>

Init ==
  /\ \E start \in Starts : queue = start.queue /\ request = start.request
  /\ pc = "idle" /\ held = Nothing /\ out = Nothing
  /\ heard = [i \in Items |-> {}]
  /\ simPc = "started" /\ artifact = Nothing /\ log = <<>>

-----------------------------------------------------------------------------
(* The queue.                                                              *)

Held(i) == queue[i] # Nothing

Change(i, r) ==
  /\ queue' = [queue EXCEPT ![i] = r]
  /\ UNCHANGED <<pc, held, out, heard, simVars>>

\* An adapter's health comes with the event.
Report(i, health) == Held(i) /\ Change(i, [queue[i] EXCEPT !.reported = health])

\* A user hands out an approval token.
Approve(i) == Held(i) /\ Change(i, [queue[i] EXCEPT !.token = TRUE])

\* A receipt arrives for a record that was ruled.
Receive(i, receipt) ==
  /\ Held(i) /\ queue[i].outcome # "absent" /\ queue[i].receipts # Null
  /\ Change(i, [queue[i] EXCEPT !.receipts = @ \cup {receipt}])

\* Between two runs the annotated file becomes the queue.
Adopt ==
  /\ pc = "idle" /\ out \notin {Nothing, Torn}
  /\ queue' = out
  /\ out' = Nothing
  /\ UNCHANGED <<pc, held, heard, simVars>>

-----------------------------------------------------------------------------
(* The annotator.                                                          *)

\* One null list of receipts, and the whole batch raises.
Raises(batch) == \E i \in Items : batch[i] # Nothing /\ batch[i].receipts = Null

\* extract_records and annotate_event_capability_records
AnnotateAll(batch) ==
  [i \in Items |-> IF batch[i] = Nothing THEN Nothing ELSE Annotate(batch[i])]

\* A run that raises has written nothing and leaves everything as it was.
ReadQueue ==
  /\ pc = "idle" /\ ~Raises(queue)
  /\ pc' = "annotated"
  /\ held' = AnnotateAll(queue)
  /\ UNCHANGED <<queue, out, heard, simVars>>

\* write_text truncates the file before it writes it.
OpenOutput ==
  /\ pc = "annotated"
  /\ pc' = "writing"
  /\ out' = Torn
  /\ UNCHANGED <<queue, held, heard, simVars>>

WriteOutput ==
  /\ pc = "writing"
  /\ pc' = "idle" /\ held' = Nothing
  /\ out' = held
  /\ heard' = [i \in Items |-> IF held[i] = Nothing THEN heard[i]
                               ELSE heard[i] \cup {held[i].outcome}]
  /\ UNCHANGED <<queue, simVars>>

\* The annotator is killed; the file stays as it is.
Kill ==
  /\ pc # "idle"
  /\ pc' = "idle" /\ held' = Nothing
  /\ UNCHANGED <<queue, out, heard, simVars>>

-----------------------------------------------------------------------------
(* The simulator.                                                          *)

TooLarge == request.size # NoSize /\ Oversized(request.size, Limit)

\* The fallback of an event with a size or a policy error, and of any event
\* without --baseline.
Fallback ==
  DecisionFromEvent("core/simulated-event",
                    IF request.size = NoSize THEN 0 ELSE request.size,
                    Limit, request.policyError)

\* Mutant of SimulatedDecision: the pack is asked whatever the error.
SimulatedDecision_ErrorIgnored ==
  IF request.device THEN OrchestrationArtifact(WithDefaults(request.input))
  ELSE IF request.baseline /\ request.size = NoSize
       THEN EvaluateBaseline(request.ctx)
  ELSE Fallback

\* Three routes: the device policy, the pack and the fallback.  The device
\* policy gets the tool input as it is: no record is made a context of here.
SimulatedDecision ==
  IF request.device THEN OrchestrationArtifact(WithDefaults(request.input))
  ELSE IF request.baseline /\ request.size = NoSize /\ ~request.policyError
       THEN EvaluateBaseline(request.ctx)
  ELSE Fallback

SimGoto(from, to) ==
  /\ simPc \in from
  /\ simPc' = to
  /\ UNCHANGED <<queueVars, request>>

Simulate ==
  /\ request.readable
  /\ SimGoto({"started"}, "decided")
  /\ artifact' = SimulatedDecision
  /\ UNCHANGED log

\* Input that is no JSON, or no object for the device policy, ends the
\* run before there is a decision.
Unreadable ==
  /\ ~request.readable
  /\ SimGoto({"started"}, "raised")
  /\ UNCHANGED <<artifact, log>>

LogDecision ==
  /\ request.writeLog
  /\ SimGoto({"decided"}, "logged")
  /\ log' = Append(log, artifact)
  /\ UNCHANGED artifact

\* An error of the log ends the run with nothing printed.
LogFails ==
  /\ request.writeLog
  /\ SimGoto({"decided"}, "raised")
  /\ UNCHANGED <<artifact, log>>

PrintDecision ==
  /\ SimGoto(IF request.writeLog THEN {"logged"} ELSE {"decided"}, "printed")
  /\ UNCHANGED <<artifact, log>>

Next ==
  \/ \E i \in Items : \/ \E health \in Healths : Report(i, health)
                      \/ Approve(i)
                      \/ \E receipt \in Receipts : Receive(i, receipt)
  \/ Adopt \/ ReadQueue \/ OpenOutput \/ WriteOutput \/ Kill
  \/ Simulate \/ Unreadable \/ LogDecision \/ LogFails \/ PrintDecision

Spec == Init /\ [][Next]_vars

-----------------------------------------------------------------------------

\* Every variable has its type: the outcomes written are those of the policy,
\* never decisions of the ABI.
TypeOK ==
  /\ queue \in Batch
  /\ pc \in {"idle", "annotated", "writing"}
  /\ held \in {Nothing} \cup Batch
  /\ out \in {Nothing, Torn} \cup Batch
  /\ heard \in [Items -> SUBSET Outcomes]
  /\ request \in Request
  /\ simPc \in {"started", "decided", "logged", "printed", "raised"}
  /\ artifact # Nothing => /\ artifact.decision \in Decision
                           /\ artifact.effects = DefaultEffects(artifact.decision)
  /\ log \in {<<>>, <<artifact>>}

\* The batches there are.
Batches == {queue} \cup ({held, out} \ {Nothing, Torn})

Risky(r) ==
  \/ ContextOf(r).action # "other"
  \/ r.effect \notin {"observe", "low_risk_actuation"}

\* A risky action is never scheduled: no approval, no health report, no
\* replay of an annotated queue and no killed run gets it past the policy,
\* for which an approval is a reason to wait rather than to deny.
RiskyNeverScheduled ==
  \A b \in Batches, i \in Items :
    (b[i] # Nothing /\ b[i].status = "scheduled") => ~Risky(b[i])

\* A denial is final: what was written as denied once is not written as
\* allowed later, though a degraded adapter hides the denial for a while.
DenialIsFinal ==
  \A i \in Items : "denied" \in heard[i] => "allowed" \notin heard[i]

\* Annotating what was annotated changes nothing: an annotated file that is
\* read again as it is, in a retry or because nothing was reported meanwhile,
\* is neither refused nor ruled otherwise, for no ruling is read back and no
\* receipt or approval is used up by one.
ReplayStable ==
  \A b \in {held, out} \ {Nothing, Torn} : ~Raises(b) /\ AnnotateAll(b) = b

\* The context of the simulation, and what the agent is told of it.
Simulated == WithDefaults(request.input)
DeviceRuled == artifact # Nothing /\ request.device

\* Who hands the simulator the context of a record hears what the annotated
\* file says: the agent may continue exactly when the record is scheduled,
\* and a human is asked exactly when it waits for approval or for a repair.
SameContext ==
  \A b \in {held, out} \ {Nothing, Torn}, i \in Items :
    (b[i] # Nothing /\ ContextOf(b[i]) = Simulated) =>
      /\ artifact.effects.agentMayContinue <=> b[i].status = "scheduled"
      /\ artifact.effects.requiresHumanApproval
           <=> b[i].outcome \in {"requires_approval", "degraded"}

\* And a forecast outlives what is reported and approved before or after it:
\* where the agent may continue, no run ever wrote the record of that action
\* and class as denied or as waiting for approval, and where it is denied, no
\* run ever wrote it as allowed.
SameAction ==
  \A i \in Items :
    ( /\ Held(i)
      /\ ContextOf(queue[i]).action = Simulated.action
      /\ ContextOf(queue[i]).class = Simulated.class ) =>
      /\ artifact.effects.agentMayContinue =>
           heard[i] \cap {"denied", "requires_approval"} = {}
      /\ artifact.decision = "deny" => "allowed" \notin heard[i]

SimulatorAgrees == DeviceRuled => SameContext /\ SameAction

\* One record with a null list of receipts holds up the whole queue: as long
\* as it is there nothing else is ever ruled.
PoisonedBatchWaits ==
  Raises(queue) => out = Nothing /\ \A i \in Items : heard[i] = {}

\* What the hook adapter decides on the same event.
HookDecision ==
  IF TooLarge THEN OversizedPayload
  ELSE IF request.policyError THEN RequiredPolicyLoadFailed
  ELSE EvaluateBaseline(request.ctx)

\* A simulation of the pack forecasts the hook: the artifact is the one the
\* hook adapter decides on, when it stops the agent for a size or an error as
\* well.  The one case left out is a size within the limit, for which the
\* simulator does not ask the pack.
AgreesWithHook ==
  ( /\ artifact # Nothing
    /\ request.baseline /\ ~request.device
    /\ request.size = NoSize \/ TooLarge \/ request.policyError )
  => artifact = HookDecision

\* What a logged simulation prints is in the log, and nothing is printed
\* when the log fails.
PrintedIsLogged ==
  (simPc = "printed" /\ request.writeLog) => log = <<artifact>>

\* Evidence is never lost: neither a replay nor a killed run takes from a
\* record what it had, though receipts that came during a run are not there
\* when its file becomes the queue.
EvidenceGrows ==
  [][\A i \in Items :
       Held(i) => /\ queue'[i] # Nothing
                  /\ queue[i].evidence \subseteq queue'[i].evidence]_vars
=============================================================================
