------------------------- MODULE HookAdapterProofs -------------------------
(***************************************************************************)
(* Proofs about the hook adapter, for every set of processes, invocations  *)
(* and every payload limit.                                                *)
(***************************************************************************)
EXTENDS HookAdapter, BaselinePoliciesProofs, FiniteSetTheorems,
        FunctionTheorems, TLAPS

-----------------------------------------------------------------------------
(* What one process decides and renders.                                   *)

\* A process decides on a sound artifact.
LEMMA DecideSound ==
  ASSUME NEW i
  PROVE  Sound(Decide(i))
<1> USE ArtifactSays DEF Decision
<1>1. Sound(OversizedPayload) /\ Sound(RequiredPolicyLoadFailed)
  BY DEF OversizedPayload, RequiredPolicyLoadFailed
<1>2. Sound(Artifact("core/hook-event", "allow", "info"))
  OBVIOUS
<1>3. \A size, limit, error :
        Sound(DecisionFromEvent("core/hook-event", size, limit, error))
  BY <1>1, <1>2 DEF DecisionFromEvent
<1> HIDE ArtifactSays DEF Decision
<1> QED  BY <1>3, BaselineSound DEF Decide

\* What the renderer makes of a sound artifact is an answer, and it blocks
\* exactly when the artifact stops the agent.
LEMMA RendersHonours ==
  ASSUME NEW d, Sound(d), NEW event \in HookEvents
  PROVE  /\ Renders(d, event) \in Answers
         /\ Trail!Blocks(Renders(d, event)) <=> ~d.effects.agentMayContinue
<1>1. d.effects.agentMayContinue <=> d.decision \notin Stopping
  BY SoundStops
<1>2. CASE d.decision = "allow"
  <2>1. Renders(d, event) = Silence
    BY <1>2 DEF Renders
  <2>2. Silence \in Answers /\ ~Trail!Blocks(Silence)
    BY DEF Silence, Answers, Trail!Blocks
  <2> QED  BY <1>1, <1>2, <2>1, <2>2 DEF Stopping
<1>3. CASE d.decision # "allow"
  <2> DEFINE v == IF d.decision \notin {"deny", "quarantine", "defer",
                                        "escalate"}
                  THEN "context"
                  ELSE IF event = "PostToolUse" THEN "block" ELSE "deny"
  <2>1. Renders(d, event) = [event |-> event, verdict |-> v]
    BY <1>3 DEF Renders
  <2>2. v \in {"deny", "block"} <=> d.decision \in Stopping
    BY DEF Stopping
  <2>3. v \in {"deny", "block", "context"}
    OBVIOUS
  <2> QED  BY <1>1, <2>1, <2>2, <2>3 DEF Trail!Blocks, Answers
<1> QED  BY <1>2, <1>3

\* An oversized or unparsable payload, and a required policy that did not
\* load, are decided by an artifact that stops the agent.
LEMMA NotAnEventStops ==
  ASSUME NEW i \in Invocation, ~Raises(i),
         NotAnEvent(i) \/ i.policyError
  PROVE  ~Decide(i).effects.agentMayContinue
<1>1. ~OversizedPayload.effects.agentMayContinue
  BY DEF OversizedPayload, Artifact, DefaultEffects, Stopping
<1>2. ~RequiredPolicyLoadFailed.effects.agentMayContinue
  BY DEF RequiredPolicyLoadFailed, Artifact, DefaultEffects, Stopping
<1>3. CASE Oversize(i)
  <2>1. Limit + 1 > Limit
    BY LimitAssumption
  <2>2. Decide(i) = OversizedPayload
    BY <1>3, <2>1 DEF Decide, DecisionFromEvent, Oversized
  <2> QED  BY <1>1, <2>2
<1>4. CASE ~Oversize(i)
  <2>1. i.size <= Limit
    BY <1>4, LimitAssumption DEF Oversize, Invocation
  <2>2. PolicyError(i)
    BY <1>4, <2>1, LimitAssumption DEF PolicyError, NotAnEvent, Raises,
       Invocation
  <2>3. ~(0 > Limit)
    BY LimitAssumption
  <2>4. Decide(i) = RequiredPolicyLoadFailed
    BY <1>4, <2>2, <2>3 DEF Decide, DecisionFromEvent, Oversized
  <2> QED  BY <1>2, <2>4
<1> QED  BY <1>3, <1>4

\* The leading policies do not look at the branch, so that they find in the
\* normalized context what they find in the payload.
LEMMA NormalizedPack ==
  ASSUME NEW i \in Invocation, Readable(i), NEW k \in 1 .. 6
  PROVE  Pack(Normalize(i))[k] = Pack(i.ctx)[k]
<1> DEFINE c == i.ctx
           n == Normalize(i)
<1>1. /\ n.tool = c.tool /\ n.program = c.program
      /\ n.marks = c.marks /\ n.secretOutput = c.secretOutput
  BY DEF Normalize, Invocation, Context
<1> HIDE DEF c, n
<1> USE DEF Mutates, Has, Shell
<1>2. AntiTamper(n) = AntiTamper(c)
  BY <1>1 DEF AntiTamper
<1>3. PrivilegeEscalation(n) = PrivilegeEscalation(c)
  BY <1>1 DEF PrivilegeEscalation
<1>4. DownloadPipeShell(n) = DownloadPipeShell(c)
  BY <1>1 DEF DownloadPipeShell
<1>5. SecretFileAccess(n) = SecretFileAccess(c)
  BY <1>1 DEF SecretFileAccess
<1>6. EnvironmentDump(n) = EnvironmentDump(c)
  BY <1>1 DEF EnvironmentDump
<1>7. Pack(n)[k] = Pack(c)[k]
  BY <1>2, <1>3, <1>4, <1>5, <1>6 DEF Pack
<1> QED  BY <1>7 DEF n, c

\* What a process decides on a readable payload that a leading policy stops,
\* or whose output holds a secret.
LEMMA DecideReadable ==
  ASSUME NEW i \in Invocation, Readable(i)
  PROVE  /\ (\E k \in 1 .. 6 : Pack(i.ctx)[k] # NoVerdict) =>
              ~Decide(i).effects.agentMayContinue
         /\ i.ctx.secretOutput => Decide(i).decision # "allow"
<1>1. ~Raises(i) /\ ~Oversize(i) /\ i.form = "event"
  BY DEF Readable, Raises
<1>2. CASE PolicyError(i)
  <2>1. ~Decide(i).effects.agentMayContinue
    BY <1>1, <1>2, NotAnEventStops DEF PolicyError
  <2>2. Decide(i).decision # "allow"
    BY <2>1, DecideSound, SoundStops DEF Stopping
  <2> QED  BY <2>1, <2>2
<1>3. CASE ~PolicyError(i)
  <2>1. Decide(i) = EvaluateBaseline(Normalize(i))
    BY <1>1, <1>3 DEF Decide
  <2>2. ASSUME NEW k \in 1 .. 6, Pack(i.ctx)[k] # NoVerdict
        PROVE  ~Decide(i).effects.agentMayContinue
    <3>1. Pack(Normalize(i))[k] # NoVerdict
      BY <2>2, NormalizedPack
    <3>2. PICK m \in 1 .. k :
            /\ Pack(Normalize(i))[m] # NoVerdict
            /\ EvaluateBaseline(Normalize(i)) = Pack(Normalize(i))[m]
      BY <3>1, EarliestRules
    <3> QED  BY <2>1, <3>2, LeadingStop DEF Stops
  <2>3. ASSUME i.ctx.secretOutput
        PROVE  Decide(i).decision # "allow"
    <3>1. Normalize(i).secretOutput
      BY <2>3 DEF Readable, Normalize, Invocation, Context
    <3>2. Pack(Normalize(i))[7] # NoVerdict
      BY <3>1, ArtifactSays DEF Pack, RedactSecretOutput, Verdict
    <3>3. PICK m \in 1 .. 7 :
            /\ Pack(Normalize(i))[m] # NoVerdict
            /\ EvaluateBaseline(Normalize(i)) = Pack(Normalize(i))[m]
      BY <3>2, EarliestRules
    <3> QED  BY <2>1, <3>3, VerdictsSpeak
  <2> QED  BY <2>2, <2>3
<1> QED  BY <1>2, <1>3

-----------------------------------------------------------------------------
(* The invariant.                                                          *)

\* How far a process has come, and what it has therefore decided and said.
Stage(h) ==
  /\ pc[h] \in {"append", "newline", "answer", "done"} =>
       decision[h] = Decide(inv[h]) /\ ~Raises(inv[h])
  /\ pc[h] \in {"append", "newline"} => inv[h].writeLog
  /\ pc[h] = "newline" => inv[h].bulky
  /\ pc[h] # "done" => answer[h] = Untold
  /\ pc[h] = "done" =>
       answer[h] = IF inv[h].debug THEN DebugArtifact
                   ELSE Renders(decision[h], EventName(inv[h]))

\* The log holds nothing of a process that has not come to append, and a
\* process that has appended finds its artifact there.
Logged(h) ==
  /\ pc[h] \in {"reading", "append"} => \A k \in DOMAIN log : log[k].by # h
  /\ (pc[h] \in {"newline", "answer", "done"} /\ inv[h].writeLog) =>
       \E k \in DOMAIN log : log[k].by = h /\ log[k].kind # "newline"

\* Every chunk holds the decision of the process that wrote it, and only
\* bulky artifacts are written in pieces.
Chunks ==
  \A k \in DOMAIN log :
    /\ log[k].artifact = decision[log[k].by]
    /\ ~inv[log[k].by].bulky => log[k].kind = "line"

IInv == TypeOK /\ (\A h \in Hooks : Stage(h) /\ Logged(h)) /\ Chunks

ChunkType == [kind : {"line", "body", "newline"}, by : Hooks,
              artifact : Artifacts \cup {NoVerdict}]

\* The initial states satisfy IInv.
LEMMA InitIInv == Init => IInv
<1> SUFFICES ASSUME Init PROVE IInv
  OBVIOUS
<1>1. TypeOK
  BY DEF Init, TypeOK, PC
<1>2. \A h \in Hooks : Stage(h) /\ Logged(h)
  BY DEF Init, Stage, Logged
<1>3. Chunks
  BY DEF Init, Chunks
<1> QED  BY <1>1, <1>2, <1>3 DEF IInv

\* A step that leaves the log and the answers alone, and at most decides or
\* stops a process, keeps the types.
LEMMA NextType == IInv /\ [Next]_vars => TypeOK'
<1> SUFFICES ASSUME IInv, [Next]_vars
             PROVE  TypeOK'
  OBVIOUS
<1> USE DEF TypeOK, PC, Ended, Goto
<1>0. TypeOK
  BY DEF IInv
<1>1. ASSUME NEW h \in Hooks, Evaluate(h) PROVE TypeOK'
  <2>1. Decide(inv[h]) \in Artifacts
    BY <1>0 DEF Artifacts
  <2> QED  BY <1>0, <1>1, <2>1 DEF Evaluate
<1>2. ASSUME NEW h \in Hooks, Raise(h) PROVE TypeOK'
  BY <1>0, <1>2 DEF Raise
<1>3. ASSUME NEW h \in Hooks, NEW kind \in {"line", "body", "newline"}
      PROVE  Append(log, Chunk(kind, h)) \in Seq(ChunkType)
  <2>1. Chunk(kind, h) \in ChunkType
    BY <1>0 DEF Chunk, ChunkType
  <2>2. log \in Seq(ChunkType)
    BY <1>0 DEF ChunkType
  <2> QED  BY <2>1, <2>2
<1>4. ASSUME NEW h \in Hooks, AppendRecord(h) PROVE TypeOK'
  BY <1>0, <1>3, <1>4 DEF AppendRecord, ChunkType
<1>5. ASSUME NEW h \in Hooks, AppendBody(h) PROVE TypeOK'
  BY <1>0, <1>3, <1>5 DEF AppendBody, ChunkType
<1>6. ASSUME NEW h \in Hooks, AppendNewline(h) PROVE TypeOK'
  BY <1>0, <1>3, <1>6 DEF AppendNewline, ChunkType
<1>7. ASSUME NEW h \in Hooks, AppendFails(h) PROVE TypeOK'
  BY <1>0, <1>7 DEF AppendFails
<1>8. ASSUME NEW h \in Hooks, Answer(h) PROVE TypeOK'
  <2> DEFINE said == IF inv[h].debug THEN DebugArtifact
                     ELSE Renders(decision[h], EventName(inv[h]))
  <2>1. EventName(inv[h]) \in HookEvents
    BY <1>0, InvocationsAssumption DEF EventName, HookEvents, Invocation
  <2>2. Sound(decision[h])
    BY <1>8, DecideSound DEF Answer, IInv, Stage
  <2>3. said \in Answers
    BY <2>1, <2>2, RendersHonours DEF Answers
  <2> QED  BY <1>0, <1>8, <2>3 DEF Answer
<1>9. ASSUME NEW h \in Hooks, Kill(h) PROVE TypeOK'
  BY <1>0, <1>9 DEF Kill
<1>10. CASE LogTurns
  BY <1>0, <1>10 DEF LogTurns
<1>11. CASE UNCHANGED vars
  BY <1>0, <1>11 DEF vars
<1> QED
  BY <1>1, <1>2, <1>4, <1>5, <1>6, <1>7, <1>8, <1>9, <1>10, <1>11
     DEF Next, Step

\* Every process keeps its stage.
LEMMA NextStage == IInv /\ [Next]_vars => (\A h \in Hooks : Stage(h))'
<1> SUFFICES ASSUME IInv, [Next]_vars, NEW g \in Hooks
             PROVE  Stage(g)'
  OBVIOUS
<1> USE DEF IInv, TypeOK, PC, Ended, Goto, Stage
<1>1. ASSUME NEW h \in Hooks, Evaluate(h) PROVE Stage(g)'
  BY <1>1 DEF Evaluate
<1>2. ASSUME NEW h \in Hooks, Raise(h) PROVE Stage(g)'
  BY <1>2 DEF Raise
<1>3. ASSUME NEW h \in Hooks, AppendRecord(h) PROVE Stage(g)'
  BY <1>3 DEF AppendRecord
<1>4. ASSUME NEW h \in Hooks, AppendBody(h) PROVE Stage(g)'
  BY <1>4 DEF AppendBody
<1>5. ASSUME NEW h \in Hooks, AppendNewline(h) PROVE Stage(g)'
  BY <1>5 DEF AppendNewline
<1>6. ASSUME NEW h \in Hooks, AppendFails(h) PROVE Stage(g)'
  BY <1>6 DEF AppendFails
<1>7. ASSUME NEW h \in Hooks, Answer(h) PROVE Stage(g)'
  BY <1>7 DEF Answer
<1>8. ASSUME NEW h \in Hooks, Kill(h) PROVE Stage(g)'
  BY <1>8 DEF Kill
<1>9. CASE LogTurns
  BY <1>9 DEF LogTurns
<1>10. CASE UNCHANGED vars
  BY <1>10 DEF vars
<1> QED
  BY <1>1, <1>2, <1>3, <1>4, <1>5, <1>6, <1>7, <1>8, <1>9, <1>10
     DEF Next, Step

\* What the log is made of.
LEMMA ChunkFields ==
  ASSUME TypeOK, NEW k \in DOMAIN log
  PROVE  log[k].by \in Hooks /\ log[k].kind \in {"line", "body", "newline"}
<1>1. log \in Seq(ChunkType)
  BY DEF TypeOK, ChunkType
<1>2. log[k] \in ChunkType
  BY <1>1
<1> QED  BY <1>2 DEF ChunkType

\* What appending a chunk does to the log.
LEMMA AppendChunk ==
  ASSUME TypeOK, NEW chunk, log' = Append(log, chunk)
  PROVE  /\ DOMAIN log' = DOMAIN log \cup {Len(log) + 1}
         /\ \A k \in DOMAIN log : log'[k] = log[k]
         /\ log'[Len(log) + 1] = chunk
  BY DEF TypeOK

\* A step that does not touch the log keeps what is logged, provided no
\* process moves past its append.
LEMMA SameLog ==
  ASSUME NEW g \in Hooks, Logged(g), log' = log, inv' = inv,
         \/ pc'[g] = pc[g]
         \/ pc[g] = "reading" /\ inv[g].writeLog /\ pc'[g] = "append"
         \/ ~inv[g].writeLog /\ pc'[g] = "answer"
         \/ pc[g] = "answer" /\ pc'[g] = "done"
         \/ pc'[g] \in {"failed", "killed"}
  PROVE  Logged(g)'
  BY DEF Logged

\* What is logged stays logged, and appending logs.
LEMMA NextLogged == IInv /\ [Next]_vars => (\A h \in Hooks : Logged(h))'
<1> SUFFICES ASSUME IInv, [Next]_vars, NEW g \in Hooks
             PROVE  Logged(g)'
  OBVIOUS
<1>0. TypeOK /\ Logged(g) /\ Stage(g)
  BY DEF IInv
<1> USE DEF Goto
<1>1. ASSUME NEW h \in Hooks, Evaluate(h) PROVE Logged(g)'
  <2>1. pc' = [pc EXCEPT ![h] = IF inv[h].writeLog THEN "append" ELSE "answer"]
    BY <1>1 DEF Evaluate
  <2>2. inv[h].writeLog \in BOOLEAN
    BY <1>0, InvocationsAssumption DEF TypeOK, Invocation
  <2> QED  BY <1>0, <1>1, <2>1, <2>2, SameLog DEF Evaluate, TypeOK
<1>2. ASSUME NEW h \in Hooks, Raise(h) PROVE Logged(g)'
  BY <1>0, <1>2, SameLog DEF Raise, TypeOK
<1>3. ASSUME NEW h \in Hooks, AppendRecord(h) PROVE Logged(g)'
  <2>1. log' = Append(log, Chunk("line", h))
    BY <1>3 DEF AppendRecord
  <2> QED  BY <1>0, <1>3, <2>1, AppendChunk DEF AppendRecord, Chunk, Logged, TypeOK
<1>4. ASSUME NEW h \in Hooks, AppendBody(h) PROVE Logged(g)'
  <2>1. log' = Append(log, Chunk("body", h))
    BY <1>4 DEF AppendBody
  <2> QED  BY <1>0, <1>4, <2>1, AppendChunk DEF AppendBody, Chunk, Logged, TypeOK
<1>5. ASSUME NEW h \in Hooks, AppendNewline(h) PROVE Logged(g)'
  <2>1. log' = Append(log, Chunk("newline", h))
    BY <1>5 DEF AppendNewline
  <2> QED  BY <1>0, <1>5, <2>1, AppendChunk
              DEF AppendNewline, Chunk, Logged, TypeOK
<1>6. ASSUME NEW h \in Hooks, AppendFails(h) PROVE Logged(g)'
  BY <1>0, <1>6, SameLog DEF AppendFails, TypeOK
<1>7. ASSUME NEW h \in Hooks, Answer(h) PROVE Logged(g)'
  BY <1>0, <1>7, SameLog DEF Answer, TypeOK
<1>8. ASSUME NEW h \in Hooks, Kill(h) PROVE Logged(g)'
  BY <1>0, <1>8, SameLog DEF Kill, TypeOK
<1>9. CASE LogTurns
  BY <1>0, <1>9, SameLog DEF LogTurns
<1>10. CASE UNCHANGED vars
  BY <1>0, <1>10, SameLog DEF vars
<1> QED
  BY <1>1, <1>2, <1>3, <1>4, <1>5, <1>6, <1>7, <1>8, <1>9, <1>10
     DEF Next, Step

\* A new chunk holds its writer's decision, and old ones are not affected.
LEMMA NextChunks == IInv /\ [Next]_vars => Chunks'
<1> SUFFICES ASSUME IInv, [Next]_vars
             PROVE  Chunks'
  OBVIOUS
<1>0. TypeOK /\ Chunks
  BY DEF IInv
<1>1. \A k \in DOMAIN log : log[k].by \in Hooks
  BY <1>0, ChunkFields
<1>2. ASSUME NEW h \in Hooks, Evaluate(h) PROVE Chunks'
  <2>1. \A k \in DOMAIN log : log[k].by # h
    BY <1>2 DEF IInv, Logged, Evaluate
  <2>2. \A k \in DOMAIN log : decision'[log[k].by] = decision[log[k].by]
    BY <1>0, <1>1, <1>2, <2>1 DEF Evaluate, TypeOK
  <2> QED  BY <1>0, <1>2, <2>2 DEF Evaluate, Chunks
<1>3. ASSUME NEW h \in Hooks, NEW kind,
             kind = "line" \/ inv[h].bulky,
             log' = Append(log, Chunk(kind, h)),
             UNCHANGED <<inv, decision>>
      PROVE  Chunks'
  <2>1. Chunk(kind, h).artifact = decision[h] /\ Chunk(kind, h).by = h
        /\ Chunk(kind, h).kind = kind
    BY DEF Chunk
  <2> QED  BY <1>0, <1>3, <2>1, AppendChunk DEF Chunks
<1>4. ASSUME NEW h \in Hooks, AppendRecord(h) PROVE Chunks'
  BY <1>3, <1>4 DEF AppendRecord
<1>5. ASSUME NEW h \in Hooks, AppendBody(h) PROVE Chunks'
  BY <1>3, <1>5 DEF AppendBody
<1>6. ASSUME NEW h \in Hooks, AppendNewline(h) PROVE Chunks'
  BY <1>3, <1>6 DEF AppendNewline, IInv, Stage
<1>7. CASE UNCHANGED <<inv, decision, log>>
  BY <1>0, <1>7 DEF Chunks
<1> QED
  BY <1>2, <1>4, <1>5, <1>6, <1>7
     DEF Next, Step, Raise, AppendFails, Answer, Kill, LogTurns, vars

\* IInv is an invariant of the adapter.
LEMMA IInvHolds == Spec => []IInv
<1>1. IInv /\ [Next]_vars => IInv'
  BY NextType, NextStage, NextLogged, NextChunks DEF IInv
<1> QED  BY <1>1, InitIInv, PTL DEF Spec

-----------------------------------------------------------------------------
(* The theorems.                                                           *)

\* The adapter keeps to its types, for any processes and invocations.
THEOREM TypeCorrect == Spec => []TypeOK
<1>1. IInv => TypeOK
  BY DEF IInv
<1> QED  BY <1>1, IInvHolds, PTL

\* No oversized or unparsable payload, and no missing required policy, is
\* ever answered with anything but a block.
THEOREM NeverImplicitAllow == Spec => []NoImplicitAllow
<1>1. IInv => NoImplicitAllow
  <2> SUFFICES ASSUME IInv, NEW h \in Hooks, pc[h] = "done", ~inv[h].debug,
                      NotAnEvent(inv[h]) \/ inv[h].policyError
               PROVE  Trail!Blocks(answer[h])
    BY DEF NoImplicitAllow
  <2>1. inv[h] \in Invocation
    BY InvocationsAssumption DEF IInv, TypeOK
  <2>2. /\ ~Raises(inv[h])
        /\ answer[h] = Renders(Decide(inv[h]), EventName(inv[h]))
    BY DEF IInv, Stage
  <2>3. EventName(inv[h]) \in HookEvents
    BY <2>1 DEF EventName, HookEvents, Invocation
  <2>4. ~Decide(inv[h]).effects.agentMayContinue
    BY <2>1, <2>2, NotAnEventStops
  <2> QED  BY <2>2, <2>3, <2>4, DecideSound, RendersHonours
<1> QED  BY <1>1, IInvHolds, PTL

\* What the leading policies stop is blocked by the answer, and an output
\* with a secret is never passed on in silence.
THEOREM ReachesHost == Spec => []PolicyReachesHost
<1>1. IInv => PolicyReachesHost
  <2> SUFFICES ASSUME IInv, NEW h \in Hooks, pc[h] = "done", ~inv[h].debug,
                      Readable(inv[h])
               PROVE  /\ (\E k \in 1 .. 6 : Pack(inv[h].ctx)[k] # NoVerdict)
                           => Trail!Blocks(answer[h])
                      /\ inv[h].ctx.secretOutput => answer[h] # Silence
    BY DEF PolicyReachesHost
  <2>1. inv[h] \in Invocation
    BY InvocationsAssumption DEF IInv, TypeOK
  <2>2. answer[h] = Renders(Decide(inv[h]), EventName(inv[h]))
    BY DEF IInv, Stage
  <2>3. EventName(inv[h]) \in HookEvents
    BY <2>1 DEF EventName, HookEvents, Invocation
  <2>4. Trail!Blocks(answer[h]) <=> ~Decide(inv[h]).effects.agentMayContinue
    BY <2>2, <2>3, DecideSound, RendersHonours
  <2>5. Decide(inv[h]).decision # "allow" => answer[h] # Silence
    <3>1. ASSUME Decide(inv[h]).decision # "allow"
          PROVE  answer[h].event \in HookEvents
      BY <2>2, <2>3, <3>1 DEF Renders
    <3>2. Silence.event \notin HookEvents
      BY DEF Silence, HookEvents
    <3> QED  BY <3>1, <3>2
  <2> QED  BY <2>1, <2>4, <2>5, DecideReadable
<1> QED  BY <1>1, IInvHolds, PTL

\* While no artifact is bulky, the line a process logged before answering
\* stays readable, whatever the other processes do.
THEOREM SmallRecords == Spec => []SmallRecordsReadable
<1>1. IInv => SmallRecordsReadable
  <2> SUFFICES ASSUME IInv, \A g \in Hooks : ~inv[g].bulky,
                      NEW h \in Hooks, pc[h] \in {"answer", "done"},
                      inv[h].writeLog
               PROVE  ReadableRecord(h)
    BY DEF SmallRecordsReadable
  <2>1. \A k \in DOMAIN log : log[k].kind = "line"
    BY ChunkFields DEF IInv, Chunks
  <2>2. PICK k \in DOMAIN log : log[k].by = h
    BY DEF IInv, Logged
  <2>3. log[k].artifact = decision[h]
    BY <2>2 DEF IInv, Chunks
  <2>4. OwnLine(k)
    <3>1. k = 1 \/ k - 1 \in DOMAIN log
      BY DEF IInv, TypeOK
    <3> QED  BY <2>1, <3>1 DEF OwnLine
  <2> QED  BY <2>2, <2>3, <2>4 DEF ReadableRecord
<1> QED  BY <1>1, IInvHolds, PTL

\* A process writes its artifact once.
OnePerHook ==
  \A j, k \in DOMAIN log :
    ( /\ log[j].by = log[k].by
      /\ log[j].kind # "newline" /\ log[k].kind # "newline" ) => j = k

\* A step leaves at most one artifact of a process in the log.
LEMMA NextOnePerHook == IInv /\ OnePerHook /\ [Next]_vars => OnePerHook'
<1> SUFFICES ASSUME IInv, OnePerHook, [Next]_vars
             PROVE  OnePerHook'
  OBVIOUS
<1>0. TypeOK
  BY DEF IInv
<1>1. ASSUME NEW h \in Hooks, NEW kind, log' = Append(log, Chunk(kind, h)),
             kind = "newline" \/ pc[h] = "append"
      PROVE  OnePerHook'
  <2>1. Chunk(kind, h).by = h /\ Chunk(kind, h).kind = kind
    BY DEF Chunk
  <2>2. kind = "newline" \/ \A k \in DOMAIN log : log[k].by # h
    BY <1>1 DEF IInv, Logged
  <2> QED  BY <1>0, <1>1, <2>1, <2>2, AppendChunk DEF OnePerHook
<1>2. ASSUME NEW h \in Hooks,
             AppendRecord(h) \/ AppendBody(h) \/ AppendNewline(h)
      PROVE  OnePerHook'
  BY <1>1, <1>2 DEF AppendRecord, AppendBody, AppendNewline
<1>3. CASE log' = log
  BY <1>3 DEF OnePerHook
<1> QED
  BY <1>2, <1>3
     DEF Next, Step, Evaluate, Raise, AppendFails, Answer, Kill, LogTurns, vars

\* No more small records are spoiled than artifacts were written in two
\* pieces: each spoiled line follows a body, and no two follow the same.
THEOREM FewAreSpoiled == Spec => []SpoiledAreFew
<1>1. IInv /\ OnePerHook => SpoiledAreFew
  <2> SUFFICES ASSUME IInv, OnePerHook
               PROVE  Cardinality(Spoiled) <= Cardinality(Pieced)
    BY DEF SpoiledAreFew
  <2> DEFINE Follows(h, k) == /\ k - 1 \in DOMAIN log
                              /\ log[k].by = h /\ log[k].kind = "line"
                              /\ log[k - 1].kind = "body"
             line(h) == CHOOSE k \in DOMAIN log : Follows(h, k)
             f == [h \in Spoiled |-> log[line(h) - 1].by]
  <2>1. ASSUME NEW h \in Spoiled
        PROVE  line(h) \in DOMAIN log /\ Follows(h, line(h))
    <3>1. PICK k \in DOMAIN log : log[k].by = h /\ log[k].kind # "newline"
      BY <2>1 DEF Spoiled, IInv, Logged
    <3>2. log[k].kind = "line" /\ log[k].artifact = decision[h]
      BY <2>1, <3>1 DEF Spoiled, IInv, Chunks
    <3>3. ~OwnLine(k)
      BY <2>1, <3>1, <3>2 DEF Spoiled, ReadableRecord
    <3>4. k # 1 /\ log[k - 1].kind = "body"
      BY <3>2, <3>3 DEF OwnLine
    <3>5. k - 1 \in DOMAIN log
      BY <3>4 DEF IInv, TypeOK
    <3>6. Follows(h, k)
      BY <3>1, <3>2, <3>4, <3>5
    <3> QED  BY <3>6
  <2> HIDE DEF line
  <2>2. ASSUME NEW h \in Spoiled
        PROVE  f[h] \in Pieced
    <3>1. /\ line(h) - 1 \in DOMAIN log
          /\ log[line(h) - 1].kind = "body"
          /\ f[h] = log[line(h) - 1].by
      BY <2>1, <2>2
    <3>2. f[h] \in Hooks
      BY <3>1, ChunkFields DEF IInv
    <3>3. inv[f[h]].bulky
      BY <3>1 DEF IInv, Chunks
    <3> QED  BY <3>1, <3>2, <3>3 DEF Pieced
  <2>3. ASSUME NEW g \in Spoiled, NEW h \in Spoiled, f[g] = f[h]
        PROVE  g = h
    <3>1. /\ line(g) - 1 \in DOMAIN log /\ line(h) - 1 \in DOMAIN log
          /\ log[line(g) - 1].kind = "body" /\ log[line(h) - 1].kind = "body"
          /\ log[line(g) - 1].by = log[line(h) - 1].by
      BY <2>1, <2>3
    <3>2. line(g) - 1 = line(h) - 1
      BY <3>1 DEF OnePerHook
    <3>3. line(g) \in Int /\ line(h) \in Int
      BY <2>1 DEF IInv, TypeOK
    <3>4. line(g) = line(h)
      BY <3>2, <3>3
    <3> QED  BY <2>1, <3>4
  <2>4. f \in Injection(Spoiled, Pieced)
    BY <2>2, <2>3, Fun_IsInj
  <2>5. IsFiniteSet(Spoiled) /\ IsFiniteSet(Pieced)
    BY HooksAssumption, FS_Subset DEF Spoiled, Pieced
  <2> HIDE DEF f
  <2> QED  BY <2>4, <2>5, FS_Injection
<1>2. Init => OnePerHook
  BY DEF Init, OnePerHook
<1> QED  BY <1>1, <1>2, NextOnePerHook, IInvHolds, PTL DEF Spec

-----------------------------------------------------------------------------
(* The adapter implements EvidenceTrail.                                   *)

audited == {h \in Hooks : inv[h].writeLog}
trail == {[by |-> log[k].by, artifact |-> log[k].artifact] :
            k \in {j \in DOMAIN log : log[j].kind # "newline"}}

\* Appending a chunk with an artifact adds a record to the trail.
LEMMA TrailGrows ==
  ASSUME TypeOK, NEW h, NEW kind, kind # "newline",
         log' = Append(log, Chunk(kind, h))
  PROVE  trail' = trail \cup {[by |-> h, artifact |-> decision[h]]}
<1> DEFINE entry(k) == [by |-> log[k].by, artifact |-> log[k].artifact]
           last == Len(log) + 1
<1>1. /\ DOMAIN log' = DOMAIN log \cup {last}
      /\ \A k \in DOMAIN log : log'[k] = log[k]
      /\ log'[last] = Chunk(kind, h)
  BY AppendChunk
<1>2. /\ log'[last].by = h /\ log'[last].artifact = decision[h]
      /\ log'[last].kind # "newline"
  BY <1>1 DEF Chunk
<1>3. \A k \in DOMAIN log :
        log'[k].kind = log[k].kind
        /\ [by |-> log'[k].by, artifact |-> log'[k].artifact] = entry(k)
  BY <1>1
<1>4. ASSUME NEW r \in trail' PROVE r \in trail \cup {[by |-> h, artifact |-> decision[h]]}
  <2>1. PICK k \in DOMAIN log' :
          log'[k].kind # "newline"
          /\ r = [by |-> log'[k].by, artifact |-> log'[k].artifact]
    BY <1>4 DEF trail
  <2>2. CASE k = last
    BY <1>2, <2>1, <2>2
  <2>3. CASE k \in DOMAIN log
    BY <1>3, <2>1, <2>3 DEF trail
  <2> QED  BY <1>1, <2>2, <2>3
<1>5. ASSUME NEW r \in trail PROVE r \in trail'
  <2>1. PICK k \in DOMAIN log : log[k].kind # "newline" /\ r = entry(k)
    BY <1>5 DEF trail
  <2> QED  BY <1>1, <1>3, <2>1 DEF trail
<1>6. [by |-> h, artifact |-> decision[h]] \in trail'
  BY <1>1, <1>2 DEF trail
<1> QED  BY <1>4, <1>5, <1>6

\* Appending the newline of a bulky artifact leaves the trail as it is.
LEMMA TrailKept ==
  ASSUME TypeOK, NEW h, log' = Append(log, Chunk("newline", h))
  PROVE  trail' = trail
<1> DEFINE last == Len(log) + 1
<1>1. /\ DOMAIN log' = DOMAIN log \cup {last}
      /\ \A k \in DOMAIN log : log'[k] = log[k]
      /\ log'[last] = Chunk("newline", h)
  BY AppendChunk
<1>2. log'[last].kind = "newline"
  BY <1>1 DEF Chunk
<1>3. {j \in DOMAIN log' : log'[j].kind # "newline"}
        = {j \in DOMAIN log : log[j].kind # "newline"}
  BY <1>1, <1>2
<1>4. ASSUME NEW r \in trail' PROVE r \in trail
  BY <1>1, <1>3, <1>4 DEF trail
<1>5. ASSUME NEW r \in trail PROVE r \in trail'
  BY <1>1, <1>3, <1>5 DEF trail
<1> QED  BY <1>4, <1>5

\* An initial state of the adapter is one of the evidence trail.
LEMMA InitImplements == Init => Trail!TrailInit
<1> SUFFICES ASSUME Init PROVE Trail!TrailInit
  OBVIOUS
<1>1. trail = {}
  BY DEF Init, trail
<1> QED  BY <1>1 DEF Init, Trail!TrailInit, trail

\* A process that appends its artifact makes its record.
LEMMA AppendImplements ==
  ASSUME IInv, NEW h \in Hooks, pc[h] = "append", NEW kind,
         kind # "newline", log' = Append(log, Chunk(kind, h)),
         inv' = inv, answer' = answer
  PROVE  Trail!TrailNext
<1>1. decision[h] \in Artifacts /\ h \in audited /\ answer[h] = Untold
  BY DEF IInv, Stage, TypeOK, Artifacts, audited
<1>2. \A r \in trail : r.by # h
  BY DEF IInv, Logged, trail
<1>3. trail' = trail \cup {[by |-> h, artifact |-> decision[h]]}
  BY TrailGrows DEF IInv
<1>4. audited' = audited
  BY DEF audited
<1>5. PICK d \in Artifacts : d = decision[h]
  BY <1>1
<1>6. Trail!Record(h, d)
  BY <1>1, <1>2, <1>3, <1>4, <1>5 DEF Trail!Record, trail, audited
<1> QED  BY <1>6 DEF Trail!TrailNext

\* A process that answers tells its host what its record says.
LEMMA AnswerImplements ==
  ASSUME IInv, NEW h \in Hooks, Answer(h)
  PROVE  Trail!TrailNext
<1> DEFINE said == IF inv[h].debug THEN DebugArtifact
                   ELSE Renders(decision[h], EventName(inv[h]))
<1>1. /\ answer[h] = Untold /\ pc[h] = "answer"
      /\ answer' = [answer EXCEPT ![h] = said]
      /\ UNCHANGED <<inv, log>>
  BY DEF IInv, Stage, Answer
<1>2. Sound(decision[h])
  BY <1>1, DecideSound DEF IInv, Stage
<1>3. EventName(inv[h]) \in HookEvents
  BY InvocationsAssumption DEF EventName, HookEvents, Invocation, IInv, TypeOK
<1>4. said \in Answers /\ Trail!Honours(said, decision[h])
  <2>1. CASE inv[h].debug
    BY <2>1 DEF DebugArtifact, Answers, Trail!Honours
  <2>2. CASE ~inv[h].debug
    BY <1>2, <1>3, <2>2, RendersHonours DEF Trail!Honours
  <2> QED  BY <2>1, <2>2
<1>5. h \in audited =>
        \E r \in trail : r.by = h /\ Trail!Honours(said, r.artifact)
  <2> SUFFICES ASSUME inv[h].writeLog
               PROVE  \E r \in trail : r.by = h /\ Trail!Honours(said, r.artifact)
    BY DEF audited
  <2>1. PICK k \in DOMAIN log : log[k].by = h /\ log[k].kind # "newline"
    BY <1>1 DEF IInv, Logged
  <2>2. log[k].artifact = decision[h]
    BY <2>1 DEF IInv, Chunks
  <2>3. [by |-> h, artifact |-> decision[h]] \in trail
    BY <2>1, <2>2 DEF trail
  <2> QED  BY <1>4, <2>3
<1>6. Trail!Tell(h, said)
  BY <1>1, <1>5 DEF Trail!Tell, trail, audited
<1> QED  BY <1>4, <1>6 DEF Trail!TrailNext

\* Every step of the adapter is a step of the evidence trail or a stutter.
LEMMA NextImplements ==
  IInv /\ [Next]_vars => [Trail!TrailNext]_(Trail!trailVars)
<1> SUFFICES ASSUME IInv, [Next]_vars
             PROVE  Trail!TrailNext \/ UNCHANGED Trail!trailVars
  OBVIOUS
<1>1. ASSUME inv' = inv, log' = log, answer' = answer
      PROVE  UNCHANGED Trail!trailVars
  BY <1>1 DEF Trail!trailVars
<1>2. ASSUME NEW h \in Hooks, AppendRecord(h) PROVE Trail!TrailNext
  BY <1>2, AppendImplements DEF AppendRecord
<1>3. ASSUME NEW h \in Hooks, AppendBody(h) PROVE Trail!TrailNext
  BY <1>3, AppendImplements DEF AppendBody
<1>4. ASSUME NEW h \in Hooks, AppendNewline(h)
      PROVE  UNCHANGED Trail!trailVars
  <2>1. log' = Append(log, Chunk("newline", h)) /\ UNCHANGED <<inv, answer>>
    BY <1>4 DEF AppendNewline
  <2>2. trail' = trail
    BY <2>1, TrailKept DEF IInv
  <2> QED  BY <2>1, <2>2 DEF Trail!trailVars, trail
<1>5. ASSUME NEW h \in Hooks, Answer(h) PROVE Trail!TrailNext
  BY <1>5, AnswerImplements
<1> QED
  BY <1>1, <1>2, <1>3, <1>4, <1>5
     DEF Next, Step, Evaluate, Raise, AppendFails, Kill, LogTurns, vars

\* The adapter implements the evidence trail: an audited hook answers only
\* after its record and in agreement with it, and no record is undone, for
\* any number of processes, whatever they were started with, and with
\* bulky artifacts written in pieces.
THEOREM Implements == Spec => KeepsEvidenceTrail
  BY InitImplements, NextImplements, IInvHolds, PTL
     DEF Spec, KeepsEvidenceTrail, Trail!TrailSpec
=============================================================================
