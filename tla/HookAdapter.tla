---------------------------- MODULE HookAdapter ----------------------------
(***************************************************************************)
(* guardrail-fabric-hook.  An agent host spawns one process per tool event *)
(* and parallel tool calls give parallel processes.  Each one reads its    *)
(* payload, decides, appends the decision to the shared JSONL log when it  *)
(* was started with --write-log, and only then answers.  An uncaught       *)
(* exception ends the process without an answer; the host may kill it.     *)
(***************************************************************************)
EXTENDS BaselinePolicies, FiniteSets

CONSTANTS
  Hooks,        \* the processes
  Invocations,  \* the ways a process may be started
  Limit         \* --payload-limit-bytes

Forms == {"event", "empty", "bad_json", "bad_utf8", "not_object"}
HookEvents == {"PreToolUse", "PostToolUse"}

\* form and size are those of stdin, event and ctx what a readable payload
\* says (its branch is the one the repository is on); a bulky artifact is
\* one whose JSON text fills the write buffer of the log's file object.
Invocation ==
  {i \in [form : Forms, size : Nat, event : HookEvents, ctx : Context,
          policyError : BOOLEAN, writeLog : BOOLEAN, debug : BOOLEAN,
          bulky : BOOLEAN] :
     i.form = "empty" <=> i.size = 0}

ASSUME LimitAssumption == Limit \in Nat
ASSUME InvocationsAssumption == Invocations \subseteq Invocation
ASSUME HooksAssumption == IsFiniteSet(Hooks)

VARIABLES
  inv,        \* how each process was started
  pc,         \* where it is
  decision,   \* what it decided, NoVerdict before that
  log,        \* the chunks written to the log file
  logUsable,  \* whether the file system takes appends
  answer      \* what the process wrote to stdout

vars == <<inv, pc, decision, log, logUsable, answer>>

Ended == {"done", "failed", "killed"}
PC == {"reading", "append", "newline", "answer"} \cup Ended

-----------------------------------------------------------------------------
(* Reading, deciding and rendering.                                        *)

\* Mutant of Oversize: reads one byte too few to notice the excess.
Oversize_ReadsLimit(i) ==
  (IF i.size < Limit THEN i.size ELSE Limit) > Limit

\* read_stdin_bytes asks for one byte more than the limit.
Oversize(i) == (IF i.size <= Limit THEN i.size ELSE Limit + 1) > Limit

\* The payload the process goes on with: nothing of an oversized one, a
\* stand-in for invalid JSON, {} for no input at all.
Readable(i) == ~Oversize(i) /\ i.form = "event"

\* UnicodeDecodeError, or AttributeError in the normalizer: not caught.
Raises(i) == ~Oversize(i) /\ i.form \in {"bad_utf8", "not_object"}

\* Mutant of EventName: a payload without an event name gets no default.
EventName_NoDefault(i) == IF Readable(i) THEN i.event ELSE "none"

EventName(i) == IF Readable(i) THEN i.event ELSE "PreToolUse"

EmptyContext ==
  [tool |-> "Read", program |-> "none", marks |-> {},
   protectedBranch |-> FALSE, secretOutput |-> FALSE]

\* Mutant of Normalize: the output of a tool is left out as well.
Normalize_NoOutput(i) ==
  IF Readable(i)
  THEN [i.ctx EXCEPT !.protectedBranch = FALSE, !.secretOutput = FALSE]
  ELSE EmptyContext

\* The normalized context has no branch.
Normalize(i) ==
  IF Readable(i) THEN [i.ctx EXCEPT !.protectedBranch = FALSE]
  ELSE EmptyContext

PolicyError(i) == i.policyError \/ i.form = "bad_json"

\* evaluate_claude_code_payload.
Decide(i) ==
  IF Oversize(i)
  THEN DecisionFromEvent("core/hook-event", Limit + 1, Limit, FALSE)
  ELSE IF PolicyError(i)
  THEN DecisionFromEvent("core/hook-event", 0, Limit, TRUE)
  ELSE EvaluateBaseline(Normalize(i))

\* The decisions the processes may come to.
Artifacts == {Decide(i) : i \in Invocations}

Silence == [event |-> "none", verdict |-> "silent"]
DebugArtifact == [event |-> "none", verdict |-> "artifact"]
Answers ==
  {Silence, DebugArtifact} \cup
  [event : HookEvents, verdict : {"deny", "block", "context"}]
Untold == [event |-> "none", verdict |-> "untold"]

\* render_claude_code_response: its own list of blocking decisions.
Renders(d, event) ==
  IF d.decision = "allow" THEN Silence
  ELSE [event |-> event,
        verdict |-> IF d.decision \notin {"deny", "quarantine", "defer",
                                          "escalate"}
                    THEN "context"
                    ELSE IF event = "PostToolUse" THEN "block" ELSE "deny"]

-----------------------------------------------------------------------------
(* The processes.                                                          *)

Init ==
  /\ inv \in [Hooks -> Invocations]
  /\ pc = [h \in Hooks |-> "reading"]
  /\ decision = [h \in Hooks |-> NoVerdict]
  /\ log = <<>>
  /\ logUsable \in BOOLEAN
  /\ answer = [h \in Hooks |-> Untold]

Goto(h, label) == pc' = [pc EXCEPT ![h] = label]

Evaluate(h) ==
  /\ pc[h] = "reading"
  /\ ~Raises(inv[h])
  /\ decision' = [decision EXCEPT ![h] = Decide(inv[h])]
  /\ Goto(h, IF inv[h].writeLog THEN "append" ELSE "answer")
  /\ UNCHANGED <<inv, log, logUsable, answer>>

Raise(h) ==
  /\ pc[h] = "reading"
  /\ Raises(inv[h])
  /\ Goto(h, "failed")
  /\ UNCHANGED <<inv, decision, log, logUsable, answer>>

Chunk(kind, h) == [kind |-> kind, by |-> h, artifact |-> decision[h]]

\* Mutant of AppendRecord: the log file is opened for writing, not appending.
AppendRecord_Truncates(h) ==
  /\ pc[h] = "append"
  /\ logUsable
  /\ ~inv[h].bulky
  /\ log' = <<Chunk("line", h)>>
  /\ Goto(h, "answer")
  /\ UNCHANGED <<inv, decision, logUsable, answer>>

\* Mutant of AppendRecord: the newline is forgotten.
AppendRecord_NoNewline(h) ==
  /\ pc[h] = "append"
  /\ logUsable
  /\ ~inv[h].bulky
  /\ log' = Append(log, Chunk("body", h))
  /\ Goto(h, "answer")
  /\ UNCHANGED <<inv, decision, logUsable, answer>>

\* append_decision with an artifact that fits the buffer: artifact and
\* newline reach the file in one write when it is closed.
AppendRecord(h) ==
  /\ pc[h] = "append"
  /\ logUsable
  /\ ~inv[h].bulky
  /\ log' = Append(log, Chunk("line", h))
  /\ Goto(h, "answer")
  /\ UNCHANGED <<inv, decision, logUsable, answer>>

\* append_decision with a bulky artifact: the text is written at once and
\* the newline when the file is closed.
AppendBody(h) ==
  /\ pc[h] = "append"
  /\ logUsable
  /\ inv[h].bulky
  /\ log' = Append(log, Chunk("body", h))
  /\ Goto(h, "newline")
  /\ UNCHANGED <<inv, decision, logUsable, answer>>

AppendNewline(h) ==
  /\ pc[h] = "newline"
  /\ logUsable
  /\ log' = Append(log, Chunk("newline", h))
  /\ Goto(h, "answer")
  /\ UNCHANGED <<inv, decision, logUsable, answer>>

\* Mutant of AppendFails: the error is caught and the append tried again.
AppendFails_Retries(h) ==
  /\ pc[h] \in {"append", "newline"}
  /\ ~logUsable
  /\ UNCHANGED vars

\* OSError from the log: not caught.
AppendFails(h) ==
  /\ pc[h] \in {"append", "newline"}
  /\ ~logUsable
  /\ Goto(h, "failed")
  /\ UNCHANGED <<inv, decision, log, logUsable, answer>>

Answer(h) ==
  /\ pc[h] = "answer"
  /\ answer' = [answer EXCEPT ![h] =
       IF inv[h].debug THEN DebugArtifact
       ELSE Renders(decision[h], EventName(inv[h]))]
  /\ Goto(h, "done")
  /\ UNCHANGED <<inv, decision, log, logUsable>>

\* The host gives up on the process.
Kill(h) ==
  /\ pc[h] \notin Ended
  /\ Goto(h, "killed")
  /\ UNCHANGED <<inv, decision, log, logUsable, answer>>

\* The file system stops or resumes taking appends.
LogTurns ==
  /\ logUsable' = ~logUsable
  /\ UNCHANGED <<inv, pc, decision, log, answer>>

Step(h) ==
  \/ Evaluate(h) \/ Raise(h)
  \/ AppendRecord(h) \/ AppendBody(h) \/ AppendNewline(h) \/ AppendFails(h)
  \/ Answer(h)

Next == (\E h \in Hooks : Step(h) \/ Kill(h)) \/ LogTurns

\* The operating system runs every process; nothing obliges the host to kill
\* one or the file system to change.
Fairness == \A h \in Hooks : WF_vars(Step(h))

Spec == Init /\ [][Next]_vars /\ Fairness

-----------------------------------------------------------------------------
(* Properties.                                                             *)

\* Every variable has its type.
TypeOK ==
  /\ inv \in [Hooks -> Invocations]
  /\ pc \in [Hooks -> PC]
  /\ decision \in [Hooks -> Artifacts \cup {NoVerdict}]
  /\ log \in Seq([kind : {"line", "body", "newline"}, by : Hooks,
                  artifact : Artifacts \cup {NoVerdict}])
  /\ logUsable \in BOOLEAN
  /\ answer \in [Hooks -> Answers \cup {Untold}]

\* The promise of EvidenceTrail, where a chunk with an artifact is a record.
Trail == INSTANCE EvidenceTrail WITH
  audited   <- {h \in Hooks : inv[h].writeLog},
  trail     <- {[by |-> log[k].by, artifact |-> log[k].artifact] :
                  k \in {j \in DOMAIN log : log[j].kind # "newline"}},
  told      <- answer

\* The adapter keeps the promise of the evidence trail through every
\* interleaving, kill and failure of the log: an audited hook answers after
\* its artifact was written, in agreement with it, and no record is undone.
KeepsEvidenceTrail == Trail!TrailSpec

\* A chunk with an artifact is a line of its own in the JSONL file.
OwnLine(k) ==
  /\ k = 1 \/ log[k - 1].kind # "body"
  /\ \/ log[k].kind = "line"
     \/ log[k].kind = "body" /\ k < Len(log) /\ log[k + 1].kind = "newline"

\* The decision of hook h can be read back from a line of the log.
ReadableRecord(h) ==
  \E k \in DOMAIN log :
    log[k].by = h /\ OwnLine(k) /\ log[k].artifact = decision[h]

\* While no artifact is bulky, a process that was told to log and has come
\* to answer left a line of its own in the log, and none of the processes
\* that write, fail or are killed around it ever spoils that line.
SmallRecordsReadable ==
  (\A g \in Hooks : ~inv[g].bulky) =>
    \A h \in Hooks :
      (pc[h] \in {"answer", "done"} /\ inv[h].writeLog) => ReadableRecord(h)

\* A bulky artifact, whose newline comes late or never, costs at most one of
\* the other records: the small records that cannot be read back are no more
\* than the artifacts written in two pieces.
Spoiled ==
  {h \in Hooks : /\ pc[h] \in {"answer", "done"}
                 /\ inv[h].writeLog /\ ~inv[h].bulky
                 /\ ~ReadableRecord(h)}
Pieced ==
  {h \in Hooks : /\ inv[h].bulky
                 /\ \E k \in DOMAIN log : log[k].by = h /\ log[k].kind = "body"}

SpoiledAreFew == Cardinality(Spoiled) <= Cardinality(Pieced)

NotAnEvent(i) ==
  i.size > Limit \/ i.form \in {"bad_json", "bad_utf8", "not_object"}

\* No answer lets the agent go on by default: a process that answers an
\* oversized or unparsable payload, or whose required policy did not load,
\* blocks the event.  The reader's truncation, the stand-in payload, the
\* order of the tests and the renderer's list of decisions all take part.
NoImplicitAllow ==
  \A h \in Hooks :
    ( /\ pc[h] = "done"
      /\ ~inv[h].debug
      /\ NotAnEvent(inv[h]) \/ inv[h].policyError )
    => Trail!Blocks(answer[h])

\* What the leading policies stop in the payload itself is blocked by the
\* answer, and an output with a secret is never passed on in silence: the
\* limit, the normalizer, the order of the pack, a redaction before or after
\* and the renderer lose neither.
PolicyReachesHost ==
  \A h \in Hooks :
    (pc[h] = "done" /\ ~inv[h].debug /\ Readable(inv[h])) =>
      /\ (\E i \in 1 .. 6 : Pack(inv[h].ctx)[i] # NoVerdict) =>
           Trail!Blocks(answer[h])
      /\ inv[h].ctx.secretOutput => answer[h] # Silence

\* README: oversized or invalid hook payloads fail closed.  A process that
\* was not killed blocks such an event.
InvalidPayloadsFailClosed ==
  \A h \in Hooks :
    (pc[h] \in {"done", "failed"} /\ ~inv[h].debug /\ NotAnEvent(inv[h]))
      => Trail!Blocks(answer[h])

\* The control-plane document: a missing audit sink blocks what a policy
\* stops.  A process that could not log a stopping decision blocks.
MissingSinkBlocks ==
  \A h \in Hooks :
    ( /\ pc[h] = "failed"
      /\ decision[h] # NoVerdict
      /\ ~decision[h].effects.agentMayContinue )
    => Trail!Blocks(answer[h])

\* The control-plane document: Git mutations on protected branches are
\* blocked.  The answer to such an event blocks it.
ProtectedBranchBlocks ==
  \A h \in Hooks :
    ( /\ pc[h] = "done"
      /\ ~inv[h].debug
      /\ Readable(inv[h])
      /\ ~inv[h].ctx.secretOutput
      /\ ProtectedBranch(inv[h].ctx) # NoVerdict )
    => Trail!Blocks(answer[h])

\* A process that can read its payload and is left alone ends with an
\* answer; only one that logs may end without, when the log fails.
EveryEventAnswered ==
  \A h \in Hooks :
    (pc[h] = "reading" /\ ~Raises(inv[h])) ~>
      \/ answer[h] # Untold
      \/ pc[h] = "killed"
      \/ pc[h] = "failed" /\ inv[h].writeLog
=============================================================================
