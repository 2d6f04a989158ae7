# guardrail-fabric in TLA+

guardrail-fabric decides, deterministically, what an autonomous agent may do
next: it evaluates tool events, maps TrustOps gate decisions to one runtime
action, admits claims, and installs itself as a hook of the agent host.  This
directory holds TLA+ modules translated from its Python source, TLC
configurations that check them on small instances, and TLAPS proofs of the
results that should hold for every instance.

Paths below are relative to the repository; `gf/` is `guardrail_fabric/`.

## 1. The system

| Component | State it keeps | Operations | Modelled in |
|---|---|---|---|
| Decision ABI, `gf/decision.py` | none: immutable artifacts | `PolicyDecision.create`, `default_effects_for_decision`, `decision_from_event` | `DecisionABI` |
| Baseline policies, `gf/policies.py` | none; the loop's position while it runs | 13 policy functions, registered 15 times; `evaluate_baseline` | `BaselinePolicies`, `PolicyEvaluation` |
| Hook adapter, `gf/hooks.py` | one process per tool event: payload, decision, what it told the host | read, parse, normalize, evaluate, log, answer | `HookAdapter`, promise in `EvidenceTrail` |
| Evidence log, `gf/log.py` | a JSONL file shared by all hook processes | `append_decision` | `HookAdapter` (log actions) |
| TrustOps mapping, `gf/trustops_runtime_actions.py` | none: immutable records | map gate decisions to an action, build the record | `RuntimeActions`, `TrustOpsSession` |
| Preflight handoff, `gf/preflight_handoff.py` | none: immutable records | build the handoff for AgentPlane | `RuntimeActions`, `TrustOpsSession` |
| Validators of both records, `tools/validate_trustops_...py`, `tools/validate_preflight_handoff.py` | none | accept or reject one JSON record | `RuntimeActions` (`RecordValid`, `HandoffValid`) |
| Project hook installer, `gf/project_hooks.py` | `.claude/settings*.json` | `install`: read, merge, rewrite | `ProjectHooks` |
| Safety preflight, `gf/safety_preflight.py` | none | check commands, files and texts of a proposed attempt; make a TrustOps gate decision of the findings | `SafetyPreflight`, `PreflightSession` |
| Claim admission, `gf/claim_admission.py` | none; admissions, provisional ones and revocations are records the caller keeps | evaluate a claim, evaluate an action on the claims it names, the default policies | `ClaimAdmission`, `ClaimSession` |
| Device orchestration, `gf/device_orchestration_policy.py` | none | rule on an action of a device, convert the ruling to the decision ABI | `DeviceOrchestration` |
| Event capability, `gf/event_capability_policy.py`, `gf/event_capability_cli.py` | the annotated file it writes | annotate a batch of records with the outcome of the device policy | `DeviceOrchestration`, `FrontEnds` |
| Simulator, `gf/simulate.py` | none of its own; appends to the decision log | one evaluation by one of three routes, log, print | `FrontEnds` |
| WallGuard validator, `tools/guardrail_fabric.py`, other validators in `tools/` and `scripts/` | none | check one JSON document | left out |
| Schemas, examples, release dry run, workflows | data | none | left out |

How they interact.  The agent host spawns a hook process for every tool event
(the installer registered the command); the process evaluates the built-in
pack on the event, appends the artifact to the log when it was started with
`--write-log`, and answers on stdout.  Parallel tool calls give parallel
processes whose only shared state is the log file.  On the other side TrustOps
gates report decisions, adapters may ask for another action, and the record
and the handoff are both computed by the same mapping and checked by
validators that hold copies of its tables.  The safety preflight is one of
these gates: its findings become a gate decision and travel as evidence to the
record and the handoff.  Installers share the settings file, without a lock.

A coordinating workflow submits claims, keeps what was admitted, and names
claims when it proposes an action; the library sees one call at a time.
SourceOS holds a queue of event-capability records: the annotator reads it as
a file, writes it annotated to another one, and that file is the next queue,
while adapters report their health, users approve and receipts arrive.  The
simulator evaluates with the same device policy and the same pack as the
annotator and the hook adapter do, by code of its own.

What is hard here, and not reached by the unit tests, is listed in
`PROJECT.json` under `hazards` with its lines: the order of the policies;
parallel appends, crashes and failures of the log; the boundary of the payload
limit and the error paths of the parser; the order in which gates report and
the interplay of overrides with the rollback fallback; installers that
overlap or are killed while the settings file is empty; an iterator that can be
read once; the order of findings, of evidence checks and of device checks;
claims named after they were revoked; records annotated again and again; one
bad record in a batch.

What makes each part correct:

- *policies*: the ruling is the first verdict of the pack; no verdict that
  must stop an event is shadowed except by the two kinds the code accepts;
- *hook adapter*: an audited event is answered after, and in agreement with,
  its record; records stay readable, and one written in pieces costs at most
  one other; nothing is allowed by default; what the leading policies stop in
  the payload is blocked by the answer; every event is answered;
- *mapping*: no gate's outcome is lowered; more evidence never makes an
  outcome milder; the order of the reports shows only where outcomes tie;
  record, handoff and validators agree;
- *safety preflight*: no finding gets lost on its way to the runtime, approvals
  lift no block, a tighter network policy finds no less, and neither the order
  of the items nor a one-shot iterator lets anything pass;
- *claim admission*: nothing goes ahead without the evidence its policy asks
  for or past a review gate; more evidence is never ruled more strictly; the
  default policies keep raw output and unreviewed matters out of every action;
- *device orchestration and event capability*: a risky action is never
  scheduled, whatever is replayed; a denial stays one; evidence is kept; an
  annotated file is annotated to itself;
- *simulator*: asked by the same context or the same event it says what the
  annotator and the hook adapter say, what it forecasts for an action and class
  outlives reports and approvals, and it prints what it logged;
- *installer*: nothing found is lost or duplicated; installers that overlap
  leave what some of them would leave in turn, and no difference nobody asked
  for; the file is unreadable only in the window of a write; an installer that
  ends is in effect then, and a lone one succeeds.

## 2. The modules and how they correspond to the code

`PROJECT.json` (`map`) gives the source lines of every definition.

**`DecisionABI`** (no state).  Decisions, severities, effects, and
`DecisionFromEvent`, which keeps the order of the code's tests: size, policy
error, allow.  An artifact is its policy, decision, severity and effects.

**`BaselinePolicies`** (no state).  A `Context` is what the pack can tell of
an event: the tool, the class of the first command token, the *marks* that the
regular expressions and substring tests find, the branch and whether the
output holds a secret.  The marks stand for the text: which strings carry
which marks is left out, so every combination the code could meet is a
context, and some more that one command line can hardly have.  A policy is an
operator that returns an artifact or `NoVerdict` (the code's `None`); `Pack`
lists them in the code's order.

**`PolicyEvaluation`** is the loop of `evaluate_baseline`: `Skip` (policy
returned `None`), `Return`, `Allow` (fell through).

**`HookAdapter`** is `hooks.main`, for a set of processes.  `inv[h]` fixes how
a process is started (what is on stdin, options, what the normalized event
would be), `pc[h]` follows `main`:

| Action | Code |
|---|---|
| `Evaluate` | read stdin, parse, normalize, decide (l. 215-235) |
| `Raise` | `UnicodeDecodeError` or `AttributeError`, not caught |
| `AppendRecord` | `append_decision` of an artifact that fits the file object's buffer: one write when it is closed |
| `AppendBody`, `AppendNewline` | a larger artifact: its text, then the newline on close |
| `AppendFails` | `OSError`, not caught: the process ends before it answers |
| `Answer` | the rendered response, or the artifact with `--debug-decision` |
| `Kill`, `LogTurns` | the host kills a process; the file system stops or resumes taking appends |

The appends go to the end of the file whoever else writes (`open("a")`), so a
write is one step.  All processes share one log, the contended case; the
choice of its path is left out.  Reading and deciding are one step because
nothing of them is shared.

**`EvidenceTrail`** is the abstract promise to the host: records are only
added, one per hook; an audited hook is answered only after its record, and
the answer blocks exactly when the recorded artifact stops the agent.
`HookAdapter` implements it (`Trail`, `KeepsEvidenceTrail`): the trail is the
set of chunks of the log that hold an artifact.

**`RuntimeActions`** (no state).  The precedence tables, validation of gate
decisions, `Controls` (what `max()` picks), overrides, the rollback fallback,
the two builders and the two validators.  References keep their identity and
whether they have the prefix of their field (`Prefixed`); their order and the
empty-string cases that matter (`Blank`) are kept apart.  A missing, repeated or
blank policy reference is a `header`.  The builders look at no prefix; the
record validator asks it of receipts, gates and evidence, the handoff validator
of gates and evidence only.

**`TrustOpsSession`** composes them: gates `Report` in any order, and at any
time the record (`Decide`) or the handoff (`HandOff`) is built from the chain
so far.  A result remembers the decisions it was built from (`basis`) so that
later states can be compared with it.

**`SafetyPreflight`** (no state) is `evaluate_safety_preflight`.  An attempt
holds its items (commands, then files, then texts, the order in which the code
reads them) with the marks the patterns find, and the policy it is compared
with.  `DomainsSeen` keeps the effect of an iterator: the first command that
reads the allowed domains uses them up.  `ApprovalKinds` keeps the early
returns of the approval checks, `PathKinds` the one for files outside the
repository.  `PreflightGate` is `to_trustops_gate_decision`: the outcome that
controls, the gate of the first finding, the evidence of all.

**`PreflightSession`** composes it with `TrustOpsSession`: `Preflight(p)`
reports the gate decision of a proposal, `AdapterReport(g)` that of any other
gate, `Build` is `Decide` or `HandOff`.  `source` remembers which report came
from which proposal.  `PreflightsImplementGates` shows that such a session is a
`TrustOpsSession`, with all that is proved of it.

**`ClaimAdmission`** (no state) holds the two `evaluate` methods as one list
of conditions each, in the code's order, and the default policies.  Trust is a
string: `unknown` stands for one the table does not hold, and `RankOr` is the
lookup with its two different defaults.

**`ClaimSession`** is the coordinating workflow, which the repository describes
but does not contain: it chooses the calls, the library answers.

| Action | Code |
|---|---|
| `Submit(c, s)` | `ClaimAdmissionPolicy.evaluate`; the registry keeps the evidence a claim was last admitted on |
| `Provisional(c)`, `Revoke(c)` | `ProvisionalAdmission.create`, `Revocation.create`: records, nothing else |
| `Propose(a, named)` | `ActionAdmissionPolicy.evaluate` with claims that were admitted at some time |

The code checks *that* claims are named, not which: that they are ones once
admitted is what the model assumes of the workflow.

**`DeviceOrchestration`** (no state) holds the device policy, its conversion to
the ABI, and the event-capability record with `ContextOf` and `Annotate`.  An
`Input` is a context that may lack fields, for which `WithDefaults` puts the
mildest value, as the code does.  Of
the free strings the ones the code compares with are kept, `other` stands for
the rest: an adapter health the code does not name counts as healthy, an effect
class it does not name is denied.

**`FrontEnds`** is the two command lines over one queue.

| Action | Code |
|---|---|
| `ReadQueue` | read the file, extract the records, annotate them all in memory |
| `OpenOutput`, `WriteOutput` | `write_text`: the file is truncated, then written |
| `Kill` | the annotator ends anywhere; the file stays as it is |
| `Simulate`, `Unreadable` | `simulate.main` up to the decision: device policy, pack, or `decision_from_event`; or the JSON does not parse, or is no object on the way to the device policy |
| `LogDecision`, `LogFails`, `PrintDecision` | `append_decision`, its `OSError`, the print |
| `Report`, `Approve`, `Receive`, `Adopt` | the environment: a health, a token or a receipt arrives; between two runs the annotated file becomes the queue |

A run that raises on a null list of receipts has written nothing: it leaves the
state as it was, and no action stands for it.  `heard` collects the outcomes a
record was written with, so that they can be compared over replays.  The
simulator hands `--tool-input` to the device policy as it is
(`WithDefaults(request.input)`); no code makes a record a context there, and a
record handed over as it is lacks all the fields the policy reads, so that it is
ruled as a harmless observation and allowed, whatever the record asks for: the
two agree on contexts, not on records.  That the
output is another file than the input is assumed of who runs the annotator: the
command line takes the same path for both, and a run killed in the middle of
the write would then leave no queue.

**`ProjectHooks`** is `project_hooks.install` for a set of installers on one
settings file: `Load` (read, merge in memory, decide whether to write),
`Refuse` (the `ValueError` and `JSONDecodeError` paths), `Open` (write_text
empties the file), `Write` (the text goes to the start of the file, over
whatever another installer wrote meanwhile: `Overlay`), `Kill`.  `Load` is one
step although the code first asks whether the file exists: nothing deletes it.
`Weight` orders texts by length as far as the counts of entries and items tell;
where they tie, both outcomes are allowed.  Long commands can make the text with
fewer hooks the longer one; that outcome is left out, and no property that is
checked depends on it.  Settings of another shape are always refused in the
model, where the code refuses only the parts that an installer was asked to
touch.  Non-object items and unrelated keys are passed through by the code and
left out.

## 3. What the runs check

Bounds are constants of the `MC*` modules and of the `.cfg` files.

| Run | Shows | Instance |
|---|---|---|
| `policy_evaluation` | type invariant; `FirstVerdictRules`; `SecretOutputWithheld`; `OnlyAdviceShadows`: advice and redaction are the only milder verdicts that can shadow a stop | every context with at most two marks. A policy reads at most two marks, so each verdict and each pair of an earlier one-mark and a later one-mark verdict occurs; the proofs cover the rest |
| `hooks` | type invariant; `KeepsEvidenceTrail` (refinement); `SpoiledAreFew`: no more small records are spoiled than artifacts were written in pieces, and so none when none was; `NoImplicitAllow`; `PolicyReachesHost`: from the payload through limit, normalizer, pack and renderer to the answer; `EveryEventAnswered` | two processes, 17 ways to start each: sizes 0, 1, limit, limit + 1 and + 2, every form of input, every kind of verdict, bulky artifacts, no log, debug. Two processes suffice for one to disturb the other between any two of its steps; the proofs hold for any number |
| `trustops` | type invariant; `SeverityFloor`; `BuildersAgree`; `ValidatedIsStrict`; `RefusalsHaveCause`: a record is refused only for a rollback fallback or a reference without its prefix, and if its handoff is accepted only for a receipt; `ReportOrderIrrelevant`: every reordering of the chain a record was built from; `OutcomeMonotone`; of preflights `FindingsReachRuntime`; `ApprovalsLiftNoBlock`; `TighterFindsMore`: every stricter mode, with fewer domains, an iterator of them, and narrower path rules; `OrderIrrelevant` | chains of up to `MaxReports` = 3 decisions, of 9 of other gates (the outcomes no preflight has, overrides that raise and lower, blank evidence, evidence without its prefix, an unknown outcome) and at most `MaxPreflights` = 1 of 13 preflights: clean ones, every kind of finding, targets partly allowed, a review before a block, two commands that share an iterator, every network mode, approvals partly given, a receipt that is blank and one without its prefix. Three decisions are the least where one that controls stands between two others; one preflight may come first, between or last, and the proofs hold for any number |
| `claims` | type invariant; `ActionsRestOnEvidence`; `GatesHold`; `DefaultsHold`: what the admission document calls invariants, of the default policies; `EvidenceNeverHurts` | one claim under each default policy and two of one's own (an unknown minimum of trust, more sources disallowed), submitted any number of times with any evidence; a second claim to name beside it; one proposal, gated, not gated, or needing no claims. `MaxRecords` = 1: a record changes nothing else, so one of each kind shows what more would |
| `front_ends` | type invariant; `RiskyNeverScheduled`; `DenialIsFinal`; `ReplayStable`: an annotated batch is a fixed point; `SimulatorAgrees`: with the context of a record the simulator says exactly what the annotated file says, and with the same action and class nothing that a later or earlier run contradicts; `AgreesWithHook`; `EvidenceGrows` | two places: one record of every effect, mode and action, alone or beside one with null receipts; runs, kills and replays without bound; simulations with the context of each record, with nothing or the class only beside a harmless and a risky record, and of one event by every route: sizes none, limit, limit + 1, a policy error, no pack, unreadable, not logged. Records do not influence each other but through the null, so two places suffice |
| `installer` | type invariant; `NoDuplicatesArise`; `UnreadableOnlyTorn`; `SerialOutcome`: readable settings are those of some installers that run one after the other; `DifferencesAskedFor`; `EndsInEffect`; `LoneInstallTakesEffect` | three installers, seven requests, five files to start from (missing, refused, with other hooks, with several entries, with a duplicate matcher); three is the least for one to find what two others garbled |

Six more runs state what a document of the repository says and find that the
code does otherwise (`findings` quotes both):

- `stricter_policy`: the control-plane document's conflict rule is "stricter
  policy wins"; the first verdict wins.  A broad `git add` with a redirection
  is advised on and goes ahead.
- `hooks_invalid_payloads`: invalid payloads should fail closed by a decision;
  bytes that are no UTF-8, or JSON that is no object, end the process with a
  traceback and no answer.
- `hooks_missing_sink`: a missing audit sink should block; the append precedes
  the answer and its failure is not caught, so a denial is never told.
- `hooks_protected_branch`: mutations of protected branches should be blocked;
  the adapter never fills in the branch.
- `trustops_record_validation`: the documented rollback fallback produces a
  record that the validator of these records refuses.
- `installer_duplicates`: the installer should deduplicate matching command
  hooks; it looks at the first entry of a matcher only.

`CHECK_DEADLOCK FALSE` is set where a behaviour is meant to end: one
evaluation, and installers that run once.  The hook runs do not need it (the
file system can always turn), nor do the sessions.

*Fairness.*  `HookAdapter` and `ProjectHooks` assume weak fairness of every
process's own steps: the operating system runs it.  Nothing forces a kill or a
change of the file system, and nothing keeps the file system from failing
forever.  `PolicyEvaluation` assumes weak fairness of its loop, which no
property uses.  The sessions and `FrontEnds` assume none and state no liveness:
they end or go on when a caller or a user likes, and no code in the repository
schedules them.  A poisoned queue shows that "every record is ruled at some
time" would be wrong even with fairness.

Every property of a passing run has a mutant in `PROJECT.json`: a definition
of the code changed as a plausible mistake would (defined next to it as
`X_...`), under which TLC finds the property violated.

## 4. What is proved

The proofs are checked by TLAPS for all values of the constants, under the
named assumptions of the modules (types of the constants, `Limit` a natural
number, `Blank` not a reference, the kinds of findings prefixed, finitely many installers and hook processes).

- **`OrderLemmas`**: sets of naturals have a least element, bounded ones a
  greatest, and of bounded ranks some one is the first of the greatest (what
  Python's `max` returns).  From well-foundedness of `<`.
- **`BaselinePoliciesProofs`**: what an artifact says follows from its
  decision; the six leading policies stop whenever they speak; a verdict that
  lets the agent go on is advice or a redaction, and none allows; the ruling is
  the verdict of a policy no later than any that speaks (`EarliestRules`).
- **`PolicyEvaluationProofs`**: `TypeCorrect`, `FirstVerdict`,
  `LeadingBlocks`, `SecretsWithheld`, `OnlyAdvice`, for every set of contexts.
  The inductive invariant says that every policy before `next` returned
  nothing and that a ruling is the verdict at `next`: without it, "first" is
  not visible in a state.
- **`HookAdapterProofs`**: `TypeCorrect`, `NeverImplicitAllow`,
  `ReachesHost`, `SmallRecords`, `FewAreSpoiled`, `Implements`, for any number
  of processes, any limit and any invocations.  The invariant `IInv` has a part per process (`Stage`: what
  it decided and said follows from where it is; `Logged`: its artifact is in
  the log exactly once it came past the append) and one for the log
  (`Chunks`: a chunk holds the decision of its writer, and only bulky
  artifacts are in pieces).  `Implements` maps every step to `Record`, `Tell`
  or a stutter of `EvidenceTrail`; that the answer agrees with the record
  needs the renderer's own list of blocking decisions to match the effects
  (`RendersHonours`).  `ReachesHost` rests on it as well, and on two facts of
  the way in: the leading policies find in the normalized context what they
  find in the payload (`NormalizedPack`), and an earlier verdict is one of
  theirs.  `FewAreSpoiled` is a counting argument: with a second invariant, a
  process writes its artifact once (`OnePerHook`), "the writer of the chunk
  before" is an injection of the spoiled records into the artifacts written in
  pieces.
- **`TrustOpsSessionProofs`**: `TypeCorrect`, `SeverityKept`, `Agreement`,
  `ValidatedStrict`, `RefusalsCaused`, `AnyReportOrderSame`, `Monotone`,
  `LoweringSpoils`, for chains of any length over any gate decisions.  The invariant says that what is kept was built by
  its builder, with this session's rollback support, from a prefix of the
  chain; the rest follows from lemmas on the mapping: a controlling decision
  exists (`ControllingExists`), no outcome of the chain exceeds it
  (`ControllingDominates`), and the action is at least as strict but for the
  declared rollback fallback (`ActionFloor`).  `RefusalsCaused` follows a
  refusal back to its cause (`RefusalReasons`): the severity test fails for the
  fallback alone, and a reference without its prefix came with a report, for
  what a preflight adds of its own has one (`PreflightPrefixed`); what a handoff
  of the same basis was accepted with leaves the receipts only.  `AnyReportOrderSame` compares
  the chain with every permutation of it: the greatest outcome, the references
  and the validity are those of the set of decisions, and only which of the
  greatest comes first is not.
  Of the composition with preflights: `PreflightsImplementGates` (every step
  of the composed session is a step or a stutter of `TrustOpsSession`), `SourceKept`,
  `FindingsKept`, `IteratorFailsClosed`, `ApprovalsAnswerReviews`,
  `TighterPolicy`, `AnyOrderSame`, for any proposals, patterns and domains.  The invariant says
  that sources run along the chain and that a preflight's report is the gate
  decision of its proposal (`SInv`); with what the session keeps of its built
  results, every finding is then in their evidence.  Behind
  `AnyOrderSame` are two facts: of two commands that read an iterator the
  second is blocked in any order (`SecondReaderBlocked`), and what is blocked
  in one order leaves something blocked in every other (`BlockedElsewhere`).
- **`ClaimSessionProofs`**: `TypeCorrect`, `EvidenceBehindActions`,
  `GatesKept`, `DefaultsKept`, `EvidenceHelps`, `TrustSettlesProvisional`,
  `NotRevisited`, for any claims, policies and submissions; `DefaultsKept` also
  where other policies are deployed beside the default ones.  The invariant relates what a session
  remembers: a ruling is that of the last submission (`RulingsKept`), what is
  in the registry was let on by its policy (`RegistrySound`), records are of
  admitted claims (`RecordsSound`), and an answer is the ruling on claims that
  were admitted (`AnswersKept`).
- **`FrontEndsProofs`**: `TypeCorrect`, `RiskWaits`, `DenialsStand`,
  `ReplaysStable`, `SameAnswers`, `PoisonWaits`, `HookForecast`, `LoggedFirst`, `EvidenceKept`,
  for queues of any length, any command line and any limit.  Safety is not
  inductive as stated, for a batch in memory is not the queue it was read
  from: health, tokens and receipts change while a run is under way.  The
  invariant says that what is in memory and in the file `Follows` the queue
  (each record has the outcome of its own fields, its receipts among its
  evidence, the risk of the queue's record and at least its evidence: `RunSound`, `FileSound`), that what was
  heard of a record tells its risk and whether it needs approval
  (`HeardSound`), and that a poisoned queue
  was never read (`PoisonSound`).  The simulator's part (`SInv`) is separate,
  for it shares nothing with the annotator: its decision is that of its request
  and the log holds no other.  `SameAnswers` sets the two beside each other: a
  record with an outcome has the one its context is ruled with
  (`RecordRuled`, `SimRuled`), and of risk, action and class the queue's records
  keep what was heard of them (`ContextTold`, `OutcomeTyped`).
- **`ProjectHooksProofs`**: `TypeCorrect`, `GivenKept`, `NoDuplicates`,
  `Unreadable`, `Serializable`, `AsAsked`, `EndingInEffect`, for any finite set of installers, any requests, and any file
  that no installer had emptied or garbled before.  What an installer computed
  and what can be read both extend the settings found (`PlansExtend`,
  `FileExtends`), which a merge keeps (`MergeExtends`, from lemmas on each
  level: items, entries, events); that a garbled file had two writers needs to
  know that a file which is not empty while it is written was written by
  another installer before (`WrittenBefore`).
  `Serializable` needs more than what is in the file: an installer holds a plan
  it made of settings that are gone.  Its invariant says of every plan, and of
  what can be read, that some of the installers that ended, each once and one
  after the other, lead to the settings it was merged into (`PlansSerial`,
  `FileSerial`); when the plan is written its own installer is added to the
  end of that sequence, and the updates it overwrites drop out of it.  The
  witness is a sequence of installers and of the settings between them
  (`Chain`), which is a definition instead of an induction; that no more steps
  than installers are needed (`ChainBound`) is the pigeonhole principle.
  `AsAsked` follows along the chain from lemmas on each level of a merge
  (`AddItemAsAsked`, `AddEntryAsAsked`, `MergeAsAsked`).

Ten of these theorems state definitions that no run checks, as TLC would only
repeat on a small instance what a neighbour says: `LeadingBlocks` (end to end in
`PolicyReachesHost`), `SmallRecords` (`SpoiledAreFew` when nothing is bulky),
`GivenKept` (`DifferencesAskedFor`), `LoweringSpoils` (`SeverityFloor`),
`IteratorFailsClosed` (`TighterFindsMore`, but that blocked targets are all an
iterator adds), `SourceKept` (the lemma under `FindingsKept`), and
`TrustSettlesProvisional`, `NotRevisited`, `PoisonWaits` and `LoggedFirst`,
which follow from one definition of the code each.

Only model-checked: liveness (`EveryEventAnswered`, `LoneInstallTakesEffect`),
which the provers cannot reach, and the violations, which are counterexamples.

Two results that a reader of the code may find surprising are theorems.
`NotRevisited`: the admission policy document says that a
revocation supersedes a prior admission, and nothing in the package looks one
up; an action that names a revoked claim is told what it was told before.
`PoisonWaits`: one record whose `receipt_refs` are null keeps every
other one of its queue from being ruled.

## 5. Not modelled

- Which texts the regular expressions match, and tokenizing: a model of marks
  cannot find a pattern that is too narrow.
- Digests, identifiers, timestamps, wording and serialization.
- The host: what it does with an answer, or with a hook that ends without
  one, is outside the code.  A redaction is told as additional context; the
  output is not changed by the adapter.
- Schema constants, the projections, which the builders copy, and empty
  identifiers of a handoff in the validators: what is left out refuses more.
- Expiry and timestamps of provisional admissions: the code stores them and
  compares nothing with them.
- The SourceOS queue, device adapters and the coordinating workflow beyond
  what the code assumes of their calls.
- The WallGuard binding validator, `tools/guardrail_fabric.py` and the example
  and workroom validators: each compares one document with constants, keeps no
  state, and nothing else in the repository builds or reads what they check, so
  that a model would restate their conditions and relate them to nothing.
- Data files, examples, the release dry run and workflows.

## 6. Plan

In this order; each module with its lemmas first, so that it can be proved
about as well as checked.

1. Done: `DecisionABI`, `BaselinePolicies`, `PolicyEvaluation`,
   `EvidenceTrail`, `HookAdapter`, `RuntimeActions`, `TrustOpsSession`,
   `ProjectHooks`.
2. Done: `SafetyPreflight`, composed with `RuntimeActions` in
   `PreflightSession`, with proofs.
3. Done: `ClaimAdmission` and `ClaimSession`, with proofs.
4. Done: `DeviceOrchestration` and `FrontEnds`, with proofs.
5. Done: proofs for `ProjectHooks`.
6. Done: what the components promise together, checked and proved: the outcome
   of overlapping installers (`SerialOutcome`, `DifferencesAskedFor`,
   `EndsInEffect`), of reordered gates and tighter policies
   (`ReportOrderIrrelevant`, `RefusalsHaveCause`, `TighterFindsMore`), of
   spoiled records and of policies on the way to the host (`SpoiledAreFew`,
   `PolicyReachesHost`), of the default admission policies (`DefaultsHold`) and
   of replays (`ReplayStable`).

Nothing of the plan is left; what is only model-checked is said in section 4.
