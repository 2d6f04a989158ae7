--------------------------- MODULE TrustOpsSession ---------------------------
(***************************************************************************)
(* A preflight session: TrustOps gates report in any order, and at any     *)
(* time the guardrail action decision or the AgentPlane handoff is built   *)
(* from the decisions reported so far.  What was built stays as it is      *)
(* while more gates report, until it is built again.                       *)
(***************************************************************************)
EXTENDS RuntimeActions, FiniteSets

CONSTANTS
  GateDecisions,  \* what the gates may report
  MaxReports      \* bound on the reports of a session

ASSUME GateDecisionsAssumption == GateDecisions \subseteq GateDecision
ASSUME MaxReportsAssumption == MaxReports \in Nat

VARIABLES
  chain,              \* the gate decisions reported so far
  rollbackSupported,  \* whether the runtime can roll back
  record,             \* the last guardrail action decision
  handoff             \* the last preflight handoff

vars == <<chain, rollbackSupported, record, handoff>>

Init ==
  /\ chain = <<>>
  /\ rollbackSupported \in BOOLEAN
  /\ record = NotBuilt
  /\ handoff = NotBuilt

Report(g) ==
  /\ Len(chain) < MaxReports
  /\ chain' = Append(chain, g)
  /\ UNCHANGED <<rollbackSupported, record, handoff>>

Decide(header) ==
  /\ record' = BuildRecord(chain, rollbackSupported, header)
  /\ UNCHANGED <<chain, rollbackSupported, handoff>>

HandOff ==
  /\ handoff' = BuildHandoff(chain, rollbackSupported)
  /\ UNCHANGED <<chain, rollbackSupported, record>>

Next ==
  \/ \E g \in GateDecisions : Report(g)
  \/ \E header \in Headers : Decide(header)
  \/ HandOff

Spec == Init /\ [][Next]_vars

-----------------------------------------------------------------------------

Built(r) == r.status = "built"

\* The chain begins with these decisions.
StillFirst(basis) ==
  Len(basis) <= Len(chain) /\ \A k \in DOMAIN basis : basis[k] = chain[k]

Decisions ==
  [action : Actions, outcome : Outcomes, receipts : SUBSET Refs,
   gates : SUBSET Refs, evidence : SUBSET Refs, fallback : BOOLEAN]

IsResult(r) ==
  /\ r.status \in {"none", "rejected", "built"}
  /\ r.decision \in Decisions
  /\ r.header \in Headers \cup {"none"}
  /\ r.intent \in {"none", "agent_registry_decision"}
  /\ StillFirst(r.basis)

\* Every variable has its type; what was built was built from decisions that
\* are still the first ones of the chain.
TypeOK ==
  /\ chain \in Seq(GateDecisions)
  /\ Len(chain) <= MaxReports
  /\ rollbackSupported \in BOOLEAN
  /\ IsResult(record) /\ IsResult(handoff)

\* Nothing a gate reported is lowered: the action of whatever was built is
\* at least as strict as the outcome of every gate it was built from, not
\* only the controlling one.  The one exception is a rollback the runtime
\* cannot perform, which is a block and says so.
Floor(r) ==
  Built(r) =>
    \A k \in DOMAIN r.basis :
      \/ ~Lowers(r.decision.action, r.basis[k].outcome)
      \/ /\ r.decision.fallback
         /\ ~rollbackSupported
         /\ r.decision.action = "block"
         /\ r.basis[k].outcome = "rollback"

SeverityFloor == Floor(record) /\ Floor(handoff)

\* The record and the handoff of the same decisions agree: where a record
\* could be built a handoff was built too, with the same outcome, action,
\* fallback, gates and evidence, and its source receipt is in the record.
Agree(r, h) ==
  /\ h.decision.receipts \subseteq r.decision.receipts
  /\ h.decision = [r.decision EXCEPT !.receipts = h.decision.receipts]

BuildersAgree ==
  (Built(record) /\ handoff.basis = record.basis)
     => Built(handoff) /\ Agree(record, handoff)

\* What the validators let pass is safe: a built record its validator
\* accepts, and a built handoff its validator accepts, is at least as strict
\* as every gate it came from, with no exception for a fallback.
ValidatedIsStrict ==
  /\ (Built(record) /\ RecordValid(record)) =>
       \A k \in DOMAIN record.basis :
         ~Lowers(record.decision.action, record.basis[k].outcome)
  /\ (Built(handoff) /\ HandoffValid(handoff)) =>
       \A k \in DOMAIN handoff.basis :
         ~Lowers(handoff.decision.action, handoff.basis[k].outcome)

\* Gates report in any order, and only a tie lets it show: from the same
\* decisions in another order the same is built, up to the action, and this
\* is always that of a decision with the controlling outcome.
Shuffles(D) ==
  {f \in [D -> D] : /\ \A j, k \in D : f[j] = f[k] => j = k
                    /\ \A k \in D : \E j \in D : f[j] = k}
Shuffled(s, f) == [k \in DOMAIN s |-> s[f[k]]]

TiedActions(s, outcome, rs) ==
  {RuntimeAction(s[k], rs) : k \in {j \in DOMAIN s : s[j].outcome = outcome}}

OnlyTiesShow(s, rs) ==
  \A f \in Shuffles(DOMAIN s) :
    LET d == RuntimeDecision(s, rs)
        e == RuntimeDecision(Shuffled(s, f), rs)
    IN  /\ e = [d EXCEPT !.action = e.action]
        /\ {d.action, e.action} \subseteq TiedActions(s, d.outcome, rs)

ReportOrderIrrelevant ==
  Built(record) => OnlyTiesShow(record.basis, rollbackSupported)

\* Evidence only ever tightens the outcome: a record built again, after more
\* gates reported, never has a milder controlling outcome, and loses none of
\* the references of the earlier one.
OutcomeMonotone ==
  [][ (Built(record) /\ Built(record')) =>
        /\ OutcomeRank[record'.decision.outcome]
             >= OutcomeRank[record.decision.outcome]
        /\ record.decision.evidence \subseteq record'.decision.evidence
        /\ record.decision.gates \subseteq record'.decision.gates ]_vars

\* A gate whose adapter asks for less than its outcome spoils the session
\* for good: nothing is built from then on, whatever other gates report.
LoweringNeverPasses ==
  [][ ( /\ \E k \in DOMAIN chain :
             /\ chain[k].outcome \in Outcomes
             /\ chain[k].override # "none"
             /\ Lowers(chain[k].override, chain[k].outcome)
        /\ record' # record )
      => ~Built(record') ]_vars

\* docs/trustops-runtime-action-mapping.md: the mapper emits block when the
\* runtime cannot roll back, and the validator checks the mapper's records.
\* A built record whose policy references are given and distinct passes
\* validation, where every reference a gate may report has its prefix.
BuiltRecordValidates ==
  (Built(record) /\ record.header = "complete") => RecordValid(record)
=============================================================================
