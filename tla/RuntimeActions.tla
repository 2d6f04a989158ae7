--------------------------- MODULE RuntimeActions ---------------------------
(***************************************************************************)
(* From TrustOps gate decisions to one runtime action, the record and the  *)
(* handoff built from it, and the validators both are checked with.        *)
(* References keep their identity, and whether they have the prefix that   *)
(* the validators ask for; their order in a record is left out.            *)
(***************************************************************************)
EXTENDS Integers, Sequences

CONSTANTS
  Refs,      \* receipt ids, gate ids and evidence refs
  Blank,     \* the empty string
  Prefixed   \* for each list of a record, the references with its prefix

\* The lists of references of a record.
Fields == {"receipts", "gates", "evidence"}

ASSUME BlankAssumption == Blank \notin Refs
ASSUME PrefixedAssumption == Prefixed \in [Fields -> SUBSET Refs]

OutcomeRank ==
  [pass |-> 0, warn |-> 10, review |-> 20, quarantine |-> 30, block |-> 40,
   rollback |-> 50, revoke |-> 60]
ActionRank ==
  [allow |-> 0, warn |-> 10, review |-> 20, quarantine |-> 30, block |-> 40,
   rollback |-> 50, revoke |-> 60]
DefaultAction ==
  [pass |-> "allow", warn |-> "warn", review |-> "review",
   quarantine |-> "quarantine", block |-> "block", rollback |-> "rollback",
   revoke |-> "revoke"]

Outcomes == DOMAIN OutcomeRank
Actions == DOMAIN ActionRank

\* A gate decision as adapters hand it over: the outcome may be no TrustOps
\* outcome, references may be empty, an override asks for another action.
GateDecision ==
  [outcome : Outcomes \cup {"unknown"}, receipt : Refs \cup {Blank},
   gate : Refs \cup {Blank}, evidence : SUBSET (Refs \cup {Blank}),
   override : Actions \cup {"none"}]

Lowers(action, outcome) == ActionRank[action] < OutcomeRank[outcome]

\* _normalize_decision and _validate_decision, without an exception.
ValidGate(g) ==
  /\ g.outcome \in Outcomes
  /\ g.receipt # Blank /\ g.gate # Blank
  /\ g.outcome = "quarantine" => g.evidence # {}
  /\ g.override # "none" => ~Lowers(g.override, g.outcome)

Mappable(chain) ==
  chain # <<>> /\ \A k \in DOMAIN chain : ValidGate(chain[k])

Rank(chain, k) == OutcomeRank[chain[k].outcome]

\* Mutant of Controls: the last decision controls.
Controls_Last(chain, k) == k = Len(chain)

\* max() returns the first of the items with the highest precedence.
Controls(chain, k) ==
  \A j \in DOMAIN chain :
    /\ Rank(chain, j) <= Rank(chain, k)
    /\ j < k => Rank(chain, j) < Rank(chain, k)

ControllingGate(chain) ==
  chain[CHOOSE k \in DOMAIN chain : Controls(chain, k)]

RollbackMissing(g, rollbackSupported) ==
  g.outcome = "rollback" /\ ~rollbackSupported

\* The default action of the controlling outcome, an override of it, or the
\* fallback of a rollback that the runtime cannot perform.
RuntimeAction(g, rollbackSupported) ==
  IF RollbackMissing(g, rollbackSupported) THEN "block"
  ELSE IF g.override # "none" THEN g.override
  ELSE DefaultAction[g.outcome]

AllRefs(chain, field) ==
  {chain[k][field] : k \in DOMAIN chain} \ {Blank}

\* Mutant of AllEvidence: empty references are kept.
AllEvidence_KeepsBlank(chain) ==
  UNION {chain[k].evidence : k \in DOMAIN chain}

AllEvidence(chain) ==
  (UNION {chain[k].evidence : k \in DOMAIN chain}) \ {Blank}

\* map_trustops_to_runtime_action of a mappable chain.
RuntimeDecision(chain, rollbackSupported) ==
  LET g == ControllingGate(chain)
  IN  [action   |-> RuntimeAction(g, rollbackSupported),
       outcome  |-> g.outcome,
       receipts |-> AllRefs(chain, "receipt"),
       gates    |-> AllRefs(chain, "gate"),
       evidence |-> AllEvidence(chain),
       fallback |-> RollbackMissing(g, rollbackSupported)]

DownstreamIntent(action) ==
  IF action \in {"allow", "warn"} THEN "none" ELSE "agent_registry_decision"

-----------------------------------------------------------------------------
(* The two builders.  A result keeps the decisions it was computed from.   *)

NoDecision ==
  [action |-> "allow", outcome |-> "pass", receipts |-> {}, gates |-> {},
   evidence |-> {}, fallback |-> FALSE]

Result(status, chain, d, header) ==
  [status |-> status, basis |-> chain, decision |-> d, header |-> header,
   intent |-> DownstreamIntent(d.action)]

NotBuilt == Result("none", <<>>, NoDecision, "none")
Rejected(chain) == Result("rejected", chain, NoDecision, "none")

\* What the caller supplies beside the chain: identifiers and policy refs,
\* one of them missing, a policy ref given twice, or one that is empty.
Headers == {"complete", "incomplete", "repeated_policy", "blank_policy"}

\* build_guardrail_action_decision.  The form of references is not looked at,
\* neither here nor in the handoff.
BuildRecord(chain, rollbackSupported, header) ==
  LET d == RuntimeDecision(chain, rollbackSupported)
  IN  IF /\ Mappable(chain)
         /\ header # "incomplete"
         /\ d.gates # {} /\ d.evidence # {}
      THEN Result("built", chain, d, header)
      ELSE Rejected(chain)

\* A handoff names one source receipt, the first one of the chain when the
\* caller names none.
HandoffDecision(chain, rollbackSupported) ==
  [RuntimeDecision(chain, rollbackSupported)
     EXCEPT !.receipts = {chain[1].receipt}]

\* Mutant of BuildHandoff: written for runtimes that can roll back.
BuildHandoff_AssumesRollback(chain, rollbackSupported) ==
  LET d == HandoffDecision(chain, TRUE)
  IN  IF Mappable(chain) /\ d.gates # {} /\ d.evidence # {}
      THEN Result("built", chain, d, "complete")
      ELSE Rejected(chain)

\* build_preflight_handoff.
BuildHandoff(chain, rollbackSupported) ==
  LET d == HandoffDecision(chain, rollbackSupported)
  IN  IF Mappable(chain) /\ d.gates # {} /\ d.evidence # {}
      THEN Result("built", chain, d, "complete")
      ELSE Rejected(chain)

-----------------------------------------------------------------------------
(* The validators, on what the builders write.                             *)

\* All references in these lists have the prefix of their list.
WellFormed(d, fields) == \A field \in fields : d[field] \subseteq Prefixed[field]

\* Mutant of RecordValid: the severity test points the wrong way.
RecordValid_Raised(r) ==
  /\ ActionRank[DefaultAction[r.decision.outcome]]
       >= ActionRank[r.decision.action]
  /\ r.header = "complete"
  /\ \A field \in Fields : r.decision[field] # {}
  /\ WellFormed(r.decision, Fields)
  /\ r.decision.action \in {"allow", "warn"} <=> r.intent = "none"

\* validate_decision: severity is kept, policy refs are given, each once, no
\* list is empty, every reference has its prefix, and restrictive actions
\* expose an intent for the agent registry.
RecordValid(r) ==
  /\ ActionRank[r.decision.action]
       >= ActionRank[DefaultAction[r.decision.outcome]]
  /\ r.header = "complete"
  /\ \A field \in Fields : r.decision[field] # {}
  /\ WellFormed(r.decision, Fields)
  /\ r.decision.action \in {"allow", "warn"} <=> r.intent = "none"

\* Mutant of HandoffValid: only the gates are asked for their prefix.
HandoffValid_GatesOnly(r) ==
  /\ r.decision.action = DefaultAction[r.decision.outcome]
  /\ r.decision.gates # {} /\ r.decision.evidence # {}
  /\ WellFormed(r.decision, {"gates"})

\* validate_handoff: the action is exactly the default of the outcome, and
\* gates and evidence have their prefix; the source receipt need only be there.
HandoffValid(r) ==
  /\ r.decision.action = DefaultAction[r.decision.outcome]
  /\ r.decision.gates # {} /\ r.decision.evidence # {}
  /\ WellFormed(r.decision, {"gates", "evidence"})
=============================================================================
