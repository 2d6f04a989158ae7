----------------------- MODULE TrustOpsSessionProofs -----------------------
(***************************************************************************)
(* Proofs about the runtime action mapping, the sessions that use it, and  *)
(* the safety preflight as one of their gates: for chains of any length    *)
(* over any gates, references and overrides, and for attempts of any       *)
(* number of commands, files and texts.                                    *)
(***************************************************************************)
EXTENDS PreflightSession, OrderLemmas, SequenceTheorems

-----------------------------------------------------------------------------
(* The mapping.                                                            *)

\* Ranks are naturals up to that of revoke, and the default action of an
\* outcome has its rank.
LEMMA Ranks ==
  /\ \A o \in Outcomes : /\ OutcomeRank[o] \in 0 .. 60
                         /\ DefaultAction[o] \in Actions
                         /\ ActionRank[DefaultAction[o]] = OutcomeRank[o]
  /\ \A a \in Actions : ActionRank[a] \in 0 .. 60
<1>1. /\ Outcomes = {"pass", "warn", "review", "quarantine", "block",
                     "rollback", "revoke"}
      /\ Actions = {"allow", "warn", "review", "quarantine", "block",
                    "rollback", "revoke"}
  BY DEF Outcomes, Actions, OutcomeRank, ActionRank
<1> QED  BY <1>1 DEF OutcomeRank, ActionRank, DefaultAction

\* A mappable chain has a controlling decision.
LEMMA ControllingExists ==
  ASSUME NEW s \in Seq(GateDecision), Mappable(s)
  PROVE  \E k \in DOMAIN s : ControllingGate(s) = s[k] /\ Controls(s, k)
<1> DEFINE rank == [k \in DOMAIN s |-> OutcomeRank[s[k].outcome]]
<1>1. \A k \in DOMAIN s : OutcomeRank[s[k].outcome] \in 0 .. 60
  BY Ranks DEF Mappable, ValidGate
<1>2. rank \in [DOMAIN s -> 0 .. 60]
  BY <1>1
<1>3. DOMAIN s \in SUBSET Nat /\ DOMAIN s # {}
  BY DEF Mappable
<1>4. PICK k \in DOMAIN s :
        \A j \in DOMAIN s : /\ rank[j] <= rank[k]
                            /\ j < k => rank[j] < rank[k]
  <2> HIDE DEF rank
  <2> QED  BY <1>2, <1>3, FirstGreatest
<1>5. \A j \in DOMAIN s : rank[j] = Rank(s, j)
  BY DEF Rank
<1>6. Controls(s, k)
  <2> HIDE DEF rank
  <2> QED  BY <1>4, <1>5, Zenon DEF Controls
<1>8. \E i \in DOMAIN s : Controls(s, i)
  BY <1>6
<1>9. Controls(s, CHOOSE i \in DOMAIN s : Controls(s, i))
      /\ (CHOOSE i \in DOMAIN s : Controls(s, i)) \in DOMAIN s
  BY <1>8
<1> QED  BY <1>9 DEF ControllingGate

\* The controlling decision is a valid one of the chain, and no decision of
\* the chain has a higher outcome.
LEMMA ControllingDominates ==
  ASSUME NEW s \in Seq(GateDecision), Mappable(s)
  PROVE  /\ ControllingGate(s) \in GateDecision
         /\ ValidGate(ControllingGate(s))
         /\ \E k \in DOMAIN s : ControllingGate(s) = s[k]
         /\ \A j \in DOMAIN s :
              OutcomeRank[s[j].outcome]
                <= OutcomeRank[ControllingGate(s).outcome]
<1>1. PICK k \in DOMAIN s : ControllingGate(s) = s[k] /\ Controls(s, k)
  BY ControllingExists
<1> QED  BY <1>1 DEF Controls, Rank, Mappable

\* An action that does not lower an outcome lowers no milder one.
LEMMA NotLower ==
  ASSUME NEW a, NEW o, NEW p,
         ActionRank[a] \in 0 .. 60, OutcomeRank[o] \in 0 .. 60,
         OutcomeRank[p] \in 0 .. 60,
         ~(ActionRank[a] < OutcomeRank[p]), OutcomeRank[o] <= OutcomeRank[p]
  PROVE  ~Lowers(a, o)
<1>1. \A x, y, z \in 0 .. 60 : ~(x < z) /\ y <= z => ~(x < y)
  OBVIOUS
<1>2. ~(ActionRank[a] < OutcomeRank[o])
  BY <1>1
<1> QED  BY <1>2 DEF Lowers

\* The runtime action of a valid decision is at least as strict as every
\* outcome up to its own, but for the fallback of a rollback.
LEMMA ActionOfGate ==
  ASSUME NEW g \in GateDecision, ValidGate(g), NEW rs \in BOOLEAN,
         NEW o \in Outcomes, OutcomeRank[o] <= OutcomeRank[g.outcome]
  PROVE  /\ RuntimeAction(g, rs) \in Actions
         /\ \/ ~Lowers(RuntimeAction(g, rs), o)
            \/ /\ RollbackMissing(g, rs)
               /\ RuntimeAction(g, rs) = "block"
               /\ o = "rollback"
<1>1. g.outcome \in Outcomes
  BY DEF ValidGate
<1>2. OutcomeRank[o] \in 0 .. 60 /\ OutcomeRank[g.outcome] \in 0 .. 60
  BY <1>1, Ranks
<1>3. CASE RollbackMissing(g, rs)
  <2>1. g.outcome = "rollback" /\ RuntimeAction(g, rs) = "block"
    BY <1>3 DEF RollbackMissing, RuntimeAction
  <2>2. OutcomeRank[o] <= 50
    BY <2>1 DEF OutcomeRank
  <2>3. o = "rollback" \/ OutcomeRank[o] <= 40
    BY <2>2 DEF OutcomeRank, Outcomes
  <2>4. ActionRank["block"] = 40 /\ "block" \in Actions
    BY DEF ActionRank, Actions
  <2>5. o = "rollback" \/ ~Lowers("block", o)
    BY <1>2, <2>3, <2>4 DEF Lowers
  <2> QED  BY <1>3, <2>1, <2>4, <2>5
<1>4. CASE ~RollbackMissing(g, rs) /\ g.override # "none"
  <2>1. RuntimeAction(g, rs) = g.override /\ g.override \in Actions
    BY <1>4 DEF RuntimeAction, GateDecision
  <2>2. ~(ActionRank[g.override] < OutcomeRank[g.outcome])
    BY <1>4 DEF ValidGate, Lowers
  <2>3. ActionRank[g.override] \in 0 .. 60
    BY <2>1, Ranks
  <2>4. ~Lowers(g.override, o)
    BY <1>2, <2>2, <2>3, NotLower
  <2> QED  BY <2>1, <2>4
<1>5. CASE ~RollbackMissing(g, rs) /\ g.override = "none"
  <2>1. RuntimeAction(g, rs) = DefaultAction[g.outcome]
    BY <1>5 DEF RuntimeAction
  <2>2. /\ DefaultAction[g.outcome] \in Actions
        /\ ActionRank[DefaultAction[g.outcome]] = OutcomeRank[g.outcome]
    BY <1>1, Ranks
  <2>3. ~Lowers(DefaultAction[g.outcome], o)
    <3>1. /\ ActionRank[DefaultAction[g.outcome]] \in 0 .. 60
          /\ ~(ActionRank[DefaultAction[g.outcome]] < OutcomeRank[g.outcome])
      BY <1>2, <2>2
    <3> QED  BY <1>2, <3>1, NotLower
  <2> QED  BY <2>1, <2>2, <2>3
<1> QED  BY <1>3, <1>4, <1>5

\* The decision mapped from a chain is at least as strict as every outcome
\* of the chain, but for the fallback of a rollback.
LEMMA ActionFloor ==
  ASSUME NEW s \in Seq(GateDecision), Mappable(s), NEW rs \in BOOLEAN,
         NEW j \in DOMAIN s
  PROVE  \/ ~Lowers(RuntimeDecision(s, rs).action, s[j].outcome)
         \/ /\ RuntimeDecision(s, rs).fallback
            /\ ~rs
            /\ RuntimeDecision(s, rs).action = "block"
            /\ s[j].outcome = "rollback"
<1> DEFINE g == ControllingGate(s)
<1>1. /\ g \in GateDecision /\ ValidGate(g)
      /\ OutcomeRank[s[j].outcome] <= OutcomeRank[g.outcome]
      /\ s[j].outcome \in Outcomes
  BY ControllingDominates DEF Mappable, ValidGate
<1>2. /\ RuntimeDecision(s, rs).action = RuntimeAction(g, rs)
      /\ RuntimeDecision(s, rs).fallback = RollbackMissing(g, rs)
  BY DEF RuntimeDecision
<1>3. RollbackMissing(g, rs) => ~rs
  BY DEF RollbackMissing
<1> HIDE DEF g
<1> QED  BY <1>1, <1>2, <1>3, ActionOfGate, Zenon

-----------------------------------------------------------------------------
(* The session.                                                            *)

\* What is kept was built by its builder, under this session's rollback
\* support, from decisions that are still the first of the chain.
Kept(r) == r.basis \in Seq(GateDecisions) /\ StillFirst(r.basis)

RecordBuilt ==
  \/ record = NotBuilt
  \/ \E header \in Headers :
       record = BuildRecord(record.basis, rollbackSupported, header)

HandoffBuilt ==
  \/ handoff = NotBuilt
  \/ handoff = BuildHandoff(handoff.basis, rollbackSupported)

IInv ==
  /\ chain \in Seq(GateDecisions)
  /\ Len(chain) <= MaxReports
  /\ rollbackSupported \in BOOLEAN
  /\ Kept(record) /\ RecordBuilt
  /\ Kept(handoff) /\ HandoffBuilt

\* The builders keep the decisions they were given.
LEMMA Basis ==
  \A s, rs, header :
    /\ BuildRecord(s, rs, header).basis = s
    /\ BuildHandoff(s, rs).basis = s
BY DEF BuildRecord, BuildHandoff, Rejected, Result

\* The invariant is inductive.
LEMMA Inductive == Spec => []IInv
<1>1. Init => IInv
  <2> SUFFICES ASSUME Init  PROVE IInv
    OBVIOUS
  <2>1. NotBuilt.basis = <<>>
    BY DEF NotBuilt, Result
  <2>2. chain \in Seq(GateDecisions) /\ Len(chain) <= MaxReports
    BY MaxReportsAssumption DEF Init
  <2>3. Kept(record) /\ Kept(handoff)
    BY <2>1, <2>2 DEF Init, Kept, StillFirst
  <2> QED  BY <2>2, <2>3 DEF Init, IInv, RecordBuilt, HandoffBuilt
<1>2. IInv /\ [Next]_vars => IInv'
  <2> SUFFICES ASSUME IInv, [Next]_vars  PROVE IInv'
    OBVIOUS
  <2> USE DEF IInv
  <2>1. ASSUME NEW g \in GateDecisions, Report(g)  PROVE IInv'
    <3>1. /\ chain' \in Seq(GateDecisions) /\ Len(chain') = Len(chain) + 1
          /\ \A k \in 1 .. Len(chain) : chain'[k] = chain[k]
      BY <2>1 DEF Report
    <3>2. ASSUME NEW b \in Seq(GateDecisions), StillFirst(b)
          PROVE  StillFirst(b)'
      BY <3>1, <3>2 DEF StillFirst
    <3>3. Kept(record)' /\ Kept(handoff)'
      BY <2>1, <3>2 DEF Report, Kept, StillFirst
    <3>4. Len(chain') <= MaxReports
      BY <2>1, <3>1, MaxReportsAssumption DEF Report
    <3>5. RecordBuilt' /\ HandoffBuilt'
      BY <2>1 DEF Report, RecordBuilt, HandoffBuilt
    <3> QED  BY <2>1, <3>1, <3>3, <3>4, <3>5 DEF Report
  <2>2. ASSUME NEW header \in Headers, Decide(header)  PROVE IInv'
    <3>1. record'.basis = chain
      BY <2>2, Basis DEF Decide
    <3>2. Kept(record)' /\ RecordBuilt'
      BY <2>2, <3>1 DEF Decide, Kept, StillFirst, RecordBuilt
    <3> QED  BY <2>2, <3>2 DEF Decide, Kept, StillFirst, HandoffBuilt
  <2>3. ASSUME HandOff  PROVE IInv'
    <3>1. handoff'.basis = chain
      BY <2>3, Basis DEF HandOff
    <3>2. Kept(handoff)' /\ HandoffBuilt'
      BY <2>3, <3>1 DEF HandOff, Kept, StillFirst, HandoffBuilt
    <3> QED  BY <2>3, <3>2 DEF HandOff, Kept, StillFirst, RecordBuilt
  <2>4. CASE UNCHANGED vars
    BY <2>4 DEF vars, Kept, StillFirst, RecordBuilt, HandoffBuilt
  <2> QED  BY <2>1, <2>2, <2>3, <2>4 DEF Next
<1> QED  BY <1>1, <1>2, PTL DEF Spec

\* A reported decision is a gate decision.
LEMMA Reported ==
  ASSUME NEW s \in Seq(GateDecisions)
  PROVE  s \in Seq(GateDecision)
BY GateDecisionsAssumption

\* What is built was built from a mappable chain: it holds the decision
\* mapped from it.
LEMMA BuiltRecord ==
  ASSUME IInv, Built(record)
  PROVE  /\ record.basis \in Seq(GateDecision) /\ Mappable(record.basis)
         /\ record.decision = RuntimeDecision(record.basis, rollbackSupported)
         /\ record.decision.gates # {} /\ record.decision.evidence # {}
<1>1. record # NotBuilt
  BY DEF Built, NotBuilt, Result
<1>2. PICK header \in Headers :
        record = BuildRecord(record.basis, rollbackSupported, header)
  BY <1>1 DEF IInv, RecordBuilt
<1>3. record # Rejected(record.basis)
  BY DEF Built, Rejected, Result
<1>4. record.basis \in Seq(GateDecision)
  BY Reported DEF IInv, Kept
<1>5. LET d == RuntimeDecision(record.basis, rollbackSupported)
      IN  /\ Mappable(record.basis) /\ d.gates # {} /\ d.evidence # {}
          /\ record = Result("built", record.basis, d, header)
  BY <1>2, <1>3 DEF BuildRecord
<1> QED  BY <1>4, <1>5 DEF Result

\* A handoff differs from the decision mapped from its chain by its receipts.
LEMMA HandoffRuling ==
  ASSUME NEW s, NEW rs, NEW h, h = HandoffDecision(s, rs)
  PROVE  /\ h.action = RuntimeDecision(s, rs).action
         /\ h.outcome = RuntimeDecision(s, rs).outcome
         /\ h.gates = RuntimeDecision(s, rs).gates
         /\ h.evidence = RuntimeDecision(s, rs).evidence
         /\ h.fallback = RuntimeDecision(s, rs).fallback
         /\ h.receipts = {s[1].receipt}
         /\ h = [RuntimeDecision(s, rs) EXCEPT !.receipts = {s[1].receipt}]
BY DEF HandoffDecision, RuntimeDecision

\* The same for the handoff.
LEMMA BuiltHandoff ==
  ASSUME IInv, Built(handoff)
  PROVE  /\ handoff.basis \in Seq(GateDecision) /\ Mappable(handoff.basis)
         /\ handoff.decision
              = HandoffDecision(handoff.basis, rollbackSupported)
<1>1. handoff # NotBuilt /\ handoff # Rejected(handoff.basis)
  BY DEF Built, NotBuilt, Rejected, Result
<1>2. handoff = BuildHandoff(handoff.basis, rollbackSupported)
  BY <1>1 DEF IInv, HandoffBuilt
<1>3. LET d == HandoffDecision(handoff.basis, rollbackSupported)
      IN  /\ Mappable(handoff.basis)
          /\ handoff = Result("built", handoff.basis, d, "complete")
  BY <1>1, <1>2 DEF BuildHandoff
<1>4. handoff.basis \in Seq(GateDecision)
  BY Reported DEF IInv, Kept
<1> QED  BY <1>3, <1>4 DEF Result

\* The source receipt of a handoff is a receipt of its chain.
LEMMA SourceReceipt ==
  ASSUME NEW s \in Seq(GateDecision), Mappable(s)
  PROVE  s[1].receipt \in AllRefs(s, "receipt") /\ s[1].receipt \in Refs
<1>1. 1 \in DOMAIN s /\ s[1] \in GateDecision
  BY DEF Mappable
<1>2. s[1].receipt # Blank
  BY <1>1 DEF Mappable, ValidGate
<1>3. s[1].receipt = s[1]["receipt"]
  OBVIOUS
<1>4. s[1].receipt \in Refs
  BY <1>1, <1>2 DEF GateDecision
<1>5. s[1]["receipt"] \in {s[k]["receipt"] : k \in DOMAIN s}
  BY <1>1
<1> QED  BY <1>2, <1>3, <1>4, <1>5 DEF AllRefs

\* SeverityFloor: whatever a session of any length builds is at least as
\* strict as every gate it was built from, but for a rollback fallback.
THEOREM SeverityKept == Spec => []SeverityFloor
<1>1. IInv => SeverityFloor
  <2> SUFFICES ASSUME IInv  PROVE SeverityFloor
    OBVIOUS
  <2>1. rollbackSupported \in BOOLEAN
    BY DEF IInv
  <2>2. Floor(record)
    <3> SUFFICES ASSUME Built(record), NEW k \in DOMAIN record.basis
                 PROVE  \/ ~Lowers(record.decision.action,
                                   record.basis[k].outcome)
                        \/ /\ record.decision.fallback
                           /\ ~rollbackSupported
                           /\ record.decision.action = "block"
                           /\ record.basis[k].outcome = "rollback"
      BY DEF Floor
    <3> QED  BY <2>1, BuiltRecord, ActionFloor, Zenon
  <2>3. Floor(handoff)
    <3> SUFFICES ASSUME Built(handoff), NEW k \in DOMAIN handoff.basis
                 PROVE  \/ ~Lowers(handoff.decision.action,
                                   handoff.basis[k].outcome)
                        \/ /\ handoff.decision.fallback
                           /\ ~rollbackSupported
                           /\ handoff.decision.action = "block"
                           /\ handoff.basis[k].outcome = "rollback"
      BY DEF Floor
    <3>1. /\ handoff.decision.action
               = RuntimeDecision(handoff.basis, rollbackSupported).action
          /\ handoff.decision.fallback
               = RuntimeDecision(handoff.basis, rollbackSupported).fallback
      BY BuiltHandoff, HandoffRuling
    <3> QED  BY <2>1, <3>1, BuiltHandoff, ActionFloor, Zenon
  <2> QED  BY <2>2, <2>3 DEF SeverityFloor
<1> QED  BY <1>1, Inductive, PTL

\* Record and handoff of the same decisions hold the same decision.
LEMMA BuiltAgree == IInv => BuildersAgree
<1> SUFFICES ASSUME IInv, Built(record), handoff.basis = record.basis
             PROVE  Built(handoff) /\ Agree(record, handoff)
  BY DEF BuildersAgree
<1> DEFINE s == record.basis
           d == RuntimeDecision(s, rollbackSupported)
           h == HandoffDecision(s, rollbackSupported)
<1>1. /\ Mappable(s) /\ record.decision = d /\ s \in Seq(GateDecision)
      /\ d.gates # {} /\ d.evidence # {}
  BY BuiltRecord
<1>2. handoff # NotBuilt
  BY <1>1 DEF NotBuilt, Result, Mappable
<1>3. handoff = BuildHandoff(s, rollbackSupported)
  BY <1>2 DEF IInv, HandoffBuilt
<1>4. /\ h.gates = d.gates /\ h.evidence = d.evidence
      /\ h.receipts = {s[1].receipt}
      /\ h = [d EXCEPT !.receipts = {s[1].receipt}]
  BY HandoffRuling
<1>5. handoff = Result("built", s, h, "complete")
  BY <1>1, <1>3, <1>4 DEF BuildHandoff
<1>6. handoff.decision = h /\ Built(handoff)
  BY <1>5 DEF Built, Result
<1>7. d.receipts = AllRefs(s, "receipt")
  BY DEF RuntimeDecision
<1>8. h.receipts \subseteq d.receipts
  BY <1>1, <1>4, <1>7, SourceReceipt
<1> QED  BY <1>1, <1>4, <1>6, <1>8 DEF Agree

\* BuildersAgree: that holds in sessions of any length.
THEOREM Agreement == Spec => []BuildersAgree
BY BuiltAgree, Inductive, PTL

\* The decision mapped from a mappable chain has its type.
LEMMA DecisionTyped ==
  ASSUME NEW s \in Seq(GateDecision), Mappable(s), NEW rs \in BOOLEAN
  PROVE  RuntimeDecision(s, rs) \in Decisions
<1> DEFINE g == ControllingGate(s)
<1>1. g \in GateDecision /\ ValidGate(g) /\ g.outcome \in Outcomes
  BY ControllingDominates DEF ValidGate
<1>2. OutcomeRank[g.outcome] <= OutcomeRank[g.outcome]
  <2> SUFFICES ASSUME NEW n \in 0 .. 60, n = OutcomeRank[g.outcome]
               PROVE  n <= n
    BY <1>1, Ranks
  <2> QED  OBVIOUS
<1>3. RuntimeAction(g, rs) \in Actions
  <2> HIDE DEF g
  <2> QED  BY <1>1, <1>2, ActionOfGate
<1>4. \A k \in DOMAIN s : s[k] \in GateDecision
  OBVIOUS
<1>5. AllRefs(s, "receipt") \in SUBSET Refs /\ AllRefs(s, "gate") \in SUBSET Refs
  BY <1>4 DEF AllRefs, GateDecision
<1>6. AllEvidence(s) \in SUBSET Refs
  <2> SUFFICES ASSUME NEW e \in AllEvidence(s)  PROVE e \in Refs
    OBVIOUS
  <2>1. PICK k \in DOMAIN s : e \in s[k].evidence /\ e # Blank
    BY DEF AllEvidence
  <2>2. s[k].evidence \in SUBSET (Refs \cup {Blank})
    BY <1>4 DEF GateDecision
  <2> QED  BY <2>1, <2>2
<1>7. RollbackMissing(g, rs) \in BOOLEAN
  BY DEF RollbackMissing
<1> QED  BY <1>1, <1>3, <1>5, <1>6, <1>7 DEF RuntimeDecision, Decisions

\* So does the decision of a handoff.
LEMMA HandoffTyped ==
  ASSUME NEW s \in Seq(GateDecision), Mappable(s), NEW rs \in BOOLEAN
  PROVE  HandoffDecision(s, rs) \in Decisions
<1>1. {s[1].receipt} \in SUBSET Refs
  BY SourceReceipt
<1>2. RuntimeDecision(s, rs) \in Decisions
  BY DecisionTyped
<1> QED  BY <1>1, <1>2 DEF HandoffDecision, Decisions

\* TypeOK: every variable has its type in sessions of any length.
THEOREM TypeCorrect == Spec => []TypeOK
<1>1. NoDecision \in Decisions
  BY DEF NoDecision, Decisions, Actions, Outcomes, ActionRank, OutcomeRank
<1>2. \A status, b, d, header :
        /\ Result(status, b, d, header).status = status
        /\ Result(status, b, d, header).basis = b
        /\ Result(status, b, d, header).decision = d
        /\ Result(status, b, d, header).header = header
        /\ Result(status, b, d, header).intent
             \in {"none", "agent_registry_decision"}
  BY DEF Result, DownstreamIntent
<1>3. ASSUME NEW s \in Seq(GateDecision), NEW rs \in BOOLEAN,
             NEW header \in Headers, NEW r,
             \/ r = NotBuilt
             \/ r = BuildRecord(s, rs, header)
             \/ r = BuildHandoff(s, rs)
      PROVE  /\ r.status \in {"none", "rejected", "built"}
             /\ r.decision \in Decisions
             /\ r.header \in Headers \cup {"none"}
             /\ r.intent \in {"none", "agent_registry_decision"}
  <2>1. CASE r = NotBuilt \/ r = Rejected(s)
    BY <1>1, <1>2, <2>1 DEF NotBuilt, Rejected
  <2>2. ASSUME NEW h \in Headers, Mappable(s), NEW d,
               d = RuntimeDecision(s, rs) \/ d = HandoffDecision(s, rs),
               r = Result("built", s, d, h)
        PROVE  /\ r.status \in {"none", "rejected", "built"}
               /\ r.decision \in Decisions
               /\ r.header \in Headers \cup {"none"}
               /\ r.intent \in {"none", "agent_registry_decision"}
    <3>1. RuntimeDecision(s, rs) \in Decisions
      BY <2>2, DecisionTyped
    <3>2. HandoffDecision(s, rs) \in Decisions
      BY <2>2, <3>1, HandoffTyped
    <3> QED  BY <1>2, <2>2, <3>1, <3>2
  <2>3. "complete" \in Headers
    BY DEF Headers
  <2>4. \/ r = NotBuilt \/ r = Rejected(s)
        \/ /\ Mappable(s)
           /\ \E h \in Headers :
                \/ r = Result("built", s, RuntimeDecision(s, rs), h)
                \/ r = Result("built", s, HandoffDecision(s, rs), h)
    BY <1>3, <2>3 DEF BuildRecord, BuildHandoff
  <2> QED  BY <2>1, <2>2, <2>4
<1>4. IInv => TypeOK
  <2> SUFFICES ASSUME IInv  PROVE TypeOK
    OBVIOUS
  <2>1. record.basis \in Seq(GateDecision) /\ handoff.basis \in Seq(GateDecision)
    BY Reported DEF IInv, Kept
  <2>2. \E header \in Headers :
          record = NotBuilt
          \/ record = BuildRecord(record.basis, rollbackSupported, header)
    BY DEF IInv, RecordBuilt, Headers
  <2>3. IsResult(record)
    BY <1>3, <2>1, <2>2 DEF IInv, Kept, IsResult
  <2>4. \E header \in Headers : TRUE
    BY DEF Headers
  <2>5. IsResult(handoff)
    BY <1>3, <2>1, <2>4 DEF IInv, Kept, IsResult, HandoffBuilt
  <2> QED  BY <2>3, <2>5 DEF IInv, TypeOK
<1> QED  BY <1>4, Inductive, PTL

\* LoweringNeverPasses: after a gate asked for less than its outcome nothing
\* more is built.
THEOREM LoweringSpoils == Spec => LoweringNeverPasses
<1>1. ASSUME [Next]_vars, NEW k \in DOMAIN chain,
             chain[k].override # "none",
             Lowers(chain[k].override, chain[k].outcome),
             record' # record
      PROVE  ~Built(record')
  <2>1. ~Mappable(chain)
    BY <1>1 DEF Mappable, ValidGate
  <2>2. PICK header \in Headers : Decide(header)
    BY <1>1 DEF Next, Report, HandOff, vars
  <2>3. record' = Rejected(chain)
    BY <2>1, <2>2 DEF Decide, BuildRecord
  <2> QED  BY <2>3 DEF Built, Rejected, Result
<1>2. [Next]_vars =>
        [( /\ \E k \in DOMAIN chain :
                /\ chain[k].outcome \in Outcomes
                /\ chain[k].override # "none"
                /\ Lowers(chain[k].override, chain[k].outcome)
           /\ record' # record )
         => ~Built(record')]_vars
  BY <1>1
<1> QED  BY <1>2, PTL DEF Spec, LoweringNeverPasses

\* OutcomeMonotone: a record built again is never milder, and keeps every
\* reference of the earlier one.
THEOREM Monotone == Spec => OutcomeMonotone
<1>1. ASSUME IInv, IInv', [Next]_vars, Built(record), Built(record')
      PROVE  /\ OutcomeRank[record'.decision.outcome]
                  >= OutcomeRank[record.decision.outcome]
             /\ record.decision.evidence \subseteq record'.decision.evidence
             /\ record.decision.gates \subseteq record'.decision.gates
  <2>1. CASE record' = record
    <3>1. record.decision.outcome \in Outcomes
      BY <1>1, BuiltRecord, ControllingDominates DEF RuntimeDecision, ValidGate
    <3>2. OutcomeRank[record.decision.outcome] \in 0 .. 60
      BY <3>1, Ranks
    <3> QED  BY <2>1, <3>2
  <2>2. CASE record' # record
    <3> DEFINE s == record.basis
               t == chain
    <3>1. PICK header \in Headers : Decide(header)
      BY <1>1, <2>2 DEF Next, Report, HandOff, vars
    <3>2. /\ Mappable(t) /\ t \in Seq(GateDecision)
          /\ record'.decision = RuntimeDecision(t, rollbackSupported)
      <4>1. record' = BuildRecord(t, rollbackSupported, header)
        BY <3>1 DEF Decide
      <4>2. record' # Rejected(t)
        BY <1>1 DEF Built, Rejected, Result
      <4>3. t \in Seq(GateDecision)
        BY <1>1, Reported DEF IInv
      <4> QED  BY <4>1, <4>2, <4>3 DEF BuildRecord, Result
    <3>3. /\ Mappable(s) /\ s \in Seq(GateDecision)
          /\ record.decision = RuntimeDecision(s, rollbackSupported)
      BY <1>1, BuiltRecord
    <3>4. \A k \in DOMAIN s : k \in DOMAIN t /\ s[k] = t[k]
      BY <1>1, <3>2, <3>3 DEF IInv, Kept, StillFirst
    <3> HIDE DEF s, t
    <3>5. AllEvidence(s) \subseteq AllEvidence(t)
      BY <3>4 DEF AllEvidence
    <3>6. AllRefs(s, "gate") \subseteq AllRefs(t, "gate")
      BY <3>4 DEF AllRefs
    <3>7. PICK k \in DOMAIN s : ControllingGate(s) = s[k]
      BY <3>3, ControllingDominates
    <3>8. OutcomeRank[ControllingGate(s).outcome]
            <= OutcomeRank[ControllingGate(t).outcome]
      BY <3>2, <3>4, <3>7, ControllingDominates
    <3>9. /\ ControllingGate(s).outcome \in Outcomes
          /\ ControllingGate(t).outcome \in Outcomes
      BY <3>2, <3>3, ControllingDominates DEF ValidGate
    <3>10. OutcomeRank[ControllingGate(t).outcome]
             >= OutcomeRank[ControllingGate(s).outcome]
      BY <3>8, <3>9, Ranks
    <3> QED  BY <3>2, <3>3, <3>5, <3>6, <3>10 DEF RuntimeDecision
  <2> QED  BY <2>1, <2>2
<1>2. IInv /\ IInv' /\ [Next]_vars =>
        [(Built(record) /\ Built(record')) =>
           /\ OutcomeRank[record'.decision.outcome]
                >= OutcomeRank[record.decision.outcome]
           /\ record.decision.evidence \subseteq record'.decision.evidence
           /\ record.decision.gates \subseteq record'.decision.gates]_vars
  BY <1>1
<1> QED  BY <1>2, Inductive, PTL DEF Spec, OutcomeMonotone

\* ValidatedIsStrict: what its validator accepts is at least as strict as
\* every gate it was built from, with no exception.
THEOREM ValidatedStrict == Spec => []ValidatedIsStrict
<1>1. ASSUME NEW s \in Seq(GateDecision), Mappable(s), NEW rs \in BOOLEAN,
             NEW j \in DOMAIN s, NEW d, d = RuntimeDecision(s, rs),
             ActionRank[d.action] >= ActionRank[DefaultAction[d.outcome]]
      PROVE  ~Lowers(d.action, s[j].outcome)
  <2>1. d \in Decisions
    BY <1>1, DecisionTyped
  <2>2. d.action \in Actions /\ d.outcome \in Outcomes
    BY <2>1 DEF Decisions
  <2>3. d.outcome = ControllingGate(s).outcome
    BY <1>1 DEF RuntimeDecision
  <2>4. OutcomeRank[s[j].outcome] <= OutcomeRank[d.outcome]
    BY <1>1, <2>3, ControllingDominates
  <2>5. s[j].outcome \in Outcomes
    BY <1>1 DEF Mappable, ValidGate
  <2>6. ASSUME NEW a \in Actions, NEW o \in Outcomes, NEW p \in Outcomes,
               ActionRank[a] >= ActionRank[DefaultAction[o]],
               OutcomeRank[p] <= OutcomeRank[o]
        PROVE  ~Lowers(a, p)
    <3>1. /\ ActionRank[DefaultAction[o]] = OutcomeRank[o]
          /\ OutcomeRank[o] \in 0 .. 60 /\ OutcomeRank[p] \in 0 .. 60
          /\ ActionRank[a] \in 0 .. 60
      BY Ranks
    <3>2. ~(ActionRank[a] < OutcomeRank[o])
      <4>1. \A x, y \in 0 .. 60 : x >= y => ~(x < y)
        OBVIOUS
      <4>2. ActionRank[a] >= OutcomeRank[o]
        BY <2>6, <3>1, Zenon
      <4> QED  BY <3>1, <4>1, <4>2, Zenon
    <3> QED  BY <2>6, <3>1, <3>2, NotLower
  <2> QED  BY <1>1, <2>2, <2>4, <2>5, <2>6, Zenon
<1>2. IInv => ValidatedIsStrict
  <2> SUFFICES ASSUME IInv  PROVE ValidatedIsStrict
    OBVIOUS
  <2>1. rollbackSupported \in BOOLEAN
    BY DEF IInv
  <2>2. ASSUME Built(record), RecordValid(record),
               NEW k \in DOMAIN record.basis
        PROVE  ~Lowers(record.decision.action, record.basis[k].outcome)
    <3>1. ActionRank[record.decision.action]
            >= ActionRank[DefaultAction[record.decision.outcome]]
      BY <2>2 DEF RecordValid
    <3> QED  BY <1>1, <2>1, <2>2, <3>1, BuiltRecord, Zenon
  <2>3. ASSUME Built(handoff), HandoffValid(handoff),
               NEW k \in DOMAIN handoff.basis
        PROVE  ~Lowers(handoff.decision.action, handoff.basis[k].outcome)
    <3>1. handoff.decision \in Decisions
      BY <2>1, <2>3, BuiltHandoff, HandoffTyped
    <3>2. handoff.decision.action \in Actions
      BY <3>1 DEF Decisions
    <3>3. ASSUME NEW a \in Actions  PROVE ActionRank[a] >= ActionRank[a]
      <4> SUFFICES ASSUME NEW n \in 0 .. 60, n = ActionRank[a]
                   PROVE  n >= n
        BY Ranks
      <4> QED  OBVIOUS
    <3>4. ActionRank[handoff.decision.action]
            >= ActionRank[DefaultAction[handoff.decision.outcome]]
      <4>1. handoff.decision.action = DefaultAction[handoff.decision.outcome]
        BY <2>3 DEF HandoffValid
      <4> QED  BY <3>2, <3>3, <4>1, Zenon
    <3>5. LET d == RuntimeDecision(handoff.basis, rollbackSupported)
          IN  /\ handoff.decision.action = d.action
              /\ handoff.decision.outcome = d.outcome
      BY <2>3, BuiltHandoff, HandoffRuling
    <3> QED  BY <1>1, <2>1, <2>3, <3>4, <3>5, BuiltHandoff, Zenon
  <2> QED  BY <2>2, <2>3 DEF ValidatedIsStrict
<1> QED  BY <1>2, Inductive, PTL

\* A lowered action is that of a fallback: the action of a chain is at least
\* as strict as its outcome otherwise.
LEMMA ActionOfOutcome ==
  ASSUME NEW s \in Seq(GateDecision), Mappable(s), NEW rs \in BOOLEAN,
         NEW d, d = RuntimeDecision(s, rs)
  PROVE  \/ ActionRank[d.action] >= ActionRank[DefaultAction[d.outcome]]
         \/ d.fallback /\ ~rs
<1>1. PICK k \in DOMAIN s : ControllingGate(s) = s[k]
  BY ControllingDominates
<1>2. d.outcome = s[k].outcome
  BY <1>1 DEF RuntimeDecision
<1>3. ~Lowers(d.action, d.outcome) \/ (d.fallback /\ ~rs)
  BY <1>2, ActionFloor
<1>4. d.action \in Actions /\ d.outcome \in Outcomes
  BY DecisionTyped DEF Decisions
<1>5. /\ ActionRank[DefaultAction[d.outcome]] = OutcomeRank[d.outcome]
      /\ OutcomeRank[d.outcome] \in 0 .. 60 /\ ActionRank[d.action] \in 0 .. 60
  BY <1>4, Ranks
<1>6. \A x, y \in 0 .. 60 : ~(x < y) => x >= y
  OBVIOUS
<1>7. ~(ActionRank[d.action] < OutcomeRank[d.outcome]) =>
         ActionRank[d.action] >= OutcomeRank[d.outcome]
  BY <1>5, <1>6, Zenon
<1> QED  BY <1>3, <1>5, <1>7, Zenon DEF Lowers

\* A complete record is refused for its fallback or for a reference without
\* its prefix; where the handoff of the same decisions passes, the reference
\* is a receipt.
LEMMA RefusalReasons ==
  ASSUME IInv, Built(record), record.header = "complete",
         ~RecordValid(record)
  PROVE  LET d == record.decision
         IN  /\ \/ d.fallback /\ ~rollbackSupported
                \/ ~WellFormed(d, Fields)
             /\ (handoff.basis = record.basis /\ HandoffValid(handoff)) =>
                  ~(d["receipts"] \subseteq Prefixed["receipts"])
<1> DEFINE s == record.basis
           d == record.decision
<1>1. /\ s \in Seq(GateDecision) /\ Mappable(s)
      /\ d = RuntimeDecision(s, rollbackSupported)
      /\ d.gates # {} /\ d.evidence # {}
  BY BuiltRecord
<1>2. d.receipts # {}
  <2>1. d.receipts = AllRefs(s, "receipt")
    BY <1>1 DEF RuntimeDecision
  <2> QED  BY <1>1, <2>1, SourceReceipt
<1>3. record.intent = DownstreamIntent(d.action)
  <2>1. record # NotBuilt /\ record # Rejected(s)
    BY DEF Built, NotBuilt, Rejected, Result
  <2>2. PICK header \in Headers :
          record = BuildRecord(s, rollbackSupported, header)
    BY <2>1 DEF IInv, RecordBuilt
  <2>3. record = Result("built", s, RuntimeDecision(s, rollbackSupported), header)
    BY <2>1, <2>2 DEF BuildRecord
  <2> QED  BY <1>1, <2>3 DEF Result
<1>4. d.action \in {"allow", "warn"} <=> record.intent = "none"
  BY <1>3 DEF DownstreamIntent
<1>5. \A field \in Fields : d[field] # {}
  BY <1>1, <1>2 DEF Fields
<1>6. \/ ~(ActionRank[d.action] >= ActionRank[DefaultAction[d.outcome]])
      \/ ~WellFormed(d, Fields)
  <2> HIDE DEF d
  <2> QED  BY <1>4, <1>5, Zenon DEF RecordValid, d
<1>7. rollbackSupported \in BOOLEAN
  BY DEF IInv
<1>8. (d.fallback /\ ~rollbackSupported) \/ ~WellFormed(d, Fields)
  <2> HIDE DEF s, d
  <2> QED  BY <1>1, <1>6, <1>7, ActionOfOutcome
<1>9. ASSUME handoff.basis = s, HandoffValid(handoff),
             d["receipts"] \subseteq Prefixed["receipts"]
      PROVE  FALSE
  <2>1. Built(handoff) /\ Agree(record, handoff)
    BY <1>9, BuiltAgree DEF BuildersAgree
  <2>2. d \in Decisions
    BY <1>1, <1>7, DecisionTyped
  <2>3. /\ handoff.decision.action = d.action
        /\ handoff.decision.outcome = d.outcome
        /\ handoff.decision.gates = d.gates
        /\ handoff.decision.evidence = d.evidence
    BY <2>1, <2>2 DEF Agree, Decisions
  <2>4. /\ d.action = DefaultAction[d.outcome]
        /\ d.gates \subseteq Prefixed["gates"]
        /\ d.evidence \subseteq Prefixed["evidence"]
    BY <1>9, <2>3 DEF HandoffValid, WellFormed
  <2>5. WellFormed(d, Fields)
    <3> HIDE DEF d
    <3> QED  BY <1>9, <2>4 DEF WellFormed, Fields
  <2>6. d.outcome \in Outcomes
    BY <2>2 DEF Decisions
  <2>7. /\ ActionRank[DefaultAction[d.outcome]] = OutcomeRank[d.outcome]
        /\ OutcomeRank[d.outcome] \in 0 .. 60
    BY <2>6, Ranks
  <2>8. \A x \in 0 .. 60 : x >= x
    OBVIOUS
  <2>9. ActionRank[d.action] >= ActionRank[DefaultAction[d.outcome]]
    BY <2>4, <2>7, <2>8, Zenon
  <2> QED  BY <1>6, <2>5, <2>9, Zenon
<1> QED  BY <1>8, <1>9

\* A reference without its prefix comes from some report of the chain.
LEMMA FaultyReport ==
  ASSUME NEW s \in Seq(GateDecision), NEW rs,
         NEW field \in Fields,
         ~(RuntimeDecision(s, rs)[field] \subseteq Prefixed[field])
  PROVE  \E k \in DOMAIN s : field \in Unprefixed(s[k])
<1>1. PICK ref \in RuntimeDecision(s, rs)[field] : ref \notin Prefixed[field]
  OBVIOUS
<1>2. CASE field = "receipts"
  <2>1. ref \in AllRefs(s, "receipt")
    BY <1>1, <1>2 DEF RuntimeDecision
  <2>2. PICK k \in DOMAIN s : ref = s[k]["receipt"]
    BY <2>1 DEF AllRefs
  <2>3. ref = s[k].receipt
    BY <2>2
  <2> QED  BY <1>1, <1>2, <2>3 DEF Unprefixed
<1>3. CASE field = "gates"
  <2>1. ref \in AllRefs(s, "gate")
    BY <1>1, <1>3 DEF RuntimeDecision
  <2>2. PICK k \in DOMAIN s : ref = s[k]["gate"]
    BY <2>1 DEF AllRefs
  <2>3. ref = s[k].gate
    BY <2>2
  <2> QED  BY <1>1, <1>3, <2>3 DEF Unprefixed
<1>4. CASE field = "evidence"
  <2>1. ref \in AllEvidence(s)
    BY <1>1, <1>4 DEF RuntimeDecision
  <2>2. PICK k \in DOMAIN s : ref \in s[k].evidence \ {Blank}
    BY <2>1 DEF AllEvidence
  <2> QED  BY <1>1, <1>4, <2>2 DEF Unprefixed
<1> QED  BY <1>2, <1>3, <1>4 DEF Fields

\* The outcome with a rank is the only one.
LEMMA RanksDiffer ==
  \A o, p \in Outcomes : OutcomeRank[o] <= OutcomeRank[p]
                           /\ OutcomeRank[p] <= OutcomeRank[o] => o = p
BY DEF Outcomes, OutcomeRank

\* The decision mapped from a chain in another order.
LEMMA AnyReportOrder ==
  ASSUME NEW s \in Seq(GateDecision), Mappable(s), NEW rs \in BOOLEAN
  PROVE  OnlyTiesShow(s, rs)
<1> SUFFICES ASSUME NEW f \in Shuffles(DOMAIN s)
             PROVE  LET d == RuntimeDecision(s, rs)
                        e == RuntimeDecision(Shuffled(s, f), rs)
                    IN  /\ e = [d EXCEPT !.action = e.action]
                        /\ {d.action, e.action}
                             \subseteq TiedActions(s, d.outcome, rs)
  BY DEF OnlyTiesShow
<1> DEFINE t == Shuffled(s, f)
           g == ControllingGate(s)
           h == ControllingGate(t)
<1>1. /\ \A k \in DOMAIN s : f[k] \in DOMAIN s
      /\ \A k \in DOMAIN s : \E j \in DOMAIN s : f[j] = k
  BY DEF Shuffles
<1>2. Len(s) \in Nat /\ DOMAIN s = 1 .. Len(s)
  OBVIOUS
<1>3. /\ t \in Seq(GateDecision) /\ DOMAIN t = DOMAIN s
      /\ \A k \in DOMAIN s : t[k] = s[f[k]]
  <2>1. t \in [1 .. Len(s) -> GateDecision]
    BY <1>1, <1>2 DEF Shuffled
  <2> QED  BY <1>2, <2>1, SeqDef DEF Shuffled
<1> HIDE DEF t
<1>4. Mappable(t)
  <2>1. \A k \in DOMAIN t : ValidGate(t[k])
    BY <1>1, <1>3 DEF Mappable
  <2>2. s # <<>> /\ t # <<>>
    BY <1>2, <1>3 DEF Mappable
  <2> QED  BY <2>1, <2>2 DEF Mappable
<1>5. /\ \A k \in DOMAIN t : \E j \in DOMAIN s : t[k] = s[j]
      /\ \A j \in DOMAIN s : \E k \in DOMAIN t : t[k] = s[j]
  <2>1. ASSUME NEW j \in DOMAIN s  PROVE \E k \in DOMAIN t : t[k] = s[j]
    <3>1. PICK k \in DOMAIN s : f[k] = j
      BY <1>1
    <3> QED  BY <1>3, <3>1
  <2>2. ASSUME NEW k \in DOMAIN t  PROVE \E j \in DOMAIN s : t[k] = s[j]
    <3>1. k \in DOMAIN s /\ f[k] \in DOMAIN s
      BY <1>1, <1>3
    <3> QED  BY <1>3, <3>1
  <2> QED  BY <2>1, <2>2
<1>6. /\ AllEvidence(t) = AllEvidence(s)
      /\ \A field : AllRefs(t, field) = AllRefs(s, field)
  <2> HIDE DEF g, h
  <2>1. ASSUME NEW x  PROVE x \in AllEvidence(t) <=> x \in AllEvidence(s)
    <3>1. /\ x \in AllEvidence(t) <=>
              x # Blank /\ \E k \in DOMAIN t : x \in t[k].evidence
          /\ x \in AllEvidence(s) <=>
              x # Blank /\ \E k \in DOMAIN s : x \in s[k].evidence
      BY DEF AllEvidence
    <3> QED  BY <1>5, <3>1
  <2>2. ASSUME NEW field, NEW x
        PROVE  x \in AllRefs(t, field) <=> x \in AllRefs(s, field)
    <3>1. /\ x \in AllRefs(t, field) <=>
              x # Blank /\ \E k \in DOMAIN t : x = t[k][field]
          /\ x \in AllRefs(s, field) <=>
              x # Blank /\ \E k \in DOMAIN s : x = s[k][field]
      BY DEF AllRefs
    <3> QED  BY <1>5, <3>1
  <2>3. \A x, y : (\A z : z \in x <=> z \in y) => x = y
    OBVIOUS
  <2>4. AllEvidence(t) = AllEvidence(s)
    BY <2>1, <2>3, Zenon
  <2>5. \A field : AllRefs(t, field) = AllRefs(s, field)
    BY <2>2, <2>3, Zenon
  <2> QED  BY <2>4, <2>5
<1>7. PICK i \in DOMAIN s : g = s[i]
  BY ControllingDominates
<1>8. PICK j \in DOMAIN s : h = s[j]
  <2>1. PICK k \in DOMAIN t : h = t[k]
    BY <1>3, <1>4, ControllingDominates
  <2> QED  BY <1>1, <1>3, <2>1
<1>9. h.outcome = g.outcome
  <2>1. OutcomeRank[h.outcome] <= OutcomeRank[g.outcome]
    BY <1>8, ControllingDominates
  <2>2. OutcomeRank[g.outcome] <= OutcomeRank[h.outcome]
    <3>1. PICK k \in DOMAIN s : f[k] = i
      BY <1>1
    <3> QED  BY <1>3, <1>4, <1>7, <3>1, ControllingDominates
  <2>3. h.outcome \in Outcomes /\ g.outcome \in Outcomes
    BY <1>3, <1>4, ControllingDominates DEF ValidGate
  <2> QED  BY <2>1, <2>2, <2>3, RanksDiffer
<1>10. RollbackMissing(g, rs) = RollbackMissing(h, rs)
  BY <1>9 DEF RollbackMissing
<1>11. /\ RuntimeAction(g, rs) \in TiedActions(s, g.outcome, rs)
       /\ RuntimeAction(h, rs) \in TiedActions(s, g.outcome, rs)
  BY <1>7, <1>8, <1>9 DEF TiedActions
<1> HIDE DEF g, h
<1> QED  BY <1>6, <1>9, <1>10, <1>11 DEF RuntimeDecision, t, g, h

\* ReportOrderIrrelevant: in whatever order the gates of a session of any
\* length report, a record differs by its action at most, and then by that
\* of another gate with the controlling outcome (max() takes the first).
THEOREM AnyReportOrderSame == Spec => []ReportOrderIrrelevant
<1>1. IInv => ReportOrderIrrelevant
  BY BuiltRecord, AnyReportOrder DEF IInv, ReportOrderIrrelevant
<1> QED  BY <1>1, Inductive, PTL

-----------------------------------------------------------------------------
(* What is found.                                                          *)

\* The kinds, one by one; all are references and none is blank.
LEMMA KindsListed ==
  /\ Kinds = {"command_blocked", "network_blocked", "secret_value",
              "path_outside_repo", "protected_path", "path_denied",
              "path_not_allowed", "dependency", "migration", "config"}
  /\ DOMAIN KindOrder = 1 .. 10
  /\ "pass" \in Refs /\ Kinds \subseteq Refs
<1>1. DOMAIN KindOrder = 1 .. 10
  BY DEF KindOrder
<1>2. \A n \in 1 .. 10 :
        n \in {1, 2, 3, 4, 5, 6, 7, 8, 9, 10}
  OBVIOUS
<1>3. /\ KindOrder[1] = "command_blocked" /\ KindOrder[2] = "network_blocked"
      /\ KindOrder[3] = "secret_value" /\ KindOrder[4] = "path_outside_repo"
      /\ KindOrder[5] = "protected_path" /\ KindOrder[6] = "path_denied"
      /\ KindOrder[7] = "path_not_allowed" /\ KindOrder[8] = "dependency"
      /\ KindOrder[9] = "migration" /\ KindOrder[10] = "config"
  BY DEF KindOrder
<1>4. Kinds = {KindOrder[n] : n \in 1 .. 10}
  BY <1>1 DEF Kinds
<1>5. Kinds \cup {"pass"} \subseteq Prefixed["gates"]
  BY KindsAssumption
<1>6. Prefixed["gates"] \subseteq Refs
  BY PrefixedAssumption DEF Fields
<1>7. "pass" \in Refs /\ Kinds \subseteq Refs
  BY <1>5, <1>6
<1> QED  BY <1>1, <1>2, <1>3, <1>4, <1>7

\* An item of an attempt is a command, a file or a text, of its type.
LEMMA Items ==
  ASSUME NEW a \in Attempt, NEW k \in DOMAIN a.items
  PROVE  \/ a.items[k] \in Command /\ a.items[k].type = "command"
         \/ a.items[k] \in FileItem /\ a.items[k].type = "file"
         \/ a.items[k] \in Text /\ a.items[k].type = "text"
<1>1. a.items \in Seq(Command \cup FileItem \cup Text)
  BY DEF Attempt
<1>2. a.items[k] \in Command \cup FileItem \cup Text
  BY <1>1
<1> QED  BY <1>2 DEF Command, FileItem, Text

\* Every finding is of one of the kinds.
LEMMA FoundKinds ==
  ASSUME NEW a \in Attempt
  PROVE  /\ \A k \in DOMAIN a.items : ItemKinds(a, k) \subseteq Kinds
         /\ Findings(a) \subseteq Kinds
<1>1. ASSUME NEW k \in DOMAIN a.items  PROVE ItemKinds(a, k) \subseteq Kinds
  <2>1. CASE a.items[k].type = "command"
    BY <2>1, KindsListed DEF ItemKinds, CommandKinds
  <2>2. CASE a.items[k] \in FileItem /\ a.items[k].type = "file"
    <3>1. a.items[k].changes \subseteq Changes
      BY <2>2 DEF FileItem
    <3>2. ApprovalKinds(a, a.items[k]) \subseteq Kinds
      BY <3>1, KindsListed DEF ApprovalKinds, Changes
    <3>3. PathKinds(a, a.items[k]) \subseteq Kinds
      BY KindsListed DEF PathKinds
    <3> QED  BY <2>2, <3>2, <3>3 DEF ItemKinds, FileKinds
  <2>3. CASE a.items[k].type = "text"
    BY <2>3, KindsListed DEF ItemKinds
  <2> QED  BY <2>1, <2>2, <2>3, Items
<1> QED  BY <1>1 DEF Findings

\* Every nonempty set of kinds has a first one.
LEMMA FirstFound ==
  ASSUME NEW kinds \in SUBSET Kinds, kinds # {}
  PROVE  FirstKind(kinds) \in kinds
<1> DEFINE S == {n \in DOMAIN KindOrder : KindOrder[n] \in kinds}
<1>1. S \in SUBSET Nat /\ S # {}
  BY KindsListed DEF Kinds
<1>2. \E n \in S : \A m \in S : n <= m
  <2> HIDE DEF S
  <2> QED  BY <1>1, LeastNat
<1>3. Min(S) \in S
  <2> HIDE DEF S
  <2> QED  BY <1>2 DEF Min
<1> QED  BY <1>3 DEF FirstKind

\* The gate a preflight names is one of its kinds, or the one that passes.
LEMMA NamedGate ==
  ASSUME NEW a \in Attempt
  PROVE  PreflightGate(a).gate \in Kinds \cup {"pass"}
<1> DEFINE g == PreflightGate(a)
<1>1. g.gate = IF Findings(a) = {} THEN "pass"
               ELSE FirstKind(ItemKinds(a, Min(Noticed(a))))
  BY DEF PreflightGate
<1>2. CASE Findings(a) = {}
  BY <1>1, <1>2
<1>3. CASE Findings(a) # {}
  <2>1. Noticed(a) # {} /\ Noticed(a) \in SUBSET Nat
    <3>1. a.items \in Seq(Command \cup FileItem \cup Text)
      BY DEF Attempt
    <3> QED  BY <1>3, <3>1 DEF Findings, Noticed
  <2>2. \E k \in Noticed(a) : \A j \in Noticed(a) : k <= j
    BY <2>1, LeastNat
  <2>3. Min(Noticed(a)) \in Noticed(a)
    BY <2>2 DEF Min
  <2>4. /\ ItemKinds(a, Min(Noticed(a))) # {}
        /\ ItemKinds(a, Min(Noticed(a))) \in SUBSET Kinds
    BY <2>3, FoundKinds DEF Noticed
  <2>5. FirstKind(ItemKinds(a, Min(Noticed(a)))) \in Kinds
    BY <2>4, FirstFound
  <2> QED  BY <1>1, <1>3, <2>5
<1> QED  BY <1>2, <1>3

\* The decision of a preflight with a receipt is a valid gate decision.
LEMMA PreflightValid ==
  ASSUME NEW a \in Attempt, a.receipt # Blank
  PROVE  ValidGate(PreflightGate(a))
<1> DEFINE g == PreflightGate(a)
<1>1. /\ g.outcome = Controlling(a) /\ g.receipt = a.receipt
      /\ g.override = "none"
  BY DEF PreflightGate
<1>2. g.outcome \in {"block", "review", "pass"}
  BY <1>1 DEF Controlling
<1>3. g.gate \in Refs
  BY NamedGate, KindsListed
<1>4. g.gate # Blank
  BY <1>3, BlankAssumption
<1>5. g.outcome \in Outcomes /\ g.outcome # "quarantine"
  BY <1>2 DEF Outcomes, OutcomeRank
<1> HIDE DEF g
<1> QED  BY <1>1, <1>4, <1>5 DEF ValidGate, g

\* What a preflight found is in the evidence of its decision, is no pass,
\* and is a block when one of the findings blocks.
LEMMA PreflightTells ==
  ASSUME NEW a \in Attempt
  PROVE  /\ Findings(a) \subseteq PreflightGate(a).evidence \ {Blank}
         /\ Findings(a) # {} =>
              PreflightGate(a).outcome \in {"review", "block"}
         /\ Blocking(Findings(a)) => PreflightGate(a).outcome = "block"
<1>1. Blank \notin Findings(a)
  BY FoundKinds, KindsListed, BlankAssumption
<1> QED  BY <1>1 DEF PreflightGate, Controlling

-----------------------------------------------------------------------------
(* The session.                                                            *)

\* Every gate and every preflight reports a decision the session may get.
LEMMA GateReported ==
  /\ \A g \in AdapterGates : g \in GateDecisions
  /\ \A p \in Proposals : PreflightGate(AttemptOf[p]) \in GateDecisions
BY GatesAssumption

\* A step of the session is a step of TrustOpsSession.
LEMMA StepOfSession == [SessionNext]_allVars => [Next]_vars
<1> SUFFICES ASSUME [SessionNext]_allVars  PROVE [Next]_vars
  OBVIOUS
<1>1. ASSUME NEW g \in AdapterGates, AdapterReport(g)  PROVE Next
  BY <1>1, GateReported DEF AdapterReport, Next
<1>2. ASSUME NEW p \in Proposals, Preflight(p)  PROVE Next
  BY <1>2, GateReported DEF Preflight, Next
<1>3. CASE Build
  BY <1>3 DEF Build, Next
<1>4. CASE UNCHANGED allVars
  BY <1>4 DEF allVars, vars
<1> QED  BY <1>1, <1>2, <1>3, <1>4 DEF SessionNext

\* A session with preflights is a TrustOps session: everything proved of
\* those holds here.
THEOREM PreflightsImplementGates == SessionSpec => Spec
<1>1. SessionInit => Init
  BY DEF SessionInit
<1> QED  BY <1>1, StepOfSession, PTL DEF SessionSpec, Spec

\* The sources run along the chain.
SInv ==
  /\ chain \in Seq(GateDecisions)
  /\ source \in Seq(Proposals \cup {NoProposal})
  /\ Len(source) = Len(chain)
  /\ \A k \in Preflighted : chain[k] = PreflightGate(AttemptOf[source[k]])

LEMMA SourcesFollow == SessionSpec => []SInv
<1>1. SessionInit => SInv
  BY DEF SessionInit, Init, SInv, Preflighted
<1>2. SInv /\ [SessionNext]_allVars => SInv'
  <2> SUFFICES ASSUME SInv, [SessionNext]_allVars  PROVE SInv'
    OBVIOUS
  <2>1. ASSUME NEW g \in GateDecisions, NEW p \in Proposals \cup {NoProposal},
               Report(g), source' = Append(source, p),
               p # NoProposal => g = PreflightGate(AttemptOf[p])
        PROVE  SInv'
    <3>1. /\ chain' = Append(chain, g)
          /\ chain' \in Seq(GateDecisions)
          /\ source' \in Seq(Proposals \cup {NoProposal})
          /\ Len(source') = Len(chain')
      BY <2>1 DEF Report, SInv
    <3>2. ASSUME NEW k \in Preflighted'
          PROVE  chain'[k] = PreflightGate(AttemptOf[source'[k]])
      <4>1. k \in 1 .. Len(source) + 1 /\ source'[k] # NoProposal
        BY <2>1, <3>2 DEF Preflighted, SInv
      <4>2. CASE k = Len(source) + 1
        <5>1. source'[k] = p /\ chain'[k] = g
          BY <2>1, <3>1, <4>2 DEF SInv
        <5> QED  BY <2>1, <4>1, <5>1
      <4>3. CASE k \in 1 .. Len(source)
        <5>1. source'[k] = source[k] /\ chain'[k] = chain[k]
          BY <2>1, <3>1, <4>3 DEF SInv
        <5>2. k \in Preflighted
          BY <4>1, <4>3, <5>1 DEF Preflighted, SInv
        <5> QED  BY <5>1, <5>2 DEF SInv
      <4> QED  BY <4>1, <4>2, <4>3 DEF SInv
    <3> QED  BY <3>1, <3>2 DEF SInv
  <2>2. ASSUME NEW g \in AdapterGates, AdapterReport(g)  PROVE SInv'
    BY <2>1, <2>2, GateReported DEF AdapterReport
  <2>3. ASSUME NEW p \in Proposals, Preflight(p)  PROVE SInv'
    <3>1. p # NoProposal
      BY NoProposalAssumption
    <3> QED  BY <2>1, <2>3, <3>1, GateReported DEF Preflight
  <2>4. CASE Build \/ UNCHANGED allVars
    <3>1. UNCHANGED <<chain, source>>
      BY <2>4 DEF Build, Decide, HandOff, allVars
    <3> QED  BY <3>1 DEF SInv, Preflighted
  <2> QED  BY <2>2, <2>3, <2>4 DEF SessionNext
<1> QED  BY <1>1, <1>2, PTL DEF SessionSpec

\* The proposal of a preflight is one of the proposals.
LEMMA SourceProposed ==
  ASSUME SInv, NEW k \in Preflighted
  PROVE  source[k] \in Proposals /\ AttemptOf[source[k]] \in Attempt
<1>1. source[k] \in Proposals \cup {NoProposal} /\ source[k] # NoProposal
  BY DEF SInv, Preflighted
<1> QED  BY <1>1, AttemptsAssumption

\* SourceOK: every preflight with a receipt reported a valid decision.
THEOREM SourceKept == SessionSpec => []SourceOK
<1>1. SInv => SourceOK
  <2> SUFFICES ASSUME SInv  PROVE SourceOK
    OBVIOUS
  <2>1. ASSUME NEW k \in Preflighted, AttemptOf[source[k]].receipt # Blank
        PROVE  ValidGate(chain[k])
    <3>1. chain[k] = PreflightGate(AttemptOf[source[k]])
      BY DEF SInv
    <3> QED  BY <2>1, <3>1, SourceProposed, PreflightValid
  <2> QED  BY <2>1 DEF SInv, SourceOK
<1> QED  BY <1>1, SourcesFollow, PTL

\* A decision mapped from a chain with a preflight keeps what it found.
LEMMA FoundMapped ==
  ASSUME NEW s \in Seq(GateDecision), Mappable(s), NEW rs \in BOOLEAN,
         NEW k \in DOMAIN s, NEW a \in Attempt, s[k] = PreflightGate(a)
  PROVE  LET d == RuntimeDecision(s, rs)
         IN  /\ Findings(a) \subseteq d.evidence
             /\ Findings(a) # {} => d.action # "allow"
             /\ Blocking(Findings(a)) =>
                  d.action \in {"block", "rollback", "revoke"}
<1> DEFINE d == RuntimeDecision(s, rs)
<1>1. /\ Findings(a) \subseteq s[k].evidence \ {Blank}
      /\ Findings(a) # {} => s[k].outcome \in {"review", "block"}
      /\ Blocking(Findings(a)) => s[k].outcome = "block"
  BY PreflightTells
<1>2. s[k].evidence \ {Blank} \subseteq AllEvidence(s)
  BY DEF AllEvidence
<1>3. d.evidence = AllEvidence(s)
  BY DEF RuntimeDecision
<1>4. d.action \in Actions
  BY DecisionTyped DEF Decisions
<1>5. s[k].outcome # "rollback" => ~Lowers(d.action, s[k].outcome)
  BY ActionFloor
<1> HIDE DEF d
<1>6. Findings(a) # {} => d.action # "allow"
  BY <1>1, <1>5 DEF Lowers, ActionRank, OutcomeRank
<1>7. Blocking(Findings(a)) => d.action \in {"block", "rollback", "revoke"}
  BY <1>1, <1>4, <1>5 DEF Lowers, ActionRank, OutcomeRank, Actions
<1> QED  BY <1>1, <1>2, <1>3, <1>6, <1>7 DEF d

\* FindingsReachRuntime: nothing found is lost, whatever else is reported
\* and in which order.
THEOREM FindingsKept == SessionSpec => []FindingsReachRuntime
<1>1. IInv /\ SInv => FindingsReachRuntime
  <2> SUFFICES ASSUME IInv, SInv  PROVE FindingsReachRuntime
    OBVIOUS
  <2>1. rollbackSupported \in BOOLEAN
    BY DEF IInv
  <2>2. ASSUME NEW r, StillFirst(r.basis), r.basis \in Seq(GateDecision),
               Mappable(r.basis),
               r.decision = RuntimeDecision(r.basis, rollbackSupported)
               \/ r.decision = HandoffDecision(r.basis, rollbackSupported)
        PROVE  KeepsFindings(r)
    <3> SUFFICES ASSUME NEW k \in Preflighted \cap DOMAIN r.basis
                 PROVE  LET found == Findings(AttemptOf[source[k]])
                        IN  /\ found \subseteq r.decision.evidence
                            /\ found # {} => r.decision.action # "allow"
                            /\ Blocking(found) =>
                                 r.decision.action
                                   \in {"block", "rollback", "revoke"}
      BY DEF KeepsFindings
    <3>1. r.basis[k] = PreflightGate(AttemptOf[source[k]])
      BY <2>2 DEF StillFirst, SInv
    <3>2. AttemptOf[source[k]] \in Attempt
      BY SourceProposed
    <3>3. LET d == RuntimeDecision(r.basis, rollbackSupported)
          IN  r.decision.action = d.action /\ r.decision.evidence = d.evidence
      BY <2>2, HandoffRuling
    <3> QED  BY <2>1, <2>2, <3>1, <3>2, <3>3, FoundMapped
  <2>3. Built(record) => KeepsFindings(record)
    BY <2>2, BuiltRecord DEF IInv, Kept
  <2>4. Built(handoff) => KeepsFindings(handoff)
    BY <2>2, BuiltHandoff DEF IInv, Kept
  <2> QED  BY <2>3, <2>4 DEF FindingsReachRuntime, KeepsFindings
<1> QED  BY <1>1, Inductive, SourcesFollow, PreflightsImplementGates, PTL

\* What a preflight writes itself has its prefix.
LEMMA PreflightPrefixed ==
  ASSUME NEW a \in Attempt
  PROVE  Unprefixed(PreflightGate(a)) \subseteq {"receipts"}
<1> DEFINE g == PreflightGate(a)
<1>1. g.gate \in Kinds \cup {"pass"}
  BY NamedGate
<1>2. g.evidence \subseteq Kinds \cup {"pass"}
  BY FoundKinds DEF PreflightGate
<1>3. /\ {g.gate} \subseteq Prefixed["gates"]
      /\ g.evidence \ {Blank} \subseteq Prefixed["evidence"]
  BY <1>1, <1>2, KindsAssumption
<1> HIDE DEF g
<1>4. Unprefixed(g) \subseteq {"receipts"}
  BY <1>3 DEF Unprefixed, Fields
<1> QED  BY <1>4 DEF g

\* RefusalsHaveCause: a record is refused for a fallback or a reference
\* without its prefix, which a preflight has at most in its receipt; and for
\* a receipt when the handoff of the same decisions passes.
THEOREM RefusalsCaused == SessionSpec => []RefusalsHaveCause
<1>1. ASSUME IInv, SInv, Built(record), record.header = "complete",
             ~RecordValid(record)
      PROVE  LET faults(k) == Unprefixed(record.basis[k])
             IN  /\ \/ record.decision.fallback /\ ~rollbackSupported
                    \/ \E k \in DOMAIN record.basis :
                         /\ faults(k) # {}
                         /\ k \in Preflighted => faults(k) = {"receipts"}
                 /\ (handoff.basis = record.basis /\ HandoffValid(handoff)) =>
                      \E k \in DOMAIN record.basis : "receipts" \in faults(k)
  <2> DEFINE s == record.basis
  <2>1. /\ s \in Seq(GateDecision)
        /\ record.decision = RuntimeDecision(s, rollbackSupported)
    BY <1>1, BuiltRecord
  <2>2. ASSUME NEW k \in DOMAIN s, k \in Preflighted
        PROVE  Unprefixed(s[k]) \subseteq {"receipts"}
    <3>1. s[k] = PreflightGate(AttemptOf[source[k]])
      BY <1>1, <2>2 DEF IInv, Kept, StillFirst, SInv
    <3>2. AttemptOf[source[k]] \in Attempt
      BY <1>1, <2>2, SourceProposed
    <3> QED  BY <3>1, <3>2, PreflightPrefixed
  <2>3. ASSUME ~WellFormed(record.decision, Fields)
        PROVE  \E k \in DOMAIN s :
                 /\ Unprefixed(s[k]) # {}
                 /\ k \in Preflighted => Unprefixed(s[k]) = {"receipts"}
    <3>1. PICK field \in Fields :
            ~(record.decision[field] \subseteq Prefixed[field])
      BY <2>3 DEF WellFormed
    <3>2. PICK k \in DOMAIN s : field \in Unprefixed(s[k])
      BY <2>1, <3>1, FaultyReport
    <3> QED  BY <2>2, <3>2
  <2>4. ASSUME handoff.basis = s, HandoffValid(handoff)
        PROVE  \E k \in DOMAIN s : "receipts" \in Unprefixed(s[k])
    <3>1. ~(record.decision["receipts"] \subseteq Prefixed["receipts"])
      BY <1>1, <2>4, RefusalReasons
    <3>2. "receipts" \in Fields
      BY DEF Fields
    <3> QED  BY <2>1, <3>1, <3>2, FaultyReport
  <2>5. \/ record.decision.fallback /\ ~rollbackSupported
        \/ ~WellFormed(record.decision, Fields)
    BY <1>1, RefusalReasons
  <2> QED  BY <2>3, <2>4, <2>5
<1>2. IInv /\ SInv => RefusalsHaveCause
  BY <1>1 DEF RefusalsHaveCause
<1> QED  BY <1>2, Inductive, SourcesFollow, PreflightsImplementGates, PTL

-----------------------------------------------------------------------------
(* The order of the items and the iterator.                                *)

\* What is found in an item depends on the attempt only in whether the
\* network targets of the item are blocked, and in its lists of paths and
\* approvals.
LEMMA KindsAlike ==
  ASSUME NEW a \in Attempt, NEW b, NEW j \in DOMAIN a.items,
         NEW k, b.items[k] = a.items[j], b.mode = a.mode,
         b.allowed = a.allowed, b.denied = a.denied,
         b.approvals = a.approvals
  PROVE  /\ Consumes(b, b.items[k]) <=> Consumes(a, a.items[j])
         /\ ItemKinds(b, k) \ {"network_blocked"}
              = ItemKinds(a, j) \ {"network_blocked"}
         /\ "network_blocked" \in ItemKinds(a, j) <=> NetworkBlocked(a, j)
         /\ "network_blocked" \in ItemKinds(b, k) <=> NetworkBlocked(b, k)
<1>1. Consumes(b, b.items[k]) <=> Consumes(a, a.items[j])
  BY DEF Consumes
<1>2. CASE a.items[j].type = "command"
  BY <1>1, <1>2 DEF ItemKinds, CommandKinds
<1>3. CASE a.items[j] \in FileItem /\ a.items[j].type = "file"
  <2> DEFINE f == a.items[j]
  <2>1. PathKinds(a, f) = PathKinds(b, f) /\ ApprovalKinds(a, f) = ApprovalKinds(b, f)
    BY DEF PathKinds, ApprovalKinds
  <2>2. ItemKinds(a, j) = FileKinds(a, f) /\ ItemKinds(b, k) = FileKinds(a, f)
    BY <1>3, <2>1 DEF ItemKinds, FileKinds
  <2>3. f.changes \subseteq Changes
    BY <1>3 DEF FileItem
  <2>4. "network_blocked" \notin FileKinds(a, f)
    BY <2>3 DEF FileKinds, PathKinds, ApprovalKinds, Changes
  <2>5. ~NetworkBlocked(a, j) /\ ~NetworkBlocked(b, k)
    BY <1>3 DEF NetworkBlocked, Consumes
  <2> QED  BY <1>1, <2>2, <2>4, <2>5
<1>4. CASE a.items[j].type = "text"
  BY <1>1, <1>4 DEF ItemKinds, NetworkBlocked, Consumes
<1> QED  BY <1>2, <1>3, <1>4, Items

\* An iterator shows an item fewer domains than a list, never others.
LEMMA DomainsShrink ==
  ASSUME NEW a \in Attempt, NEW k
  PROVE  DomainsSeen(a, k) \subseteq a.domains
BY DEF DomainsSeen

LEMMA FewerDomainsBlockMore ==
  ASSUME NEW a \in Attempt, NEW b, NEW j, NEW k,
         b.items[k] = a.items[j], b.mode = a.mode,
         DomainsSeen(b, k) \subseteq DomainsSeen(a, j),
         NetworkBlocked(a, j)
  PROVE  NetworkBlocked(b, k)
BY DEF NetworkBlocked, Consumes, DomainAllowed

LEMMA ClosedForAll == ASSUME NEW a \in Attempt  PROVE ClosedWhenOneShot(a)
<1> DEFINE b == [a EXCEPT !.oneShot = FALSE]
<1>1. /\ b \in Attempt /\ b.items = a.items /\ b.mode = a.mode
      /\ b.domains = a.domains /\ b.allowed = a.allowed
      /\ b.denied = a.denied /\ b.approvals = a.approvals
      /\ b.oneShot = FALSE
  BY DEF Attempt
<1> HIDE DEF b
<1>2. ASSUME NEW k \in DOMAIN a.items
      PROVE  /\ ItemKinds(b, k) \subseteq ItemKinds(a, k)
             /\ ItemKinds(a, k) \ {"network_blocked"}
                  \subseteq ItemKinds(b, k)
  <2>1. DomainsSeen(b, k) = a.domains
    BY <1>1 DEF DomainsSeen
  <2>2. NetworkBlocked(b, k) => NetworkBlocked(a, k)
    BY <1>1, <2>1, DomainsShrink, FewerDomainsBlockMore
  <2>3. /\ ItemKinds(b, k) \ {"network_blocked"}
             = ItemKinds(a, k) \ {"network_blocked"}
        /\ "network_blocked" \in ItemKinds(a, k) <=> NetworkBlocked(a, k)
        /\ "network_blocked" \in ItemKinds(b, k) <=> NetworkBlocked(b, k)
    BY <1>1, KindsAlike
  <2> QED  BY <2>2, <2>3
<1>3. Findings(b) \subseteq Findings(a)
  BY <1>1, <1>2 DEF Findings
<1>4. Findings(a) \ Findings(b) \subseteq {"network_blocked"}
  BY <1>1, <1>2 DEF Findings
<1> QED  BY <1>3, <1>4 DEF ClosedWhenOneShot, b

\* OneShotFailsClosed, for any attempts.
THEOREM IteratorFailsClosed == SessionSpec => OneShotFailsClosed
<1>1. [SessionNext]_allVars =>
        [\A p \in Proposals : Reports(p) => ClosedWhenOneShot(AttemptOf[p])]_allVars
  BY ClosedForAll, AttemptsAssumption
<1> QED  BY <1>1, PTL DEF SessionSpec, OneShotFailsClosed

\* With more approvals a file has no more findings, and the same blocks.
LEMMA ApprovalsForAll == ASSUME NEW a \in Attempt  PROVE NoBlockLifted(a)
<1> SUFFICES ASSUME NEW more \in SUBSET Changes
             PROVE  LET b == [a EXCEPT !.approvals = @ \cup more]
                    IN  /\ OutcomeRank[Controlling(b)]
                             <= OutcomeRank[Controlling(a)]
                        /\ Controlling(a) = "block" => Controlling(b) = "block"
  BY DEF NoBlockLifted
<1> DEFINE b == [a EXCEPT !.approvals = @ \cup more]
<1>1. /\ b.items = a.items /\ b.mode = a.mode /\ b.domains = a.domains
      /\ b.oneShot = a.oneShot
      /\ b.allowed = a.allowed /\ b.denied = a.denied
      /\ b.approvals = a.approvals \cup more
  BY DEF Attempt
<1> HIDE DEF b
<1>2. \A k : NetworkBlocked(a, k) <=> NetworkBlocked(b, k)
  BY <1>1 DEF NetworkBlocked, DomainsSeen, Consumes
<1>3. ASSUME NEW k \in DOMAIN a.items
      PROVE  /\ ItemKinds(b, k) \ Changes = ItemKinds(a, k) \ Changes
             /\ ItemKinds(a, k) = {} => ItemKinds(b, k) = {}
  <2>1. CASE a.items[k].type = "command"
    BY <1>1, <1>2, <2>1 DEF ItemKinds, CommandKinds
  <2>2. CASE a.items[k] \in FileItem /\ a.items[k].type = "file"
    <3> DEFINE f == a.items[k]
    <3>1. f.changes \subseteq Changes
      BY <2>2 DEF FileItem
    <3>2. /\ ApprovalKinds(a, f) \subseteq Changes
          /\ ApprovalKinds(b, f) \subseteq Changes
          /\ ApprovalKinds(a, f) = {} => ApprovalKinds(b, f) = {}
      <4>1. f.changes \ b.approvals \subseteq f.changes \ a.approvals
        BY <1>1
      <4> QED  BY <3>1, <4>1 DEF ApprovalKinds, Changes
    <3>3. PathKinds(a, f) = PathKinds(b, f)
      BY <1>1 DEF PathKinds
    <3>4. ItemKinds(a, k) = FileKinds(a, f) /\ ItemKinds(b, k) = FileKinds(b, f)
      BY <1>1, <2>2 DEF ItemKinds
    <3> QED  BY <3>2, <3>3, <3>4 DEF FileKinds
  <2>3. CASE a.items[k].type = "text"
    BY <1>1, <2>3 DEF ItemKinds
  <2> QED  BY <2>1, <2>2, <2>3, Items
<1>4. Blocking(Findings(b)) <=> Blocking(Findings(a))
  BY <1>1, <1>3 DEF Findings, Blocking
<1>5. Findings(a) = {} => Findings(b) = {}
  BY <1>1, <1>3 DEF Findings
<1>6. /\ OutcomeRank["block"] = 40 /\ OutcomeRank["review"] = 20
      /\ OutcomeRank["pass"] = 0
  BY DEF OutcomeRank
<1>7. /\ OutcomeRank[Controlling(b)] <= OutcomeRank[Controlling(a)]
      /\ Controlling(a) = "block" => Controlling(b) = "block"
  BY <1>4, <1>5, <1>6 DEF Controlling
<1> QED  BY <1>7 DEF b

\* ApprovalsLiftNoBlock, for any attempts.
THEOREM ApprovalsAnswerReviews == SessionSpec => ApprovalsLiftNoBlock
<1>1. [SessionNext]_allVars =>
        [\A p \in Proposals : Reports(p) => NoBlockLifted(AttemptOf[p])]_allVars
  BY ApprovalsForAll, AttemptsAssumption
<1> QED  BY <1>1, PTL DEF SessionSpec, ApprovalsLiftNoBlock

\* With a tighter policy an item has every kind of finding it had.
LEMMA TighterItem ==
  ASSUME NEW a \in Attempt, NEW b, b.items = a.items,
         a.oneShot => b.oneShot, b.approvals = a.approvals,
         b.mode \in NetworkModes, ModeRank[b.mode] >= ModeRank[a.mode],
         b.domains \subseteq a.domains, Narrower(b.allowed, a.allowed),
         a.denied \subseteq b.denied, NEW k \in DOMAIN a.items
  PROVE  ItemKinds(a, k) \subseteq ItemKinds(b, k)
<1>1. a.mode \in NetworkModes
  BY DEF Attempt
<1>2. /\ a.mode # "open" => b.mode # "open"
      /\ b.mode = "allowlisted" /\ a.mode # "open" => a.mode = "allowlisted"
  BY <1>1 DEF NetworkModes, ModeRank
<1>3. \A item : Consumes(a, item) => Consumes(b, item)
  BY <1>2 DEF Consumes
<1>4. DomainsSeen(b, k) \subseteq DomainsSeen(a, k)
  BY <1>3 DEF DomainsSeen
<1>5. ASSUME NetworkBlocked(a, k)  PROVE NetworkBlocked(b, k)
  <2>1. Consumes(a, a.items[k]) /\ Consumes(b, b.items[k])
    BY <1>3, <1>5 DEF NetworkBlocked
  <2>2. a.mode # "open"
    BY <2>1 DEF Consumes
  <2>3. ASSUME b.mode = "allowlisted"
        PROVE  \E t \in b.items[k].targets : ~DomainAllowed(t, DomainsSeen(b, k))
    <3>1. PICK t \in a.items[k].targets : ~DomainAllowed(t, DomainsSeen(a, k))
      BY <1>2, <1>5, <2>2, <2>3 DEF NetworkBlocked
    <3>2. ~DomainAllowed(t, DomainsSeen(b, k))
      BY <1>4, <3>1 DEF DomainAllowed
    <3> QED  BY <3>1, <3>2
  <2> QED  BY <2>1, <2>3 DEF NetworkBlocked
<1>6. CommandKinds(a, k) \subseteq CommandKinds(b, k)
  BY <1>5 DEF CommandKinds
<1>7. ASSUME NEW f  PROVE FileKinds(a, f) \subseteq FileKinds(b, f)
  <2>1. ApprovalKinds(a, f) = ApprovalKinds(b, f)
    BY DEF ApprovalKinds
  <2>2. f.under \cap a.denied # {} => f.under \cap b.denied # {}
    OBVIOUS
  <2>3. a.allowed # {} /\ f.under \cap a.allowed = {} =>
          b.allowed # {} /\ f.under \cap b.allowed = {}
    BY DEF Narrower
  <2>4. PathKinds(a, f) \subseteq PathKinds(b, f)
    BY <2>2, <2>3 DEF PathKinds
  <2> QED  BY <2>1, <2>4 DEF FileKinds
<1>8. CASE a.items[k].type = "command"
  BY <1>6, <1>8 DEF ItemKinds
<1>9. CASE a.items[k].type = "file"
  BY <1>7, <1>9 DEF ItemKinds
<1>10. CASE a.items[k].type = "text"
  BY <1>10 DEF ItemKinds
<1> QED  BY <1>8, <1>9, <1>10, Items

LEMMA TightensForAll == ASSUME NEW a \in Attempt  PROVE TightensAll(a)
<1> SUFFICES ASSUME NEW mode \in NetworkModes, NEW domains \in SUBSET a.domains,
                    NEW once \in BOOLEAN, a.oneShot => once,
                    NEW allowed \in SUBSET Paths, NEW denied \in SUBSET Paths,
                    ModeRank[mode] >= ModeRank[a.mode],
                    Narrower(allowed, a.allowed), a.denied \subseteq denied
             PROVE  Findings(a) \subseteq
                      Findings([a EXCEPT !.mode = mode, !.domains = domains,
                                         !.oneShot = once, !.allowed = allowed,
                                         !.denied = denied])
  BY DEF TightensAll
<1> DEFINE b == [a EXCEPT !.mode = mode, !.domains = domains,
                          !.oneShot = once, !.allowed = allowed,
                          !.denied = denied]
<1>1. /\ b.items = a.items /\ b.mode = mode /\ b.domains = domains
      /\ b.allowed = allowed /\ b.denied = denied
      /\ b.oneShot = once /\ b.approvals = a.approvals
  BY DEF Attempt
<1> HIDE DEF b
<1>2. \A k \in DOMAIN a.items : ItemKinds(a, k) \subseteq ItemKinds(b, k)
  BY <1>1, TighterItem
<1>3. Findings(a) \subseteq Findings(b)
  BY <1>1, <1>2 DEF Findings
<1> QED  BY <1>3 DEF b

\* TighterFindsMore, for every attempt and every tighter policy.
THEOREM TighterPolicy == SessionSpec => TighterFindsMore
<1>1. [SessionNext]_allVars =>
        [\A p \in Proposals : Reports(p) => TightensAll(AttemptOf[p])]_allVars
  BY TightensForAll, AttemptsAssumption
<1> QED  BY <1>1, PTL DEF SessionSpec, TighterFindsMore

\* The second of two commands that read the iterator is blocked.
LEMMA SecondReaderBlocked ==
  ASSUME NEW a, a.oneShot, DOMAIN a.items \subseteq Nat,
         NEW i \in DOMAIN a.items, NEW k \in DOMAIN a.items,
         0 < i, i < k,
         Consumes(a, a.items[i]), Consumes(a, a.items[k])
  PROVE  NetworkBlocked(a, k)
<1>1. i \in 1 .. k - 1
  OBVIOUS
<1>2. DomainsSeen(a, k) = {}
  BY <1>1 DEF DomainsSeen
<1>3. a.items[k].targets # {}
  BY DEF Consumes
<1>4. \A t : ~DomainAllowed(t, DomainsSeen(a, k))
  BY <1>2 DEF DomainAllowed
<1> QED  BY <1>3, <1>4 DEF NetworkBlocked

\* Listing the same items otherwise leaves some target blocked.
LEMMA BlockedElsewhere ==
  ASSUME NEW a, NEW b, NEW n \in Nat,
         DOMAIN a.items = 1 .. n, DOMAIN b.items = 1 .. n,
         b.mode = a.mode, b.domains = a.domains, b.oneShot = a.oneShot,
         NEW g \in [1 .. n -> 1 .. n],
         \A k \in 1 .. n : b.items[g[k]] = a.items[k],
         \A j, k \in 1 .. n : g[j] = g[k] => j = k,
         NEW k \in 1 .. n, NetworkBlocked(a, k)
  PROVE  \E j \in 1 .. n : NetworkBlocked(b, j)
<1>1. g[k] \in 1 .. n /\ b.items[g[k]] = a.items[k]
  OBVIOUS
<1>2. \A i \in 1 .. n :
        Consumes(b, b.items[g[i]]) <=> Consumes(a, a.items[i])
  BY DEF Consumes
<1>3. Consumes(b, b.items[g[k]])
  BY <1>2 DEF NetworkBlocked
<1>4. CASE DomainsSeen(b, g[k]) \subseteq DomainsSeen(a, k)
  <2>1. NetworkBlocked(b, g[k])
    BY <1>1, <1>3, <1>4 DEF NetworkBlocked, DomainAllowed
  <2> QED  BY <1>1, <2>1
<1>5. CASE ~(DomainsSeen(b, g[k]) \subseteq DomainsSeen(a, k))
  <2>1. /\ a.oneShot
        /\ \E i \in 1 .. k - 1 : Consumes(a, a.items[i])
    BY <1>5 DEF DomainsSeen
  <2>2. PICK i \in 1 .. k - 1 : Consumes(a, a.items[i])
    BY <2>1
  <2>3. i \in 1 .. n /\ g[i] \in 1 .. n /\ g[i] # g[k]
    BY <2>2
  <2>4. Consumes(b, b.items[g[i]])
    BY <1>2, <2>2, <2>3
  <2>5. DOMAIN b.items \subseteq Nat /\ b.oneShot
    BY <2>1
  <2>6. CASE g[i] < g[k]
    <3>1. /\ g[i] \in DOMAIN b.items /\ g[k] \in DOMAIN b.items
          /\ 0 < g[i]
      BY <1>1, <2>3
    <3>2. NetworkBlocked(b, g[k])
      BY <1>3, <2>4, <2>5, <2>6, <3>1, SecondReaderBlocked, Zenon
    <3> QED  BY <1>1, <2>3, <3>2
  <2>7. CASE g[k] < g[i]
    <3>1. /\ g[i] \in DOMAIN b.items /\ g[k] \in DOMAIN b.items
          /\ 0 < g[k]
      BY <1>1, <2>3
    <3>2. NetworkBlocked(b, g[i])
      BY <1>3, <2>4, <2>5, <2>7, <3>1, SecondReaderBlocked, Zenon
    <3> QED  BY <1>1, <2>3, <3>2
  <2> QED  BY <1>1, <2>3, <2>6, <2>7
<1> QED  BY <1>4, <1>5

\* The other kinds of finding do not depend on the place of an item.
LEMMA AnyOrderForAll == ASSUME NEW a \in Attempt  PROVE AnyOrder(a)
<1> SUFFICES ASSUME NEW f \in Orders(a)
             PROVE  Controlling(Reordered(a, f)) = Controlling(a)
  BY DEF AnyOrder
<1> DEFINE b == Reordered(a, f)
           n == Len(a.items)
<1>1. n \in Nat /\ DOMAIN a.items = 1 .. n
  BY DEF Attempt
<1>2. /\ b.items = [k \in DOMAIN a.items |-> a.items[f[k]]]
      /\ b.mode = a.mode /\ b.domains = a.domains
      /\ b.oneShot = a.oneShot /\ b.approvals = a.approvals
      /\ b.allowed = a.allowed /\ b.denied = a.denied
  BY DEF Reordered, Attempt
<1>3. DOMAIN b.items = 1 .. n
  BY <1>1, <1>2
<1>4. /\ f \in [1 .. n -> 1 .. n]
      /\ \A j, k \in 1 .. n : f[j] = f[k] => j = k
      /\ \A k \in 1 .. n : \E j \in 1 .. n : f[j] = k
  BY <1>1 DEF Orders, Shuffles
<1> DEFINE g == [k \in 1 .. n |-> CHOOSE j \in 1 .. n : f[j] = k]
<1>5. /\ g \in [1 .. n -> 1 .. n]
      /\ \A k \in 1 .. n : f[g[k]] = k
  BY <1>4
<1> HIDE DEF b, n, g
<1>6. \A j, k \in 1 .. n : g[j] = g[k] => j = k
  BY <1>5
<1>7. /\ \A k \in 1 .. n : a.items[f[k]] = b.items[k]
      /\ \A k \in 1 .. n : b.items[g[k]] = a.items[k]
  BY <1>1, <1>2, <1>5
<1>8. (\E k \in 1 .. n : NetworkBlocked(a, k))
        <=> \E k \in 1 .. n : NetworkBlocked(b, k)
  <2>1. ASSUME NEW k \in 1 .. n, NetworkBlocked(a, k)
        PROVE  \E j \in 1 .. n : NetworkBlocked(b, j)
    BY <1>1, <1>2, <1>3, <1>5, <1>6, <1>7, <2>1, BlockedElsewhere
  <2>2. ASSUME NEW k \in 1 .. n, NetworkBlocked(b, k)
        PROVE  \E j \in 1 .. n : NetworkBlocked(a, j)
    BY <1>1, <1>2, <1>3, <1>4, <1>7, <2>2, BlockedElsewhere
  <2> QED  BY <2>1, <2>2
<1>9. ASSUME NEW j \in 1 .. n, NEW k \in 1 .. n, b.items[k] = a.items[j]
      PROVE  /\ ItemKinds(b, k) \ {"network_blocked"}
                  = ItemKinds(a, j) \ {"network_blocked"}
             /\ "network_blocked" \in ItemKinds(a, j) <=> NetworkBlocked(a, j)
             /\ "network_blocked" \in ItemKinds(b, k) <=> NetworkBlocked(b, k)
  <2>1. j \in DOMAIN a.items
    BY <1>1
  <2>2. /\ b.mode = a.mode /\ b.allowed = a.allowed
        /\ b.denied = a.denied /\ b.approvals = a.approvals
    BY <1>2
  <2>3. b.items[k] = a.items[j]
    BY <1>9
  <2> QED  BY <2>1, <2>2, <2>3, KindsAlike, SMTT(20)
<1>10. Findings(a) = Findings(b)
  <2>1. ASSUME NEW x \in Findings(a)  PROVE x \in Findings(b)
    <3>1. PICK j \in 1 .. n : x \in ItemKinds(a, j)
      BY <1>1, <2>1 DEF Findings
    <3>2. CASE x # "network_blocked"
      <4>1. g[j] \in 1 .. n /\ x \in ItemKinds(b, g[j])
        BY <1>5, <1>7, <1>9, <3>1, <3>2
      <4> QED  BY <1>3, <4>1 DEF Findings
    <3>3. CASE x = "network_blocked"
      <4>1. NetworkBlocked(a, j)
        BY <1>5, <1>7, <1>9, <3>1, <3>3
      <4>2. PICK k \in 1 .. n : NetworkBlocked(b, k)
        BY <1>8, <4>1
      <4>3. x \in ItemKinds(b, k)
        BY <1>4, <1>7, <1>9, <3>3, <4>2
      <4> QED  BY <1>3, <4>3 DEF Findings
    <3> QED  BY <3>2, <3>3
  <2>2. ASSUME NEW x \in Findings(b)  PROVE x \in Findings(a)
    <3>1. PICK k \in 1 .. n : x \in ItemKinds(b, k)
      BY <1>3, <2>2 DEF Findings
    <3>2. CASE x # "network_blocked"
      <4>1. f[k] \in 1 .. n /\ x \in ItemKinds(a, f[k])
        BY <1>4, <1>7, <1>9, <3>1, <3>2
      <4> QED  BY <1>1, <4>1 DEF Findings
    <3>3. CASE x = "network_blocked"
      <4>1. NetworkBlocked(b, k)
        BY <1>4, <1>7, <1>9, <3>1, <3>3
      <4>2. PICK j \in 1 .. n : NetworkBlocked(a, j)
        BY <1>8, <4>1
      <4>3. x \in ItemKinds(a, j)
        BY <1>5, <1>7, <1>9, <3>3, <4>2
      <4> QED  BY <1>1, <4>3 DEF Findings
    <3> QED  BY <3>2, <3>3
  <2> QED  BY <2>1, <2>2
<1> QED  BY <1>10 DEF Controlling, b

\* OrderIrrelevant, for any attempts in any order.
THEOREM AnyOrderSame == SessionSpec => OrderIrrelevant
<1>1. [SessionNext]_allVars =>
        [\A p \in Proposals : Reports(p) => AnyOrder(AttemptOf[p])]_allVars
  BY AnyOrderForAll, AttemptsAssumption
<1> QED  BY <1>1, PTL DEF SessionSpec, OrderIrrelevant
=============================================================================
