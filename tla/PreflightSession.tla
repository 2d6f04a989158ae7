-------------------------- MODULE PreflightSession --------------------------
(***************************************************************************)
(* A TrustOps session in which the safety preflight is one of the gates:   *)
(* its decision joins the chain like any other report, at any place.  The  *)
(* session is TrustOpsSession (Spec); source remembers which reports are   *)
(* preflights, and of which proposal.  An unknown network mode raises an    *)
(* error and reports nothing, so it is no step here.                       *)
(***************************************************************************)
EXTENDS TrustOpsSession, SafetyPreflight

CONSTANTS
  Proposals,     \* the runtime attempts that may be proposed, by name
  AttemptOf,     \* what each of them is
  AdapterGates,  \* what the other gates may report
  MaxPreflights, \* bound on the preflights of a session
  NoProposal     \* the source of a report that is no preflight

ASSUME AttemptsAssumption == AttemptOf \in [Proposals -> Attempt]
ASSUME NoProposalAssumption == NoProposal \notin Proposals
ASSUME GatesAssumption ==
  AdapterGates \cup {PreflightGate(AttemptOf[p]) : p \in Proposals}
    \subseteq GateDecisions

VARIABLE source  \* of every report, the proposal preflighted or NoProposal

allVars == <<chain, rollbackSupported, record, handoff, source>>

Preflighted == {k \in DOMAIN source : source[k] # NoProposal}

SessionInit == Init /\ source = <<>>

\* Another gate reports.
AdapterReport(g) ==
  Report(g) /\ source' = Append(source, NoProposal)

\* evaluate_safety_preflight, and its decision reported.
Preflight(p) ==
  /\ Cardinality(Preflighted) < MaxPreflights
  /\ Report(PreflightGate(AttemptOf[p]))
  /\ source' = Append(source, p)

Build ==
  /\ (\E header \in Headers : Decide(header)) \/ HandOff
  /\ UNCHANGED source

SessionNext ==
  \/ \E g \in AdapterGates : AdapterReport(g)
  \/ \E p \in Proposals : Preflight(p)
  \/ Build

SessionSpec == SessionInit /\ [][SessionNext]_allVars

-----------------------------------------------------------------------------

\* Every report has a source, and a preflight with a receipt reported a
\* valid gate decision: a preflight never spoils a session by its form.
SourceOK ==
  /\ source \in Seq(Proposals \cup {NoProposal})
  /\ Len(source) = Len(chain)
  /\ \A k \in Preflighted :
       /\ chain[k] = PreflightGate(AttemptOf[source[k]])
       /\ AttemptOf[source[k]].receipt # Blank => ValidGate(chain[k])

\* Nothing a preflight found gets lost on the way to the runtime: whatever
\* is built after it lists the evidence of every finding, allows only when
\* there was none, and stops the runtime when one of them blocks, whatever
\* the other gates and their overrides say and even without rollback.
KeepsFindings(r) ==
  Built(r) =>
    \A k \in Preflighted \cap DOMAIN r.basis :
      LET found == Findings(AttemptOf[source[k]])
      IN  /\ found \subseteq r.decision.evidence
          /\ found # {} => r.decision.action # "allow"
          /\ Blocking(found) =>
               r.decision.action \in {"block", "rollback", "revoke"}

FindingsReachRuntime == KeepsFindings(record) /\ KeepsFindings(handoff)

\* The lists in which a gate decision puts a reference without the prefix.
Unprefixed(g) ==
  {field \in Fields :
     ~([receipts |-> {g.receipt}, gates |-> {g.gate},
        evidence |-> g.evidence \ {Blank}][field] \subseteq Prefixed[field])}

\* Nobody checks a reference before a record is validated, and a record is
\* refused for two reasons only: for the fallback of a rollback, or because
\* some report names a reference without its prefix.  A preflight is at fault
\* at most for the receipt its caller gave it.  Where the handoff of the same
\* decisions is accepted, the reason is a receipt: the one list of which the
\* handoff's validator does not ask for the prefix.
RefusalsHaveCause ==
  (Built(record) /\ record.header = "complete" /\ ~RecordValid(record)) =>
    LET faults(k) == Unprefixed(record.basis[k])
    IN  /\ \/ record.decision.fallback /\ ~rollbackSupported
           \/ \E k \in DOMAIN record.basis :
                /\ faults(k) # {}
                /\ k \in Preflighted => faults(k) = {"receipts"}
        /\ (handoff.basis = record.basis /\ HandoffValid(handoff)) =>
             \E k \in DOMAIN record.basis : "receipts" \in faults(k)

\* The step reports the preflight of a proposal.
Reports(p) == source' = Append(source, p)

\* An iterator of allowed domains fails closed: used up too early it makes
\* the preflight find what a list would not, never the reverse, and what it
\* adds is a blocked network target.
ClosedWhenOneShot(a) ==
  LET listed == [a EXCEPT !.oneShot = FALSE]
  IN  /\ Findings(listed) \subseteq Findings(a)
      /\ Findings(a) \ Findings(listed) \subseteq {"network_blocked"}

OneShotFailsClosed ==
  [][\A p \in Proposals : Reports(p) => ClosedWhenOneShot(AttemptOf[p])]_allVars

\* Approvals only ever answer reviews: with more of them the outcome of a
\* preflight is never stricter, and a block stays a block.
NoBlockLifted(a) ==
  \A more \in SUBSET Changes :
    LET approved == [a EXCEPT !.approvals = @ \cup more]
    IN  /\ OutcomeRank[Controlling(approved)] <= OutcomeRank[Controlling(a)]
        /\ Controlling(a) = "block" => Controlling(approved) = "block"

ApprovalsLiftNoBlock ==
  [][\A p \in Proposals : Reports(p) => NoBlockLifted(AttemptOf[p])]_allVars

\* A tighter policy never makes a preflight find less: neither another
\* network mode, nor fewer domains, nor the domains as an iterator that the
\* first reader uses up, nor more denied or fewer allowed paths.  (No allowed
\* paths at all allow every one.)
ModeRank == [open |-> 0, allowlisted |-> 1, off |-> 2]
Narrower(fewer, paths) ==
  fewer = paths \/ (fewer # {} /\ (paths = {} \/ fewer \subseteq paths))

TightensAll(a) ==
  \A mode \in NetworkModes, domains \in SUBSET a.domains,
     once \in BOOLEAN, allowed, denied \in SUBSET Paths :
    ( /\ ModeRank[mode] >= ModeRank[a.mode]
      /\ (a.oneShot => once)
      /\ Narrower(allowed, a.allowed) /\ a.denied \subseteq denied )
    => Findings(a) \subseteq
         Findings([a EXCEPT !.mode = mode, !.domains = domains,
                            !.oneShot = once, !.allowed = allowed,
                            !.denied = denied])

TighterFindsMore ==
  [][\A p \in Proposals : Reports(p) => TightensAll(AttemptOf[p])]_allVars

\* The order in which commands, files and texts are listed does not matter
\* to the outcome, not even when the domains are an iterator.
Reordered(a, f) ==
  [a EXCEPT !.items = [k \in DOMAIN a.items |-> a.items[f[k]]]]
Orders(a) == Shuffles(DOMAIN a.items)

AnyOrder(a) ==
  \A f \in Orders(a) : Controlling(Reordered(a, f)) = Controlling(a)

OrderIrrelevant ==
  [][\A p \in Proposals : Reports(p) => AnyOrder(AttemptOf[p])]_allVars
=============================================================================
