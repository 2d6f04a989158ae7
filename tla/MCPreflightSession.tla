------------------------- MODULE MCPreflightSession -------------------------
(* TrustOpsSession's gates, and one preflight of a few attempts.           *)
EXTENDS PreflightSession

CONSTANTS r1, r2, d1, d2, d3, p1, p2

Gate(outcome, override, evidence) ==
  [outcome |-> outcome, receipt |-> r1, gate |-> r2, evidence |-> evidence,
   override |-> override]

\* r1 is a receipt and evidence, r2 is a gate.
MCPrefixed ==
  LET kinds == Refs \ {r1, r2}
  IN  [receipts |-> {r1}, gates |-> {r2} \cup kinds, evidence |-> {r1} \cup kinds]

\* The outcomes no preflight has, overrides that keep, raise and lower, what
\* spoils a chain, and evidence without its prefix.
MCAdapterGates ==
  {Gate(o, "none", {r1}) : o \in {"warn", "rollback", "revoke", "unknown"}} \cup
  {Gate("warn", "block", {r1}), Gate("warn", "allow", {r2}),
   Gate("rollback", "quarantine", {r1}), Gate("quarantine", "none", {Blank}),
   Gate("review", "none", {r2})}

Run(targets) ==
  [type |-> "command", blocked |-> FALSE, network |-> targets # {},
   targets |-> targets, secret |-> FALSE]
Change(changes, under) ==
  [type |-> "file", outside |-> FALSE, protected |-> FALSE, under |-> under,
   changes |-> changes]
Note(secret) == [type |-> "text", secret |-> secret]

Proposed(items) ==
  [items |-> items, mode |-> "allowlisted", domains |-> {d1},
   oneShot |-> FALSE, allowed |-> {}, denied |-> {}, approvals |-> {},
   receipt |-> r1]

\* d2 is below d1.  Clean attempts, one finding of every kind, a review
\* before and after a block, two commands that share an iterator, a receipt
\* that is blank and one without the prefix.
MCSubdomains == {<<d2, d1>>}

MCAttemptOf ==
  [clean     |-> Proposed(<<>>),
   listed    |-> Proposed(<<Run({d1}), Run({d2}), Change({}, {})>>),
   oneShot   |-> [Proposed(<<Run({d1}), Run({d2})>>) EXCEPT !.oneShot = TRUE],
   foreign   |-> [Proposed(<<Run({d2, d3})>>) EXCEPT !.receipt = r2],
   target    |-> [Proposed(<<Run({d1}), Run({d1, d3}),
                             Change({"config"}, {})>>)
                    EXCEPT !.oneShot = TRUE],
   offline   |-> [Proposed(<<Run({d1}), Note(FALSE)>>) EXCEPT !.mode = "off"],
   open      |-> [Proposed(<<Run({d3})>>)
                    EXCEPT !.mode = "open", !.oneShot = TRUE],
   command   |-> Proposed(<<[Run({}) EXCEPT !.blocked = TRUE,
                                            !.secret = TRUE],
                            [Change({}, {p1}) EXCEPT !.protected = TRUE]>>),
   late      |-> Proposed(<<Change({"dependency", "config"}, {}),
                            Note(TRUE)>>),
   approved  |-> [Proposed(<<Change({"migration"}, {p1}),
                             Change({"dependency"}, {p2})>>)
                    EXCEPT !.approvals = {"dependency"},
                           !.allowed = {p1}, !.denied = {p2}],
   partly    |-> [Proposed(<<Change({"dependency", "migration"}, {p1})>>)
                    EXCEPT !.approvals = {"dependency"}, !.allowed = {p1}],
   outside   |-> Proposed(<<[Change({"config"}, {p1})
                               EXCEPT !.outside = TRUE]>>),
   noReceipt |-> [Proposed(<<>>) EXCEPT !.receipt = Blank]]
MCProposals == DOMAIN MCAttemptOf

MCGateDecisions ==
  MCAdapterGates \cup {PreflightGate(MCAttemptOf[p]) : p \in MCProposals}
=============================================================================
