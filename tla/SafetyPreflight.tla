--------------------------- MODULE SafetyPreflight ---------------------------
(***************************************************************************)
(* The safety preflight of a proposed runtime attempt: what is found in    *)
(* its verifier commands, changed files and texts, the outcome that        *)
(* controls, and the TrustOps gate decision made of it.  The marks of an   *)
(* item stand for what the patterns find in its text; a finding keeps its  *)
(* kind, which is also its gate and its evidence reference.                *)
(***************************************************************************)
EXTENDS RuntimeActions, FiniteSetsExt

CONSTANTS
  Domains,     \* network targets and allowed domains
  Subdomains,  \* pairs of a target and a domain it is below
  Paths        \* path patterns, allowed or denied

\* SafetyViolationKind, in the order in which one item is checked.
KindOrder ==
  <<"command_blocked", "network_blocked", "secret_value",
    "path_outside_repo", "protected_path", "path_denied", "path_not_allowed",
    "dependency", "migration", "config">>
Kinds == {KindOrder[n] : n \in DOMAIN KindOrder}

\* Changes that need an approval, in the order in which they are looked for.
Changes == {"dependency", "migration", "config"}

Command ==
  [type : {"command"}, blocked : BOOLEAN, network : BOOLEAN,
   targets : SUBSET Domains, secret : BOOLEAN]
FileItem ==
  [type : {"file"}, outside : BOOLEAN, protected : BOOLEAN,
   under : SUBSET Paths, changes : SUBSET Changes]
Text == [type : {"text"}, secret : BOOLEAN]

Stage == [command |-> 1, file |-> 2, text |-> 3]

NetworkModes == {"off", "allowlisted", "open"}

\* The arguments of evaluate_safety_preflight.  Commands come before files
\* before texts; oneShot says that the allowed domains are an iterator.
Attempt ==
  {a \in [items : Seq(Command \cup FileItem \cup Text),
          mode : NetworkModes, domains : SUBSET Domains, oneShot : BOOLEAN,
          allowed : SUBSET Paths, denied : SUBSET Paths,
          approvals : SUBSET Changes, receipt : Refs \cup {Blank}] :
     \A j, k \in DOMAIN a.items :
       j < k => Stage[a.items[j].type] <= Stage[a.items[k].type]}

\* The preflight writes its gates and its evidence with their prefixes.
ASSUME KindsAssumption ==
  Kinds \cup {"pass"} \subseteq Prefixed["gates"] \cap Prefixed["evidence"]

-----------------------------------------------------------------------------
(* What is found.                                                          *)

\* A command whose targets are compared with the allowed domains, which
\* reads them.
Consumes(a, item) ==
  /\ item.type = "command"
  /\ item.network /\ item.targets # {} /\ a.mode # "open"

\* The allowed domains the k-th item is compared with: an iterator is used
\* up by the first command that reads it.
DomainsSeen(a, k) ==
  IF a.oneShot /\ \E j \in 1 .. k - 1 : Consumes(a, a.items[j]) THEN {}
  ELSE a.domains

\* Mutant of DomainAllowed: without domains nothing is held back.
DomainAllowed_EmptyAllows(target, domains) ==
  \/ domains = {}
  \/ target \in domains \/ \E d \in domains : <<target, d>> \in Subdomains

DomainAllowed(target, domains) ==
  target \in domains \/ \E d \in domains : <<target, d>> \in Subdomains

\* _evaluate_network_targets finds something.
NetworkBlocked(a, k) ==
  /\ Consumes(a, a.items[k])
  /\ a.mode = "allowlisted" =>
       \E t \in a.items[k].targets : ~DomainAllowed(t, DomainsSeen(a, k))

CommandKinds(a, k) ==
  (IF a.items[k].blocked THEN {"command_blocked"} ELSE {})
    \cup (IF NetworkBlocked(a, k) THEN {"network_blocked"} ELSE {})
    \cup (IF a.items[k].secret THEN {"secret_value"} ELSE {})

\* _evaluate_file_path: a file outside the repository is told nothing else.
PathKinds(a, f) ==
  IF f.outside THEN {"path_outside_repo"}
  ELSE (IF f.protected THEN {"protected_path"} ELSE {})
         \cup (IF f.under \cap a.denied # {} THEN {"path_denied"} ELSE {})
         \cup (IF a.allowed # {} /\ f.under \cap a.allowed = {}
               THEN {"path_not_allowed"} ELSE {})

\* _evaluate_change_approval: the first kind of change not approved.
ApprovalKinds(a, f) ==
  LET missing == f.changes \ a.approvals
  IN  IF "dependency" \in missing THEN {"dependency"}
      ELSE IF "migration" \in missing THEN {"migration"}
      ELSE missing

\* Mutant of FileKinds: an approved change is not looked at any further.
FileKinds_ApprovedSkips(a, f) ==
  IF f.changes # {} /\ f.changes \subseteq a.approvals THEN {}
  ELSE PathKinds(a, f) \cup ApprovalKinds(a, f)

FileKinds(a, f) == PathKinds(a, f) \cup ApprovalKinds(a, f)

ItemKinds(a, k) ==
  CASE a.items[k].type = "command" -> CommandKinds(a, k)
    [] a.items[k].type = "file"    -> FileKinds(a, a.items[k])
    [] a.items[k].type = "text"    ->
         IF a.items[k].secret THEN {"secret_value"} ELSE {}

Findings(a) == UNION {ItemKinds(a, k) : k \in DOMAIN a.items}

-----------------------------------------------------------------------------
(* The decision.                                                           *)

Blocking(kinds) == kinds \ Changes # {}

\* The items something was found in, and the kind found first.
Noticed(a) == {k \in DOMAIN a.items : ItemKinds(a, k) # {}}
FirstKind(kinds) ==
  KindOrder[Min({n \in DOMAIN KindOrder : KindOrder[n] \in kinds})]

\* Mutant of Controlling: the outcome of the finding made last.
Controlling_Last(a) ==
  IF Noticed(a) = {} THEN "pass"
  ELSE IF Blocking(ItemKinds(a, Max(Noticed(a)))) THEN "block" ELSE "review"

\* _controlling_outcome; no check warns.
Controlling(a) ==
  IF Blocking(Findings(a)) THEN "block"
  ELSE IF Findings(a) # {} THEN "review"
  ELSE "pass"

\* Mutant of PreflightGate: the evidence of the named gate only.
PreflightGate_FirstEvidence(a) ==
  LET first == IF Findings(a) = {} THEN "pass"
               ELSE FirstKind(ItemKinds(a, Min(Noticed(a))))
  IN  [outcome |-> Controlling(a), receipt |-> a.receipt, gate |-> first,
       evidence |-> {first}, override |-> "none"]

\* to_trustops_gate_decision: the gate of the first finding, which need not
\* be the one that controls, and the evidence of all of them.
PreflightGate(a) ==
  LET clean == Findings(a) = {}
  IN  [outcome |-> Controlling(a), receipt |-> a.receipt,
       gate |-> IF clean THEN "pass"
                ELSE FirstKind(ItemKinds(a, Min(Noticed(a)))),
       evidence |-> IF clean THEN {"pass"} ELSE Findings(a),
       override |-> "none"]
=============================================================================
