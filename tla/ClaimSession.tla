---------------------------- MODULE ClaimSession ----------------------------
(***************************************************************************)
(* What a coordinating workflow does with the admission policies: claims   *)
(* are submitted, and submitted again with other evidence; provisional     *)
(* admissions and revocations are recorded; actions are proposed on claims *)
(* that were admitted at some time.  The library keeps none of this: the   *)
(* registry is the caller's, and nobody checks that what an action names   *)
(* still stands.                                                           *)
(***************************************************************************)
EXTENDS ClaimAdmission, Sequences

CONSTANTS
  Claims,         \* claim identifiers
  Proposals,      \* action identifiers
  ClaimPolicies,  \* the policies that may be deployed, per claim
  ActionPolicies, \* the same per proposal
  Submissions,    \* what each claim may be submitted with
  MaxRecords,     \* bound on provisional admissions and revocations
  Nothing         \* not submitted, not admitted, not proposed

ASSUME ClaimPoliciesAssumption == ClaimPolicies \subseteq [Claims -> ClaimPolicy]
ASSUME ActionPoliciesAssumption ==
  ActionPolicies \subseteq [Proposals -> ActionPolicy]
ASSUME SubmissionsAssumption == Submissions \in [Claims -> SUBSET Submission]

Artifacts ==
  [policyId : ClaimClasses \cup ActionClasses, decision : Decision,
   severity : Severity, effects : Effects]

Answers == [named : SUBSET Claims, artifact : Artifacts]

ASSUME NothingAssumption == Nothing \notin Submission \cup Artifacts \cup Answers

VARIABLES
  claimPolicy,   \* the policy each claim is evaluated with
  actionPolicy,  \* the policy each proposal is evaluated with
  last,          \* the last submission of each claim
  ruling,        \* the artifact of that submission
  registry,      \* the evidence on which each claim was last admitted
  records,       \* provisional admissions and revocations, in order
  told           \* of each proposal, the claims it named and the artifact

vars == <<claimPolicy, actionPolicy, last, ruling, registry, records, told>>

Init ==
  /\ claimPolicy \in ClaimPolicies
  /\ actionPolicy \in ActionPolicies
  /\ last = [c \in Claims |-> Nothing]
  /\ ruling = [c \in Claims |-> Nothing]
  /\ registry = [c \in Claims |-> Nothing]
  /\ records = <<>>
  /\ told = [a \in Proposals |-> Nothing]

\* A claim is evaluated, and the registry is told when it is admitted.
Submit(c, s) ==
  LET artifact == AdmitClaim(claimPolicy[c], s)
  IN  /\ last' = [last EXCEPT ![c] = s]
      /\ ruling' = [ruling EXCEPT ![c] = artifact]
      /\ registry' = IF artifact.effects.agentMayContinue
                     THEN [registry EXCEPT ![c] = s] ELSE registry
      /\ UNCHANGED <<claimPolicy, actionPolicy, records, told>>

Enrol(kind, c) ==
  /\ Len(records) < MaxRecords
  /\ records' = Append(records, [kind |-> kind, claim |-> c])
  /\ UNCHANGED <<claimPolicy, actionPolicy, last, ruling, registry, told>>

\* ProvisionalAdmission.create, for a claim admitted with conditions.
Provisional(c) ==
  /\ last[c] # Nothing
  /\ ruling[c].decision = "allow_with_context"
  /\ Enrol("provisional", c)

\* Revocation.create: a record, which changes no admission.
Revoke(c) == registry[c] # Nothing /\ Enrol("revocation", c)

Admitted == {c \in Claims : registry[c] # Nothing}

\* An action is evaluated on claims that were admitted at some time.
Propose(a, named) ==
  /\ told' = [told EXCEPT ![a] =
                [named |-> named,
                 artifact |-> AdmitAction(actionPolicy[a], named)]]
  /\ UNCHANGED <<claimPolicy, actionPolicy, last, ruling, registry, records>>

Next ==
  \/ \E c \in Claims : \/ \E s \in Submissions[c] : Submit(c, s)
                       \/ Provisional(c)
                       \/ Revoke(c)
  \/ \E a \in Proposals, named \in SUBSET Admitted : Propose(a, named)

Spec == Init /\ [][Next]_vars

-----------------------------------------------------------------------------

\* Every variable has its type: the admission states are told as decisions
\* of the ABI.
TypeOK ==
  /\ claimPolicy \in [Claims -> ClaimPolicy]
  /\ actionPolicy \in [Proposals -> ActionPolicy]
  /\ last \in [Claims -> Submission \cup {Nothing}]
  /\ registry \in [Claims -> Submission \cup {Nothing}]
  /\ ruling \in [Claims -> Artifacts \cup {Nothing}]
  /\ records \in Seq([kind : {"provisional", "revocation"}, claim : Claims])
  /\ told \in [Proposals -> Answers \cup {Nothing}]

\* The evidence is what the policy of the claim asks for.
Sufficient(p, s) ==
  ~Disallowed(p, s) /\ ~Missing(p, s) /\ ~Unverified(p, s)

\* An action goes ahead only on evidence: however often its claims were
\* submitted again, denied or revoked since, each of them was admitted on
\* evidence its policy asks for, never from a disallowed source, and there
\* was one where the policy of the action wants claims.
ActionsRestOnEvidence ==
  \A a \in Proposals :
    (told[a] # Nothing /\ told[a].artifact.effects.agentMayContinue) =>
      /\ actionPolicy[a].needsClaims => told[a].named # {}
      /\ \A c \in told[a].named :
           registry[c] # Nothing /\ Sufficient(claimPolicy[c], registry[c])

\* A review gate cannot be passed by evidence, by low trust or by asking
\* again: a gated claim is never admitted, not even provisionally, and never
\* supports an action; a gated action never goes ahead.
GatesHold ==
  /\ \A c \in Claims :
       GatedClaim(claimPolicy[c]) =>
         /\ c \notin Admitted
         /\ \A k \in DOMAIN records : records[k].claim # c
         /\ \A a \in Proposals : told[a] # Nothing => c \notin told[a].named
  /\ \A a \in Proposals :
       (GatedAction(actionPolicy[a]) /\ told[a] # Nothing) =>
         ~told[a].artifact.effects.agentMayContinue

\* Raw output is not admitted truth, and high impact waits for review: with
\* the default policies the only action that goes ahead is an ingest fusion,
\* on claims none of which is about the world or from a raw candidate, each
\* explained, and verified by a human when it governs the runtime, whatever
\* was submitted before and since and in whichever order.
DefaultsHold ==
  \A a \in Proposals :
    ( /\ told[a] # Nothing /\ told[a].artifact.effects.agentMayContinue
      /\ actionPolicy[a] \in DefaultActionPolicies
      /\ \A c \in told[a].named : claimPolicy[c] \in DefaultClaimPolicies ) =>
      /\ actionPolicy[a].class = "execute_ingest_fusion"
      /\ told[a].named # {}
      /\ \A c \in told[a].named :
           /\ claimPolicy[c].class # "world_gaia"
           /\ registry[c].source \notin RawSources
           /\ registry[c].trace
           /\ claimPolicy[c].class = "runtime_action" => registry[c].human

Strictness ==
  [allow |-> 0, allow_with_context |-> 1, escalate |-> 2, deny |-> 3]

\* t says at least what s says.
AtLeast(p, t, s) ==
  /\ Disallowed(p, t) => Disallowed(p, s)
  /\ s.trace => t.trace
  /\ s.citation => t.citation
  /\ s.human => t.human
  /\ RankOr(s.trust, 0) <= RankOr(t.trust, 0)

\* Evidence never hurts: a claim submitted again with at least the evidence
\* it had is never ruled more strictly.  That rests on the order of the
\* checks: denials before reviews before conditions.
EvidenceNeverHurts ==
  [][\A c \in Claims :
       ( /\ last[c] # Nothing /\ last'[c] # Nothing
         /\ AtLeast(claimPolicy[c], last'[c], last[c]) )
       => Strictness[ruling'[c].decision] <= Strictness[ruling[c].decision]]_vars

\* A provisional admission is about trust alone: the same claim from a
\* verified source, nothing else changed, is admitted without conditions.
ProvisionalOnlyForTrust ==
  [][\A c \in Claims :
       ( /\ last[c] # Nothing
         /\ ruling[c].decision = "allow_with_context"
         /\ last'[c] = [last[c] EXCEPT !.trust = "verified"] )
       => ruling'[c].decision = "allow"]_vars

\* An action is told the same as long as it names a claim: a revocation, a
\* later denial or conditions on the claim have no influence, so whoever
\* names the claims has to look them up.
AdmissionNotRevisited ==
  [][\A a \in Proposals :
       ( /\ told[a] # Nothing /\ told[a].named # {}
         /\ told'[a] # Nothing /\ told'[a].named # {} )
       => told'[a].artifact = told[a].artifact]_vars
=============================================================================
