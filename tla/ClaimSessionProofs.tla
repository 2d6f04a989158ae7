------------------------- MODULE ClaimSessionProofs -------------------------
(***************************************************************************)
(* Proofs about claim and action admission, for any policies, any evidence *)
(* and any number of claims and proposals.                                 *)
(***************************************************************************)
EXTENDS ClaimSession, TLAPS

-----------------------------------------------------------------------------
(* The evaluations.                                                        *)

\* Ranks of trust are naturals.
LEMMA TrustRanked ==
  ASSUME NEW t \in Trusts, NEW d \in {0, 1}
  PROVE  RankOr(t, d) \in 0 .. 3
BY DEF Trusts, TrustRank, RankOr

\* What an artifact lets the agent do follows from its decision.
LEMMA ArtifactTyped ==
  ASSUME NEW p \in ClaimClasses \cup ActionClasses, NEW d \in Decision,
         NEW s \in Severity
  PROVE  /\ Artifact(p, d, s) \in Artifacts
         /\ Artifact(p, d, s).decision = d
         /\ Artifact(p, d, s).effects.agentMayContinue = (d \notin Stopping)
<1>1. DefaultEffects(d) \in Effects
  BY DEF DefaultEffects, Effects
<1> QED  BY <1>1 DEF Artifact, Artifacts, DefaultEffects

\* The decision on a claim, by what its evidence lacks.
Ruling(p, s) ==
  IF Disallowed(p, s) \/ Missing(p, s) THEN "deny"
  ELSE IF Unverified(p, s) \/ GatedClaim(p) THEN "escalate"
  ELSE IF BelowMinimum(p, s) THEN "allow_with_context"
  ELSE "allow"

\* A claim is let on exactly when its evidence is sufficient and no gate
\* applies to its class.
LEMMA ClaimRuled ==
  ASSUME NEW p \in ClaimPolicy, NEW s \in Submission
  PROVE  /\ AdmitClaim(p, s) \in Artifacts
         /\ AdmitClaim(p, s).decision = Ruling(p, s)
         /\ AdmitClaim(p, s).effects.agentMayContinue
              <=> Sufficient(p, s) /\ ~GatedClaim(p)
<1>1. p.class \in ClaimClasses \cup ActionClasses
  BY DEF ClaimPolicy
<1>2. PICK v \in Severity : AdmitClaim(p, s) = Artifact(p.class, Ruling(p, s), v)
  BY DEF AdmitClaim, Ruling, Severity
<1>3. Ruling(p, s) \in Decision
  BY DEF Ruling, Decision
<1>4. Ruling(p, s) \notin Stopping <=> Sufficient(p, s) /\ ~GatedClaim(p)
  BY DEF Ruling, Stopping, Sufficient
<1>5. /\ Artifact(p.class, Ruling(p, s), v) \in Artifacts
      /\ Artifact(p.class, Ruling(p, s), v).decision = Ruling(p, s)
      /\ Artifact(p.class, Ruling(p, s), v).effects.agentMayContinue
           = (Ruling(p, s) \notin Stopping)
  BY <1>1, <1>3, ArtifactTyped
<1> QED  BY <1>2, <1>4, <1>5, Zenon

\* A gated action, or one that lacks claims, is not let on.
LEMMA ActionRuled ==
  ASSUME NEW p \in ActionPolicy, NEW named
  PROVE  /\ AdmitAction(p, named) \in Artifacts
         /\ AdmitAction(p, named).effects.agentMayContinue
              <=> ~(p.needsClaims /\ named = {}) /\ ~GatedAction(p)
<1>1. p.class \in ClaimClasses \cup ActionClasses
  BY DEF ActionPolicy
<1>2. /\ {"deny", "escalate", "allow"} \subseteq Decision
      /\ "deny" \in Stopping /\ "escalate" \in Stopping
      /\ "allow" \notin Stopping
      /\ "high" \in Severity /\ "info" \in Severity
  BY DEF Decision, Stopping, Severity
<1>3. /\ Artifact(p.class, "deny", "high") \in Artifacts
      /\ ~Artifact(p.class, "deny", "high").effects.agentMayContinue
      /\ Artifact(p.class, "escalate", "high") \in Artifacts
      /\ ~Artifact(p.class, "escalate", "high").effects.agentMayContinue
      /\ Artifact(p.class, "allow", "info") \in Artifacts
      /\ Artifact(p.class, "allow", "info").effects.agentMayContinue
  BY <1>1, <1>2, ArtifactTyped
<1> QED  BY <1>3 DEF AdmitAction

\* More evidence is never ruled more strictly.
LEMMA MoreIsNotStricter ==
  ASSUME NEW p \in ClaimPolicy, NEW s \in Submission, NEW t \in Submission,
         AtLeast(p, t, s)
  PROVE  Strictness[Ruling(p, t)] <= Strictness[Ruling(p, s)]
<1>1. p.rule.minimum \in Trusts /\ s.trust \in Trusts /\ t.trust \in Trusts
  BY DEF ClaimPolicy, EvidenceRule, Submission
<1>2. /\ RankOr(p.rule.minimum, 1) \in 0 .. 3
      /\ RankOr(s.trust, 0) \in 0 .. 3 /\ RankOr(t.trust, 0) \in 0 .. 3
  BY <1>1, TrustRanked
<1>3. BelowMinimum(p, t) => BelowMinimum(p, s)
  <2>1. \A m, x, y \in 0 .. 3 : x <= y /\ y < m => x < m
    OBVIOUS
  <2>2. RankOr(s.trust, 0) <= RankOr(t.trust, 0)
    BY DEF AtLeast
  <2> QED  BY <1>2, <2>1, <2>2, Zenon DEF BelowMinimum
<1>4. /\ Disallowed(p, t) => Disallowed(p, s)
      /\ Missing(p, t) => Missing(p, s)
      /\ Unverified(p, t) => Unverified(p, s)
  BY DEF AtLeast, Missing, Unverified
<1>5. /\ Strictness["allow"] = 0 /\ Strictness["allow_with_context"] = 1
      /\ Strictness["escalate"] = 2 /\ Strictness["deny"] = 3
  BY DEF Strictness
<1> QED  BY <1>3, <1>4, <1>5 DEF Ruling

-----------------------------------------------------------------------------
(* The session.                                                            *)

\* Rulings and answers are those of the evaluations; what was let on is in
\* the registry, on evidence that was let on, and stays there.
RulingsKept ==
  \A c \in Claims :
    last[c] # Nothing =>
      /\ ruling[c] = AdmitClaim(claimPolicy[c], last[c])
      /\ ruling[c].effects.agentMayContinue => registry[c] # Nothing

RegistrySound ==
  \A c \in Claims :
    registry[c] # Nothing =>
      AdmitClaim(claimPolicy[c], registry[c]).effects.agentMayContinue

RecordsSound == \A k \in DOMAIN records : records[k].claim \in Admitted

AnswersKept ==
  \A a \in Proposals :
    told[a] # Nothing =>
      /\ told[a].named \subseteq Admitted
      /\ told[a].artifact = AdmitAction(actionPolicy[a], told[a].named)

IInv ==
  TypeOK /\ RulingsKept /\ RegistrySound /\ RecordsSound /\ AnswersKept

\* Evaluating a claim keeps the invariant.
LEMMA SubmitKeeps ==
  ASSUME IInv, NEW c \in Claims, NEW s \in Submissions[c], Submit(c, s)
  PROVE  IInv'
<1> USE DEF IInv
<1> DEFINE artifact == AdmitClaim(claimPolicy[c], s)
<1>1. s \in Submission /\ claimPolicy[c] \in ClaimPolicy
  BY SubmissionsAssumption DEF TypeOK
<1>2. artifact \in Artifacts
  BY <1>1, ClaimRuled
<1>3. s # Nothing /\ artifact # Nothing
  BY <1>1, <1>2, NothingAssumption
<1>4. /\ last' = [last EXCEPT ![c] = s]
      /\ ruling' = [ruling EXCEPT ![c] = artifact]
      /\ registry' = IF artifact.effects.agentMayContinue
                     THEN [registry EXCEPT ![c] = s] ELSE registry
      /\ UNCHANGED <<claimPolicy, actionPolicy, records, told>>
  BY DEF Submit
<1> HIDE DEF artifact
<1>5. TypeOK'
  BY <1>1, <1>2, <1>4 DEF TypeOK
<1>6. Admitted \subseteq Admitted'
  BY <1>3, <1>4 DEF Admitted, TypeOK
<1>7. RulingsKept'
  <2> SUFFICES ASSUME NEW d \in Claims, last'[d] # Nothing
               PROVE  /\ ruling'[d] = AdmitClaim(claimPolicy'[d], last'[d])
                      /\ ruling'[d].effects.agentMayContinue =>
                           registry'[d] # Nothing
    BY DEF RulingsKept
  <2>1. CASE d = c
    <3>1. last'[c] = s /\ ruling'[c] = artifact
      BY <1>4 DEF TypeOK
    <3>2. artifact.effects.agentMayContinue => registry'[c] = s
      BY <1>4 DEF TypeOK
    <3> QED  BY <1>3, <1>4, <2>1, <3>1, <3>2 DEF artifact
  <2>2. CASE d # c
    <3>1. /\ last'[d] = last[d] /\ ruling'[d] = ruling[d]
          /\ registry'[d] = registry[d]
      BY <1>4, <2>2 DEF TypeOK
    <3> QED  BY <1>4, <3>1 DEF RulingsKept
  <2> QED  BY <2>1, <2>2
<1>8. RegistrySound'
  <2> SUFFICES ASSUME NEW d \in Claims, registry'[d] # Nothing
               PROVE  AdmitClaim(claimPolicy'[d], registry'[d]).effects.agentMayContinue
    BY DEF RegistrySound
  <2>1. CASE registry'[d] = registry[d]
    BY <1>4, <2>1 DEF RegistrySound
  <2>2. CASE registry'[d] # registry[d]
    <3>1. d = c /\ registry'[d] = s /\ artifact.effects.agentMayContinue
      BY <1>4, <2>2 DEF TypeOK
    <3> QED  BY <1>4, <3>1 DEF artifact
  <2> QED  BY <2>1, <2>2
<1>9. RecordsSound' /\ AnswersKept'
  BY <1>4, <1>6 DEF RecordsSound, AnswersKept
<1> QED  BY <1>5, <1>7, <1>8, <1>9

\* A record of a claim that was let on keeps it.
LEMMA EnrolKeeps ==
  ASSUME IInv, NEW c \in Admitted, NEW kind \in {"provisional", "revocation"},
         Enrol(kind, c)
  PROVE  IInv'
<1> USE DEF IInv
<1> DEFINE r == [kind |-> kind, claim |-> c]
<1>1. /\ records' = Append(records, r)
      /\ UNCHANGED <<claimPolicy, actionPolicy, last, ruling, registry, told>>
  BY DEF Enrol
<1>2. /\ r \in [kind : {"provisional", "revocation"}, claim : Claims]
      /\ records \in Seq([kind : {"provisional", "revocation"}, claim : Claims])
  BY DEF Admitted, TypeOK
<1>3. TypeOK'
  BY <1>1, <1>2 DEF TypeOK
<1>4. RecordsSound'
  <2> SUFFICES ASSUME NEW k \in DOMAIN records'
               PROVE  records'[k].claim \in Admitted'
    BY DEF RecordsSound
  <2>1. Admitted' = Admitted
    BY <1>1 DEF Admitted
  <2>2. CASE k \in DOMAIN records
    <3>1. records'[k] = records[k]
      BY <1>1, <1>2, <2>2
    <3> QED  BY <2>1, <2>2, <3>1 DEF RecordsSound
  <2>3. CASE k \notin DOMAIN records
    <3>1. records'[k] = r
      BY <1>1, <1>2, <2>3
    <3> QED  BY <2>1, <3>1
  <2> QED  BY <2>2, <2>3
<1> QED  BY <1>1, <1>3, <1>4 DEF RulingsKept, RegistrySound, AnswersKept, Admitted

\* Evaluating an action on claims of the registry keeps it.
LEMMA ProposeKeeps ==
  ASSUME IInv, NEW a \in Proposals, NEW named \in SUBSET Admitted,
         Propose(a, named)
  PROVE  IInv'
<1> USE DEF IInv
<1> DEFINE answer == [named |-> named,
                      artifact |-> AdmitAction(actionPolicy[a], named)]
<1>1. /\ told' = [told EXCEPT ![a] = answer]
      /\ UNCHANGED <<claimPolicy, actionPolicy, last, ruling, registry, records>>
  BY DEF Propose
<1>2. actionPolicy[a] \in ActionPolicy
  BY DEF TypeOK
<1>3. answer \in Answers
  BY <1>2, ActionRuled DEF Answers, Admitted
<1>4. TypeOK'
  <2> HIDE DEF answer
  <2> QED  BY <1>1, <1>3 DEF TypeOK
<1>5. AnswersKept'
  <2> SUFFICES ASSUME NEW b \in Proposals, told'[b] # Nothing
               PROVE  /\ told'[b].named \subseteq Admitted'
                      /\ told'[b].artifact
                           = AdmitAction(actionPolicy'[b], told'[b].named)
    BY DEF AnswersKept
  <2>1. Admitted' = Admitted
    BY <1>1 DEF Admitted
  <2>2. CASE b = a
    <3>1. told'[b] = answer
      BY <1>1, <2>2 DEF TypeOK
    <3> QED  BY <1>1, <2>1, <2>2, <3>1
  <2>3. CASE b # a
    <3>1. told'[b] = told[b]
      BY <1>1, <2>3 DEF TypeOK
    <3> QED  BY <1>1, <2>1, <3>1 DEF AnswersKept
  <2> QED  BY <2>2, <2>3
<1> QED  BY <1>1, <1>4, <1>5 DEF RulingsKept, RegistrySound, RecordsSound, Admitted

\* The invariant is inductive.
LEMMA Inductive == Spec => []IInv
<1>1. Init => IInv
  <2> SUFFICES ASSUME Init  PROVE IInv
    OBVIOUS
  <2>1. TypeOK
    BY ClaimPoliciesAssumption, ActionPoliciesAssumption DEF Init, TypeOK
  <2> QED  BY <2>1 DEF Init, IInv, RulingsKept, RegistrySound, RecordsSound,
                       AnswersKept
<1>2. IInv /\ [Next]_vars => IInv'
  <2> SUFFICES ASSUME IInv, [Next]_vars  PROVE IInv'
    OBVIOUS
  <2>1. ASSUME NEW c \in Claims, NEW s \in Submissions[c], Submit(c, s)
        PROVE  IInv'
    BY <2>1, SubmitKeeps
  <2>2. ASSUME NEW c \in Claims, Provisional(c)  PROVE IInv'
    <3>1. last[c] # Nothing /\ ruling[c].decision = "allow_with_context"
      BY <2>2 DEF Provisional
    <3>2. /\ ruling[c] = AdmitClaim(claimPolicy[c], last[c])
          /\ claimPolicy[c] \in ClaimPolicy /\ last[c] \in Submission
      BY <3>1 DEF IInv, RulingsKept, TypeOK
    <3>3. Ruling(claimPolicy[c], last[c]) = "allow_with_context"
      BY <3>1, <3>2, ClaimRuled
    <3>4. ruling[c].effects.agentMayContinue
      BY <3>2, <3>3, ClaimRuled DEF Ruling, Sufficient
    <3>5. c \in Admitted
      BY <3>1, <3>4 DEF IInv, RulingsKept, Admitted
    <3> QED  BY <2>2, <3>5, EnrolKeeps DEF Provisional
  <2>3. ASSUME NEW c \in Claims, Revoke(c)  PROVE IInv'
    BY <2>3, EnrolKeeps DEF Revoke, Admitted
  <2>4. ASSUME NEW a \in Proposals, NEW named \in SUBSET Admitted,
               Propose(a, named)
        PROVE  IInv'
    BY <2>4, ProposeKeeps
  <2>5. CASE UNCHANGED vars
    BY <2>5 DEF vars, IInv, TypeOK, RulingsKept, RegistrySound, RecordsSound,
                AnswersKept, Admitted
  <2> QED  BY <2>1, <2>2, <2>3, <2>4, <2>5 DEF Next
<1> QED  BY <1>1, <1>2, PTL DEF Spec

\* TypeOK, for any policies.
THEOREM TypeCorrect == Spec => []TypeOK
<1>1. IInv => TypeOK
  BY DEF IInv
<1> QED  BY <1>1, Inductive, PTL

\* A registered claim was let on: its evidence suffices, no gate applies.
LEMMA Registered ==
  ASSUME IInv, NEW c \in Admitted
  PROVE  Sufficient(claimPolicy[c], registry[c]) /\ ~GatedClaim(claimPolicy[c])
<1>1. /\ c \in Claims /\ claimPolicy[c] \in ClaimPolicy
      /\ registry[c] \in Submission /\ registry[c] # Nothing
  BY DEF IInv, TypeOK, Admitted
<1> QED  BY <1>1, ClaimRuled DEF IInv, RegistrySound

\* ActionsRestOnEvidence, for any claims and policies.
THEOREM EvidenceBehindActions == Spec => []ActionsRestOnEvidence
<1>1. IInv => ActionsRestOnEvidence
  <2> SUFFICES ASSUME IInv, NEW a \in Proposals, told[a] # Nothing,
                      told[a].artifact.effects.agentMayContinue
               PROVE  /\ actionPolicy[a].needsClaims => told[a].named # {}
                      /\ \A c \in told[a].named :
                           /\ registry[c] # Nothing
                           /\ Sufficient(claimPolicy[c], registry[c])
    BY DEF ActionsRestOnEvidence
  <2>1. /\ actionPolicy[a] \in ActionPolicy
        /\ told[a].named \subseteq Admitted
        /\ told[a].artifact = AdmitAction(actionPolicy[a], told[a].named)
    BY DEF IInv, TypeOK, AnswersKept
  <2> QED  BY <2>1, ActionRuled, Registered DEF Admitted
<1> QED  BY <1>1, Inductive, PTL

\* GatesHold, for any gates.
THEOREM GatesKept == Spec => []GatesHold
<1>1. IInv => GatesHold
  <2> SUFFICES ASSUME IInv  PROVE GatesHold
    OBVIOUS
  <2>1. ASSUME NEW c \in Claims, GatedClaim(claimPolicy[c])
        PROVE  /\ c \notin Admitted
               /\ \A k \in DOMAIN records : records[k].claim # c
               /\ \A a \in Proposals : told[a] # Nothing => c \notin told[a].named
    <3>1. c \notin Admitted
      BY <2>1, Registered
    <3> QED  BY <3>1 DEF IInv, RecordsSound, AnswersKept
  <2>2. ASSUME NEW a \in Proposals, GatedAction(actionPolicy[a]),
               told[a] # Nothing
        PROVE  ~told[a].artifact.effects.agentMayContinue
    BY <2>2, ActionRuled DEF IInv, TypeOK, AnswersKept
  <2> QED  BY <2>1, <2>2 DEF GatesHold
<1> QED  BY <1>1, Inductive, PTL

\* What the default policies of claims ask for.
LEMMA DefaultClaims ==
  ASSUME NEW p \in DefaultClaimPolicies
  PROVE  /\ p.class = "world_gaia" => GatedClaim(p)
         /\ p.rule.disallowed = RawSources /\ p.rule.trace
         /\ p.class = "runtime_action" => p.rule.human
<1>1. PICK class \in ClaimClasses :
        p = [class |-> class, rule |-> DefaultEvidenceRules[class],
             gates |-> IF class = "world_gaia"
                       THEN {[claims |-> {"world_gaia"}, actions |-> {}]}
                       ELSE {}]
  BY DEF DefaultClaimPolicies
<1>2. p.class = class /\ p.rule = DefaultEvidenceRules[class]
  BY <1>1
<1>3. ASSUME class = "world_gaia"  PROVE GatedClaim(p)
  <2> DEFINE gate == [claims |-> {"world_gaia"}, actions |-> {}]
  <2>1. gate \in p.gates
    BY <1>1, <1>3
  <2>2. p.class \in gate.claims
    BY <1>2, <1>3
  <2> HIDE DEF gate
  <2> QED  BY <2>1, <2>2 DEF GatedClaim
<1>4. p.class = "world_gaia" => GatedClaim(p)
  BY <1>2, <1>3
<1>5. /\ DefaultEvidenceRules[class].disallowed = RawSources
      /\ DefaultEvidenceRules[class].trace
      /\ class = "runtime_action" => DefaultEvidenceRules[class].human
  BY DEF ClaimClasses, DefaultEvidenceRules, Rule
<1> QED  BY <1>2, <1>4, <1>5

\* What the default policies of actions ask for.
LEMMA DefaultActions ==
  ASSUME NEW p \in DefaultActionPolicies
  PROVE  /\ p.needsClaims
         /\ p.class # "execute_ingest_fusion" => GatedAction(p)
<1>1. PICK class \in ActionClasses :
        p = [class |-> class, needsClaims |-> TRUE,
             gates |-> IF class = "execute_ingest_fusion" THEN {}
                       ELSE {[claims |-> {}, actions |-> {class}]}]
  BY DEF DefaultActionPolicies
<1>2. p.needsClaims /\ p.class = class
  BY <1>1
<1>3. ASSUME class # "execute_ingest_fusion"  PROVE GatedAction(p)
  <2> DEFINE gate == [claims |-> {}, actions |-> {class}]
  <2>1. gate \in p.gates
    BY <1>1, <1>3
  <2>2. p.class \in gate.actions
    BY <1>2
  <2> HIDE DEF gate
  <2> QED  BY <2>1, <2>2 DEF GatedAction
<1> QED  BY <1>2, <1>3

\* DefaultsHold, through any number of submissions and proposals, and beside
\* any other policies.
THEOREM DefaultsKept == Spec => []DefaultsHold
<1>1. IInv => DefaultsHold
  <2> SUFFICES ASSUME IInv, NEW a \in Proposals, told[a] # Nothing,
                      told[a].artifact.effects.agentMayContinue,
                      actionPolicy[a] \in DefaultActionPolicies,
                      \A c \in told[a].named :
                        claimPolicy[c] \in DefaultClaimPolicies
               PROVE  /\ actionPolicy[a].class = "execute_ingest_fusion"
                      /\ told[a].named # {}
                      /\ \A c \in told[a].named :
                           /\ claimPolicy[c].class # "world_gaia"
                           /\ registry[c].source \notin RawSources
                           /\ registry[c].trace
                           /\ claimPolicy[c].class = "runtime_action" =>
                                registry[c].human
    BY DEF DefaultsHold
  <2>1. /\ actionPolicy[a] \in ActionPolicy
        /\ told[a].named \subseteq Admitted
        /\ told[a].artifact = AdmitAction(actionPolicy[a], told[a].named)
    BY DEF IInv, TypeOK, AnswersKept
  <2>2. /\ actionPolicy[a].class = "execute_ingest_fusion"
        /\ told[a].named # {}
    BY <2>1, ActionRuled, DefaultActions
  <2>3. ASSUME NEW c \in told[a].named
        PROVE  /\ claimPolicy[c].class # "world_gaia"
               /\ registry[c].source \notin RawSources
               /\ registry[c].trace
               /\ claimPolicy[c].class = "runtime_action" => registry[c].human
    <3>1. Sufficient(claimPolicy[c], registry[c]) /\ ~GatedClaim(claimPolicy[c])
      BY <2>1, Registered
    <3> QED  BY <3>1, DefaultClaims
                DEF Sufficient, Disallowed, Missing, Unverified
  <2> QED  BY <2>2, <2>3
<1> QED  BY <1>1, Inductive, PTL

\* The policies of a session do not change.
LEMMA PoliciesStay == [Next]_vars => UNCHANGED <<claimPolicy, actionPolicy>>
BY DEF Next, Submit, Provisional, Revoke, Enrol, Propose, vars

\* EvidenceNeverHurts, for any policies and evidence.
THEOREM EvidenceHelps == Spec => EvidenceNeverHurts
<1>1. ASSUME IInv, IInv', [Next]_vars, NEW c \in Claims,
             last[c] # Nothing, last'[c] # Nothing,
             AtLeast(claimPolicy[c], last'[c], last[c])
      PROVE  Strictness[ruling'[c].decision] <= Strictness[ruling[c].decision]
  <2>1. /\ claimPolicy[c] \in ClaimPolicy /\ claimPolicy'[c] = claimPolicy[c]
        /\ last[c] \in Submission /\ last'[c] \in Submission
    BY <1>1, PoliciesStay DEF IInv, TypeOK
  <2>2. /\ ruling[c] = AdmitClaim(claimPolicy[c], last[c])
        /\ ruling'[c] = AdmitClaim(claimPolicy'[c], last'[c])
    BY <1>1 DEF IInv, RulingsKept
  <2>3. /\ ruling[c].decision = Ruling(claimPolicy[c], last[c])
        /\ ruling'[c].decision = Ruling(claimPolicy[c], last'[c])
    BY <2>1, <2>2, ClaimRuled
  <2> QED  BY <1>1, <2>1, <2>3, MoreIsNotStricter
<1>2. IInv /\ IInv' /\ [Next]_vars =>
        [\A c \in Claims :
           ( /\ last[c] # Nothing /\ last'[c] # Nothing
             /\ AtLeast(claimPolicy[c], last'[c], last[c]) )
           => Strictness[ruling'[c].decision]
                <= Strictness[ruling[c].decision]]_vars
  BY <1>1
<1> QED  BY <1>2, Inductive, PTL DEF Spec, EvidenceNeverHurts

\* ProvisionalOnlyForTrust, for any policies and evidence.
THEOREM TrustSettlesProvisional == Spec => ProvisionalOnlyForTrust
<1>1. ASSUME IInv, IInv', [Next]_vars, NEW c \in Claims,
             last[c] # Nothing, ruling[c].decision = "allow_with_context",
             last'[c] = [last[c] EXCEPT !.trust = "verified"]
      PROVE  ruling'[c].decision = "allow"
  <2> DEFINE p == claimPolicy[c]
             s == last[c]
             t == last'[c]
  <2>1. /\ p \in ClaimPolicy /\ claimPolicy'[c] = p /\ s \in Submission
    BY <1>1, PoliciesStay DEF IInv, TypeOK
  <2>2. /\ t \in Submission /\ t.source = s.source /\ t.trace = s.trace
        /\ t.citation = s.citation /\ t.human = s.human
        /\ t.trust = "verified"
    BY <1>1, <2>1 DEF Submission, Trusts, TrustRank
  <2>3. t # Nothing
    BY <2>2, NothingAssumption
  <2>4. ruling[c] = AdmitClaim(p, s) /\ ruling'[c] = AdmitClaim(p, t)
    BY <1>1, <2>1, <2>3 DEF IInv, RulingsKept
  <2> HIDE DEF p, s, t
  <2>5. Ruling(p, s) = "allow_with_context" /\ ruling'[c].decision = Ruling(p, t)
    BY <1>1, <2>1, <2>2, <2>4, ClaimRuled
  <2>6. ~BelowMinimum(p, t)
    <3>1. RankOr(p.rule.minimum, 1) \in 0 .. 3
      BY <2>1, TrustRanked DEF ClaimPolicy, EvidenceRule
    <3>2. RankOr(t.trust, 0) = 3
      BY <2>2 DEF RankOr, TrustRank
    <3> QED  BY <3>1, <3>2 DEF BelowMinimum
  <2>7. /\ Disallowed(p, t) <=> Disallowed(p, s)
        /\ Missing(p, t) <=> Missing(p, s)
        /\ Unverified(p, t) <=> Unverified(p, s)
    BY <2>2 DEF Disallowed, Missing, Unverified
  <2> QED  BY <2>5, <2>6, <2>7 DEF Ruling
<1>2. IInv /\ IInv' /\ [Next]_vars =>
        [\A c \in Claims :
           ( /\ last[c] # Nothing
             /\ ruling[c].decision = "allow_with_context"
             /\ last'[c] = [last[c] EXCEPT !.trust = "verified"] )
           => ruling'[c].decision = "allow"]_vars
  BY <1>1
<1> QED  BY <1>2, Inductive, PTL DEF Spec, ProvisionalOnlyForTrust

\* AdmissionNotRevisited, for any policies.
THEOREM NotRevisited == Spec => AdmissionNotRevisited
<1>1. ASSUME IInv, IInv', [Next]_vars, NEW a \in Proposals,
             told[a] # Nothing, told[a].named # {},
             told'[a] # Nothing, told'[a].named # {}
      PROVE  told'[a].artifact = told[a].artifact
  <2>1. /\ told[a].artifact = AdmitAction(actionPolicy[a], told[a].named)
        /\ told'[a].artifact = AdmitAction(actionPolicy'[a], told'[a].named)
        /\ actionPolicy' = actionPolicy
    BY <1>1, PoliciesStay DEF IInv, AnswersKept
  <2> QED  BY <1>1, <2>1 DEF AdmitAction
<1>2. IInv /\ IInv' /\ [Next]_vars =>
        [\A a \in Proposals :
           ( /\ told[a] # Nothing /\ told[a].named # {}
             /\ told'[a] # Nothing /\ told'[a].named # {} )
           => told'[a].artifact = told[a].artifact]_vars
  BY <1>1
<1> QED  BY <1>2, Inductive, PTL DEF Spec, AdmissionNotRevisited
=============================================================================
