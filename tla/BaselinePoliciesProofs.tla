----------------------- MODULE BaselinePoliciesProofs -----------------------
(***************************************************************************)
(* Lemmas about artifacts and the policy pack, for every event.            *)
(***************************************************************************)
EXTENDS BaselinePolicies, OrderLemmas, TLAPS

Stops(a) == ~a.effects.agentMayContinue

\* The effects of an artifact are those of its decision.
Sound(a) == a.decision \in Decision /\ a.effects = DefaultEffects(a.decision)

\* What an artifact says follows from its decision alone.
LEMMA ArtifactSays ==
  ASSUME NEW p, NEW d, NEW s
  PROVE  /\ Stops(Artifact(p, d, s)) <=> d \in Stopping
         /\ Artifact(p, d, s).effects.redacted <=> d = "redact"
         /\ Artifact(p, d, s).decision = d
         /\ d \in Decision => Sound(Artifact(p, d, s))
         /\ d # "allow" => Artifact(p, d, s) # NoVerdict
  BY DEF Artifact, DefaultEffects, Stops, Sound, NoVerdict

\* A sound artifact stops the agent exactly when its decision does.
LEMMA SoundStops ==
  ASSUME NEW a, Sound(a)
  PROVE  a.effects.agentMayContinue <=> a.decision \notin Stopping
<1>1. DefaultEffects(a.decision).agentMayContinue <=> a.decision \notin Stopping
  BY DEF DefaultEffects
<1> QED  BY <1>1 DEF Sound

\* No verdict lets the agent go on.
LEMMA NoVerdictContinues == ~Stops(NoVerdict)
  BY ArtifactSays DEF NoVerdict, Stopping

\* The six leading policies stop the event whenever they speak.
LEMMA LeadingStop ==
  ASSUME NEW c, NEW i \in 1 .. 6, Pack(c)[i] # NoVerdict
  PROVE  Stops(Pack(c)[i])
<1> USE ArtifactSays DEF Stopping, Verdict
<1>1. AntiTamper(c) # NoVerdict => Stops(AntiTamper(c))
  BY DEF AntiTamper
<1>2. PrivilegeEscalation(c) # NoVerdict => Stops(PrivilegeEscalation(c))
  BY DEF PrivilegeEscalation
<1>3. DownloadPipeShell(c) # NoVerdict => Stops(DownloadPipeShell(c))
  BY DEF DownloadPipeShell
<1>4. SecretFileAccess(c) # NoVerdict => Stops(SecretFileAccess(c))
  BY DEF SecretFileAccess
<1>5. EnvironmentDump(c) # NoVerdict => Stops(EnvironmentDump(c))
  BY DEF EnvironmentDump
<1> HIDE ArtifactSays DEF Stopping, Verdict
<1> QED  BY <1>1, <1>2, <1>3, <1>4, <1>5 DEF Pack

\* A verdict of the pack that lets the agent go on is advice, or the
\* redaction of an output that holds a secret.
LEMMA ContinuingVerdicts ==
  ASSUME NEW c, NEW i \in 1 .. 15, Pack(c)[i] # NoVerdict, ~Stops(Pack(c)[i])
  PROVE  Pack(c)[i].decision = "instruct" \/ c.secretOutput
<1> DEFINE Fine(v) == v = NoVerdict \/ Stops(v) \/ v.decision = "instruct"
<1>1. \A j \in 1 .. 6 : Fine(Pack(c)[j])
  BY LeadingStop
<1> USE ArtifactSays DEF Stopping, Verdict
<1>2. Fine(ProtectedBranch(c))
  BY DEF ProtectedBranch
<1>3. Fine(ForcePush(c))
  BY DEF ForcePush
<1>4. Fine(RiskyHistory(c))
  BY DEF RiskyHistory
<1>5. Fine(PackageChange(c))
  BY DEF PackageChange
<1>6. Fine(InfraMutation(c))
  BY DEF InfraMutation
<1>7. Fine(DestructiveSQL(c))
  BY DEF DestructiveSQL
<1>8. Fine(OperatorInjection(c))
  BY DEF OperatorInjection
<1>9. ~c.secretOutput => Fine(RedactSecretOutput(c))
  BY DEF RedactSecretOutput
<1> HIDE ArtifactSays DEF Stopping, Verdict, Fine
<1>10. ~c.secretOutput => \A j \in 7 .. 15 : Fine(Pack(c)[j])
  BY <1>2, <1>3, <1>4, <1>5, <1>6, <1>7, <1>8, <1>9 DEF Pack
<1>11. ~c.secretOutput => Fine(Pack(c)[i])
  BY <1>1, <1>10
<1> QED  BY <1>11 DEF Fine

\* Every verdict of the pack is a sound artifact.
LEMMA PackSound ==
  ASSUME NEW c, NEW i \in 1 .. 15
  PROVE  Sound(Pack(c)[i])
<1> USE ArtifactSays DEF Decision, Verdict, NoVerdict
<1>1. Sound(AntiTamper(c)) /\ Sound(PrivilegeEscalation(c))
  BY DEF AntiTamper, PrivilegeEscalation
<1>2. Sound(DownloadPipeShell(c)) /\ Sound(SecretFileAccess(c))
  BY DEF DownloadPipeShell, SecretFileAccess
<1>3. Sound(EnvironmentDump(c)) /\ Sound(RedactSecretOutput(c))
  BY DEF EnvironmentDump, RedactSecretOutput
<1>4. Sound(ProtectedBranch(c)) /\ Sound(ForcePush(c))
  BY DEF ProtectedBranch, ForcePush
<1>5. Sound(RiskyHistory(c)) /\ Sound(PackageChange(c))
  BY DEF RiskyHistory, PackageChange
<1>6. Sound(InfraMutation(c)) /\ Sound(DestructiveSQL(c))
  BY DEF InfraMutation, DestructiveSQL
<1>7. Sound(OperatorInjection(c))
  BY DEF OperatorInjection
<1> HIDE ArtifactSays DEF Decision, Verdict, NoVerdict
<1> QED  BY <1>1, <1>2, <1>3, <1>4, <1>5, <1>6, <1>7 DEF Pack

\* The decision of the pack is a sound artifact.
LEMMA BaselineSound ==
  ASSUME NEW c
  PROVE  Sound(EvaluateBaseline(c))
<1> DEFINE hits == {i \in 1 .. 15 : Pack(c)[i] # NoVerdict}
<1>1. CASE hits = {}
  <2>1. Sound(BaselineAllow)
    BY ArtifactSays DEF BaselineAllow, Decision
  <2> QED  BY <1>1, <2>1 DEF EvaluateBaseline
<1>2. CASE hits # {}
  <2>1. \E i \in hits : \A j \in hits : i <= j
    BY <1>2, LeastNat
  <2>2. (CHOOSE i \in hits : \A j \in hits : i <= j) \in 1 .. 15
    BY <2>1
  <2>3. EvaluateBaseline(c) = Pack(c)[CHOOSE i \in hits : \A j \in hits : i <= j]
    BY <1>2 DEF EvaluateBaseline
  <2> QED  BY <2>2, <2>3, PackSound
<1> QED  BY <1>1, <1>2
\* Every verdict of the pack says something else than to allow the event.
LEMMA VerdictsSpeak ==
  ASSUME NEW c, NEW i \in 1 .. 15, Pack(c)[i] # NoVerdict
  PROVE  Pack(c)[i].decision # "allow"
<1> DEFINE Speaks(v) == v = NoVerdict \/ v.decision # "allow"
<1> USE ArtifactSays DEF Verdict
<1>1. Speaks(AntiTamper(c)) /\ Speaks(PrivilegeEscalation(c))
  BY DEF AntiTamper, PrivilegeEscalation
<1>2. Speaks(DownloadPipeShell(c)) /\ Speaks(SecretFileAccess(c))
  BY DEF DownloadPipeShell, SecretFileAccess
<1>3. Speaks(EnvironmentDump(c)) /\ Speaks(RedactSecretOutput(c))
  BY DEF EnvironmentDump, RedactSecretOutput
<1>4. Speaks(ProtectedBranch(c)) /\ Speaks(ForcePush(c))
  BY DEF ProtectedBranch, ForcePush
<1>5. Speaks(RiskyHistory(c)) /\ Speaks(PackageChange(c))
  BY DEF RiskyHistory, PackageChange
<1>6. Speaks(InfraMutation(c)) /\ Speaks(DestructiveSQL(c))
  BY DEF InfraMutation, DestructiveSQL
<1>7. Speaks(OperatorInjection(c))
  BY DEF OperatorInjection
<1> HIDE ArtifactSays DEF Verdict, Speaks
<1>8. Speaks(Pack(c)[i])
  BY <1>1, <1>2, <1>3, <1>4, <1>5, <1>6, <1>7 DEF Pack
<1> QED  BY <1>8 DEF Speaks

\* When a policy of the pack speaks, the ruling is the verdict of that policy
\* or of an earlier one.
LEMMA EarliestRules ==
  ASSUME NEW c, NEW i \in 1 .. 15, Pack(c)[i] # NoVerdict
  PROVE  \E m \in 1 .. i : /\ Pack(c)[m] # NoVerdict
                           /\ EvaluateBaseline(c) = Pack(c)[m]
<1> DEFINE hits == {j \in 1 .. 15 : Pack(c)[j] # NoVerdict}
           m == CHOOSE k \in hits : \A j \in hits : k <= j
<1>1. i \in hits /\ hits \subseteq Nat
  OBVIOUS
<1>2. \E k \in hits : \A j \in hits : k <= j
  BY <1>1, LeastNat
<1>3. m \in hits /\ \A j \in hits : m <= j
  BY <1>2
<1>4. EvaluateBaseline(c) = Pack(c)[m]
  BY <1>1 DEF EvaluateBaseline
<1> HIDE DEF m
<1>5. m \in 1 .. i /\ Pack(c)[m] # NoVerdict
  BY <1>1, <1>3
<1> QED  BY <1>4, <1>5
=============================================================================
