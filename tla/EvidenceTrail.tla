--------------------------- MODULE EvidenceTrail ---------------------------
(***************************************************************************)
(* What the hook adapter promises its host: an audited hook is answered    *)
(* only after its decision is in the trail, the answer blocks exactly when *)
(* the recorded decision stops the agent, and records are only added, one  *)
(* per hook.                                                               *)
(***************************************************************************)
EXTENDS DecisionABI

CONSTANTS
  Hooks,      \* the invocations of the hook
  Artifacts,  \* the decisions a record can hold
  Answers,    \* what the host can be told
  Untold      \* no answer yet

VARIABLES
  audited,    \* the hooks started with a decision log
  trail,      \* the records made so far
  told        \* what each hook told its host

trailVars == <<audited, trail, told>>

Blocks(answer) == answer.verdict \in {"deny", "block"}

\* The answer does what the artifact says (a debug answer is the artifact).
Honours(answer, artifact) ==
  \/ answer.verdict = "artifact"
  \/ Blocks(answer) <=> ~artifact.effects.agentMayContinue

TrailInit ==
  /\ audited \subseteq Hooks
  /\ trail = {}
  /\ told = [h \in Hooks |-> Untold]

Record(h, artifact) ==
  /\ h \in audited
  /\ told[h] = Untold
  /\ \A r \in trail : r.by # h
  /\ trail' = trail \cup {[by |-> h, artifact |-> artifact]}
  /\ UNCHANGED <<audited, told>>

Tell(h, answer) ==
  /\ told[h] = Untold
  /\ h \in audited =>
       \E r \in trail : r.by = h /\ Honours(answer, r.artifact)
  /\ told' = [told EXCEPT ![h] = answer]
  /\ UNCHANGED <<audited, trail>>

TrailNext ==
  \E h \in Hooks :
    \/ \E artifact \in Artifacts : Record(h, artifact)
    \/ \E answer \in Answers : Tell(h, answer)

TrailSpec == TrailInit /\ [][TrailNext]_trailVars
=============================================================================
