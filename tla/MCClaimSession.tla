--------------------------- MODULE MCClaimSession ---------------------------
(* ClaimSession with one claim under every policy, a second one to name    *)
(* beside it, and one proposal.                                            *)
EXTENDS ClaimSession

CONSTANTS c1, c2, a1

\* The defaults, and two policies of one's own: a minimum only verified
\* sources reach, and an unknown minimum with more sources disallowed.
MCPolicies ==
  DefaultClaimPolicies \cup
  {[class |-> "technical_document", gates |-> {},
    rule |-> [Rule(FALSE, FALSE, "verified") EXCEPT !.trace = FALSE]],
   [class |-> "runtime_action",
    gates |-> {[claims |-> {"world_gaia"}, actions |-> ActionClasses]},
    rule |-> [Rule(FALSE, FALSE, "unknown")
                EXCEPT !.disallowed = @ \cup {"human_authored"}]]}

SecondPolicy ==
  CHOOSE p \in DefaultClaimPolicies : p.class = "technical_document"

MCClaimPolicies ==
  {[c \in Claims |-> IF c = c1 THEN p ELSE SecondPolicy] : p \in MCPolicies}

MCActionPolicies ==
  [Proposals ->
     {p \in DefaultActionPolicies :
        p.class \in {"execute_ingest_fusion", "publish_gaia_manifest"}} \cup
     {[class |-> "execute_ingest_fusion", gates |-> {}, needsClaims |-> FALSE]}]

\* What a person wrote, with any evidence, and raw candidates with all of it
\* but for the verification; the second claim complete, or raw.
MCSubmissions ==
  [c \in Claims |->
     {s \in Submission :
        \/ /\ c = c1 /\ s.source = "human_authored"
           /\ s.trust \in {"unknown", "medium", "verified"}
        \/ /\ s.source \in {"human_authored", "model_output"}
           /\ s.trace /\ s.citation /\ s.trust = "medium"
           /\ c = c2 => ~s.human}]
=============================================================================
