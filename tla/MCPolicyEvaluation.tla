------------------------ MODULE MCPolicyEvaluation ------------------------
(* PolicyEvaluation on the contexts that carry at most MaxMarks marks.     *)
EXTENDS PolicyEvaluation, FiniteSetsExt

CONSTANT MaxMarks

FewMarks ==
  UNION {kSubset(n, SurfaceMarks \cup CommandMarks) : n \in 0 .. MaxMarks}

MCContexts ==
  {c \in [tool : Tools, program : Programs, marks : FewMarks,
          protectedBranch : BOOLEAN, secretOutput : BOOLEAN] :
     c.program = "none" => c.marks \subseteq SurfaceMarks}
===========================================================================
