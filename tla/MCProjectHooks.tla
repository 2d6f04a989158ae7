--------------------------- MODULE MCProjectHooks ---------------------------
(* ProjectHooks with a few requests and the files they may find.           *)
EXTENDS ProjectHooks

CONSTANTS m1, m2, c1, c2, t1, t2

Asked(command, matcher) ==
  [events |-> Events, matcher |-> matcher, command |-> command,
   timeout |-> t1, dryRun |-> FALSE, replace |-> FALSE]

\* The default request, other commands, matchers and events, a refresh with
\* another timeout, a dry run, and events that are not supported.
MCRequests ==
  {Asked(c1, m1), Asked(c2, m1), Asked(c1, m2),
   [Asked(c1, m1) EXCEPT !.events = {"PreToolUse"}],
   [Asked(c1, m1) EXCEPT !.timeout = t2, !.replace = TRUE],
   [Asked(c2, m2) EXCEPT !.dryRun = TRUE],
   [Asked(c1, m1) EXCEPT !.events = {"PreToolUse", "Other"}]}

Item1(c) == [command |-> c, timeout |-> t1]
Given(pre, post) ==
  [kind |-> "settings",
   hooks |-> [e \in Events |-> IF e = "PreToolUse" THEN pre ELSE post]]

MCGivens ==
  {[kind |-> "absent", hooks |-> NoHooks],
   [kind |-> "refused", hooks |-> NoHooks],
   Given(<<[matcher |-> m1, items |-> <<Item1(c2)>>]>>, <<>>),
   Given(<<[matcher |-> m2, items |-> <<>>],
           [matcher |-> m1, items |-> <<Item1(c1), Item1(c2)>>]>>,
         <<[matcher |-> m1, items |-> <<Item1(c1)>>]>>),
   Given(<<[matcher |-> m1, items |-> <<Item1(c2)>>],
           [matcher |-> m1, items |-> <<Item1(c1)>>]>>, <<>>)}
=============================================================================
