--------------------------- MODULE MCHookAdapter ---------------------------
(* HookAdapter on a choice of payloads around the limit and of contexts.   *)
EXTENDS HookAdapter

Plain(program, marks) ==
  [tool |-> "Bash", program |-> program, marks |-> marks,
   protectedBranch |-> FALSE, secretOutput |-> FALSE]

\* Allowed, advised on, denied with a secret in the output, redacted, and a
\* commit on a protected branch.
MCContexts ==
  {Plain("other", {}), Plain("other", {"broad_staging"}),
   [Plain("sudo", {}) EXCEPT !.secretOutput = TRUE],
   [Plain("other", {}) EXCEPT !.secretOutput = TRUE],
   [Plain("other", {"git_commit"}) EXCEPT !.protectedBranch = TRUE]}

Started(form, size, ctx, event) ==
  [form |-> form, size |-> size, event |-> event, ctx |-> ctx,
   policyError |-> FALSE, writeLog |-> TRUE, debug |-> FALSE,
   bulky |-> FALSE]

Benign == Plain("other", {})
Denied == Plain("sudo", {})

MCInvocations ==
  {Started("event", Limit, c, "PreToolUse") : c \in MCContexts} \cup
  {Started("event", Limit + 1, Benign, "PostToolUse"),
   Started("event", Limit, Denied, "PostToolUse"),
   Started("empty", 0, Benign, "PreToolUse"),
   Started("bad_json", 1, Benign, "PreToolUse"),
   Started("bad_utf8", 1, Benign, "PreToolUse"),
   Started("not_object", 1, Benign, "PreToolUse"),
   Started("bad_utf8", Limit + 2, Benign, "PreToolUse"),
   [Started("event", 1, Benign, "PreToolUse") EXCEPT !.policyError = TRUE],
   [Started("event", 1, Denied, "PreToolUse") EXCEPT !.writeLog = FALSE],
   [Started("event", 1, Denied, "PreToolUse") EXCEPT !.debug = TRUE],
   [Started("event", 1, Benign, "PreToolUse") EXCEPT !.bulky = TRUE],
   [Started("event", 1, Denied, "PreToolUse") EXCEPT !.bulky = TRUE]}

============================================================================
