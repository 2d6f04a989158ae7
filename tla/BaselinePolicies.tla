-------------------------- MODULE BaselinePolicies --------------------------
(***************************************************************************)
(* The built-in policy pack.  A context is what the pack reads of a tool   *)
(* event: the tool, the program a shell command starts with, the marks the *)
(* regular expressions and substring tests find in its path and command,   *)
(* whether the branch is protected, and whether the output holds a secret. *)
(***************************************************************************)
EXTENDS DecisionABI, Sequences

Tools == {"Bash", "Write", "Read"}

\* Classes of first command tokens.  "rm" mutates files in both of the
\* code's command sets, "sed" only in CONTROL_MUTATING_COMMANDS, "kubectl"
\* stands for the infrastructure tools and gh, "none" for an empty command.
Programs == {"none", "rm", "sed", "sudo", "env", "npm", "kubectl", "psql",
             "other"}

\* Marks a path or a command can carry, and those only a command can carry.
SurfaceMarks == {"evidence_path", "control_path", "secret_path"}
CommandMarks ==
  {"redirect", "operator", "elevated_start", "fetch", "pipe_to_shell",
   "echo_variable", "git_commit", "git_push", "force", "amend",
   "broad_staging", "publish", "global", "mutating_term", "destructive_sql"}

\* The contexts an event can produce: no command, no command marks.
Context ==
  {c \in [tool : Tools, program : Programs,
          marks : SUBSET (SurfaceMarks \cup CommandMarks),
          protectedBranch : BOOLEAN, secretOutput : BOOLEAN] :
     c.program = "none" => c.marks \subseteq SurfaceMarks}

\* What a policy returns when it does not apply (None).
NoVerdict == Artifact("none", "allow", "info")

Verdict(applies, policy, d, s) ==
  IF applies THEN Artifact(policy, d, s) ELSE NoVerdict

Has(c, mark) == mark \in c.marks
Shell(c) == c.tool = "Bash" /\ c.program # "none"

-----------------------------------------------------------------------------

Mutates(c, commands) ==
  c.tool = "Write" \/ c.program \in commands \/ Has(c, "redirect")

AntiTamper(c) ==
  IF Has(c, "evidence_path") /\ Mutates(c, {"rm"})
  THEN Artifact("anti-tamper/block-evidence-mutation", "deny", "critical")
  ELSE Verdict(Has(c, "control_path") /\ Mutates(c, {"rm", "sed"}),
               "anti-tamper/escalate-control-surface-change",
               "escalate", "high")

PrivilegeEscalation(c) ==
  Verdict(Shell(c) /\ (c.program = "sudo" \/ Has(c, "elevated_start")),
          "shell/block-privilege-escalation", "deny", "critical")

DownloadPipeShell(c) ==
  Verdict(Shell(c) /\ Has(c, "fetch") /\ Has(c, "pipe_to_shell"),
          "shell/block-download-pipe-exec", "deny", "critical")

SecretFileAccess(c) ==
  Verdict(Has(c, "secret_path"),
          "secrets/block-secret-file-access", "deny", "critical")

EnvironmentDump(c) ==
  IF Shell(c) /\ c.program = "env"
  THEN Artifact("secrets/block-environment-dump", "deny", "high")
  ELSE Verdict(Shell(c) /\ Has(c, "echo_variable"),
               "secrets/block-env-var-echo", "deny", "high")

RedactSecretOutput(c) ==
  Verdict(c.secretOutput, "secrets/redact-secret-output", "redact", "critical")

GitMutation(c) == Has(c, "git_commit") \/ Has(c, "git_push")

ProtectedBranch(c) ==
  Verdict(Shell(c) /\ c.protectedBranch /\ GitMutation(c),
          "git/block-protected-branch-mutation", "deny", "critical")

ForcePush(c) ==
  Verdict(Shell(c) /\ Has(c, "git_push") /\ Has(c, "force"),
          "git/block-force-push", "deny", "critical")

RiskyHistory(c) ==
  Verdict(Shell(c) /\ (\/ Has(c, "git_commit") /\ Has(c, "amend")
                       \/ Has(c, "broad_staging")),
          "git/instruct-risky-history-or-staging", "instruct", "medium")

PackageChange(c) ==
  IF Shell(c) /\ c.program = "npm" /\ Has(c, "publish")
  THEN Artifact("package/block-publish", "escalate", "critical")
  ELSE Verdict(Shell(c) /\ c.program = "npm" /\ Has(c, "global"),
               "package/instruct-global-install", "instruct", "medium")

InfraMutation(c) ==
  Verdict(Shell(c) /\ c.program = "kubectl" /\ Has(c, "mutating_term"),
          "infra/escalate-mutation", "escalate", "critical")

DestructiveSQL(c) ==
  Verdict(Shell(c) /\ c.program = "psql" /\ Has(c, "destructive_sql"),
          "database/escalate-destructive-sql", "escalate", "critical")

\* A redirection is one of the metacharacters has_shell_injection looks for.
OperatorInjection(c) ==
  Verdict(Shell(c) /\ (Has(c, "operator") \/ Has(c, "redirect")),
          "shell/block-operator-injection", "deny", "high")

-----------------------------------------------------------------------------

\* Mutant of Pack: the Git advice asked before the output is scanned.
Pack_AdviceBeforeRedact(c) ==
  << AntiTamper(c), AntiTamper(c), PrivilegeEscalation(c),
     DownloadPipeShell(c), SecretFileAccess(c), EnvironmentDump(c),
     RiskyHistory(c), ProtectedBranch(c), ForcePush(c),
     RedactSecretOutput(c), PackageChange(c), PackageChange(c),
     InfraMutation(c), DestructiveSQL(c), OperatorInjection(c) >>

\* The pack in its order.  Two functions are registered under two names each.
Pack(c) ==
  << AntiTamper(c), AntiTamper(c), PrivilegeEscalation(c),
     DownloadPipeShell(c), SecretFileAccess(c), EnvironmentDump(c),
     RedactSecretOutput(c), ProtectedBranch(c), ForcePush(c),
     RiskyHistory(c), PackageChange(c), PackageChange(c), InfraMutation(c),
     DestructiveSQL(c), OperatorInjection(c) >>

BaselineAllow == Artifact("core/baseline-allow", "allow", "info")

\* evaluate_baseline: the first verdict of the pack, else the allow artifact.
EvaluateBaseline(c) ==
  LET pack == Pack(c)
      hits == {i \in 1 .. 15 : pack[i] # NoVerdict}
  IN  IF hits = {} THEN BaselineAllow
      ELSE pack[CHOOSE i \in hits : \A j \in hits : i <= j]
=============================================================================
