CONSTANTS
  Hooks = {h1}
  Invocations <- MCInvocations
  Limit = 2
SPECIFICATION Spec
INVARIANT InvalidPayloadsFailClosed
