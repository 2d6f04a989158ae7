CONSTANTS
  m1 = m1
  m2 = m2
  c1 = c1
  c2 = c2
  t1 = t1
  t2 = t2
  Installers = {p1}
  Requests <- MCRequests
  Matchers = {m1, m2}
  Commands = {c1, c2}
  Timeouts = {t1, t2}
  Givens <- MCGivens
SPECIFICATION Spec
INVARIANT DeduplicatesHooks
CHECK_DEADLOCK FALSE
