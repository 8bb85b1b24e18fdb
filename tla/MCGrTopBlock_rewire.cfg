CONSTANTS
  c1 = c1
  c2 = c2
  Null = Null
  Callers = {c1, c2}
  Calls <- Reconfigured
  MaxGenerations = 3
  MaxLocks = 2
  Finite = FALSE
SPECIFICATION Spec
INVARIANT NoThreadsWhileRewiring
