CONSTANTS
  c1 = c1
  c2 = c2
  Null = Null
  Callers = {c1, c2}
  Calls <- OneOwner
  MaxGenerations = 3
  MaxLocks = 2
  Finite = TRUE
SPECIFICATION Spec
INVARIANTS NoThreadsWhileRewiring IdleMeansStopped WaitMeansComplete TopBlockInv
PROPERTIES CallsReturn
