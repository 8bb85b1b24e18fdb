CONSTANTS
  None = None
  NFrames = 3
  NRIDS = 2
  Width = 8
  MaxCmds = 3
  MaxData = 2
SPECIFICATION Spec
INVARIANTS SleepsOnlyOnFrames CountsKeptFrames LappedOnlyWhenFull SamplesInOrder RepliesMatch Usrp2Inv
PROPERTIES CallsReturn DestructorReturns
CHECK_DEADLOCK FALSE
