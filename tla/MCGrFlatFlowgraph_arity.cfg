CONSTANTS
  Null = Null
  Blocks <- Blks
  Hiers <- HierBlks
  Top <- top
  MinIn <- Ins
  MaxIn <- MostIns
  MinOut <- LeastOuts
  MaxOut <- Outs
  InSize <- Sizes
  OutSize <- Sizes
  check_topology <- Topology
  Candidates <- SecondInput
  Wired <- Adder
  Singletons <- NoSingles
  BaseItems = 4
  InNeed <- Needs
  OutNeed <- Twos
  MaxStarts = 1
  MaxConfigs = 3
  MaxRewires = 3
SPECIFICATION Spec
INVARIANT InputsAllRead
CHECK_DEADLOCK FALSE
