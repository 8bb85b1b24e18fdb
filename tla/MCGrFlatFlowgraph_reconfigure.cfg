CONSTANTS
  Null = Null
  Blocks <- Blks
  Hiers <- HierBlks
  Top <- top
  MinIn <- Ins
  MaxIn <- MostIns
  MinOut <- LeastOuts
  MaxOut <- Outs
  InSize <- Sizes
  OutSize <- Sizes
  check_topology <- Topology
  Candidates <- Edits
  Wired <- ThroughC
  Singletons <- Singles
  BaseItems = 4
  InNeed <- Needs
  OutNeed <- Twos
  MaxStarts = 1
  MaxConfigs = 3
  MaxRewires = 5
SPECIFICATION Spec
INVARIANTS FlatIsWiring PartsSorted ScheduledInOrder ReadersMatchEdges NoStrayReader BuffersFit FlatInv
CHECK_DEADLOCK FALSE
