CONSTANTS
  r1 = r1
  r2 = r2
  Readers = {r1, r2}
  InitReaders = {r1}
  BufSize = 4
  Preload <- MCPreload
  OutputMultiple = 1
  MaxItems = 5
  TagOffsets = {}
  KeepsHistory = FALSE
  CallsProduce = TRUE
  Reconfigure = TRUE
SPECIFICATION Spec
INVARIANTS NoDataRace ReadsInOrder BufferInv
PROPERTY ImplementsFifo
