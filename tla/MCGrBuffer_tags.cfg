CONSTANTS
  r1 = r1
  r2 = r2
  Readers = {r2}
  InitReaders = {r2}
  BufSize = 5
  Preload <- MCPreload
  OutputMultiple = 1
  MaxItems = 8
  TagOffsets = {0, 1, 3, 5}
  KeepsHistory = TRUE
  CallsProduce = FALSE
  Reconfigure = FALSE
SPECIFICATION Spec
INVARIANTS TagsDelivered TagInv
