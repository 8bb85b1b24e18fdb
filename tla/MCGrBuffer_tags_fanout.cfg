CONSTANTS
  r1 = r1
  r2 = r2
  Readers = {r1, r2}
  InitReaders = {r1, r2}
  BufSize = 4
  Preload <- MCPreload
  OutputMultiple = 1
  MaxItems = 4
  TagOffsets = {0, 1, 3}
  KeepsHistory = TRUE
  CallsProduce = FALSE
  Reconfigure = FALSE
SPECIFICATION Spec
INVARIANT TagsDelivered
