CONSTANTS
  src = src
  src2 = src2
  mid = mid
  snk = snk
  snk2 = snk2
  f1 = f1
  f2 = f2
  f3 = f3
  Blocks = {src, snk}
  Bufs = {f1}
  Ins <- PairIns
  Outs <- PairOuts
  Writer <- PairWriter
  Rdrs <- PairRdrs
  Limit <- PairLimit
  History <- One
  Decimation <- One
  OutputMultiple <- One
  BufSize = 3
  Shirkers = {}
  Throwers = {src, snk}
  MaxMsgs = 2
  StopAllowed = TRUE
SPECIFICATION Spec
INVARIANTS NoSleepOnMessage WakeInv
PROPERTIES Completes FinishedIsFinal
