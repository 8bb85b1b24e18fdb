CONSTANTS
  src = src
  src2 = src2
  mid = mid
  snk = snk
  snk2 = snk2
  f1 = f1
  f2 = f2
  f3 = f3
  Blocks = {src, src2, mid, snk}
  Bufs = {f1, f2, f3}
  Ins <- JoinIns
  Outs <- JoinOuts
  Writer <- JoinWriter
  Rdrs <- JoinRdrs
  Limit <- JoinLimit
  History <- MidTwo
  Decimation <- MidTwo
  OutputMultiple <- SrcTwo
  BufSize = 5
  Shirkers = {mid}
  Throwers = {}
  MaxMsgs = 0
  StopAllowed = FALSE
SPECIFICATION Spec
INVARIANTS PromisesKept NoLostWakeup DoneOnlyWhenFinished TpbInv EndInv
