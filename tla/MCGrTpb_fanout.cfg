CONSTANTS
  src = src
  src2 = src2
  mid = mid
  snk = snk
  snk2 = snk2
  f1 = f1
  f2 = f2
  f3 = f3
  Blocks = {src, mid, snk, snk2}
  Bufs = {f1, f2}
  Ins <- FanIns
  Outs <- FanOuts
  Writer <- FanWriter
  Rdrs <- FanRdrs
  Limit <- FanLimit
  History <- One
  Decimation <- One
  OutputMultiple <- One
  BufSize = 3
  Shirkers = {}
  Throwers = {}
  MaxMsgs = 0
  StopAllowed = FALSE
SPECIFICATION Spec
INVARIANT DoneOnlyWhenFinished
