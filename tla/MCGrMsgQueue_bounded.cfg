CONSTANTS
  Producers = {p1, p2, p3}
  Consumers = {c1, c2}
  Msgs = {m1, m2, m3}
  Null = Null
  d_limit = 2
  MaxInserts = 4
  Reinsert = FALSE
SPECIFICATION Spec
INVARIANTS QueueIsList Bounded NoLostNotify QueueInv
PROPERTIES InsertsProgress
