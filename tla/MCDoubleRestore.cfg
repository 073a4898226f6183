\* The counter after a request that got one seat of two.
CONSTANTS
  r1 = r1
  r2 = r2
  s1 = s1
  s2 = s2
  Nobody = Nobody
  Confirmed = Confirmed
  Refs = {r1, r2}
  Seats = {s1, s2}
  Invalid = {}
  Total = 3
  Requests <- Mixed
  HoldTTL = TRUE
  Faults = {}
  MaxReceive = 1
  ShardOf <- OneShard
  Refundable = {}
SPECIFICATION Spec
SYMMETRY Symmetry
INVARIANTS RemainNotOver
\* Every request may be answered and nothing left to do.
CHECK_DEADLOCK FALSE
