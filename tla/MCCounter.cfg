\* Requests for a seat each, no failure.
CONSTANTS
  r1 = r1
  r2 = r2
  s1 = s1
  s2 = s2
  Nobody = Nobody
  Confirmed = Confirmed
  Refs = {r1, r2}
  Seats = {s1, s2}
  Invalid = {s2}
  Total = 3
  Requests <- AnySeat
  HoldTTL = TRUE
  Faults = {}
  MaxReceive = 2
  ShardOf <- OneShard
  Refundable = {}
SPECIFICATION FairSpec
INVARIANTS NoOrphanHold ConfirmedIsSold RemainSettles RemainNotOver
PROPERTIES HoldResolved
\* Every request may be answered and nothing left to do.
CHECK_DEADLOCK FALSE
