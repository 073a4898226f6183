\* Two deliveries of one message, one of which fails.
CONSTANTS
  r1 = r1
  r2 = r2
  s1 = s1
  s2 = s2
  Nobody = Nobody
  Confirmed = Confirmed
  Refs = {r1, r2}
  Seats = {s1, s2}
  Invalid = {}
  Total = 1
  Requests <- OneSeat
  HoldTTL = TRUE
  Faults = {"slow", "db"}
  MaxReceive = 2
  ShardOf <- OneShard
  Refundable = {}
SPECIFICATION Spec
SYMMETRY Symmetry
PROPERTIES OkIsKept
\* Every request may be answered and nothing left to do.
CHECK_DEADLOCK FALSE
