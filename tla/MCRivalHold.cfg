\* Two deliveries of one message that both fail, and a rival for the seat.
CONSTANTS
  r1 = r1
  r2 = r2
  s1 = s1
  s2 = s2
  Nobody = Nobody
  Confirmed = Confirmed
  Refs = {r1, r2}
  Seats = {s1, s2}
  Invalid = {}
  Total = 2
  Requests <- OneSeat
  HoldTTL = TRUE
  Faults = {"slow", "db"}
  MaxReceive = 2
  ShardOf <- OneShard
  Refundable = {}
SPECIFICATION Spec
SYMMETRY Symmetry
PROPERTIES OwnHoldsOnly
\* Every request may be answered and nothing left to do.
CHECK_DEADLOCK FALSE
