\* Deliveries of one message that overlap.
CONSTANTS
  r1 = r1
  r2 = r2
  s1 = s1
  s2 = s2
  Nobody = Nobody
  Confirmed = Confirmed
  Refs = {r1, r2}
  Seats = {s1, s2}
  Invalid = {}
  Total = 3
  Requests <- Mixed
  HoldTTL = TRUE
  Faults = {"slow", "delete"}
  MaxReceive = 2
  ShardOf <- OneShard
  Refundable = {}
SPECIFICATION Spec
SYMMETRY Symmetry
INVARIANTS FailureIsHonest HoldWins
PROPERTIES OkIsKept SoldKeepsItsKey
\* Every request may be answered and nothing left to do.
CHECK_DEADLOCK FALSE
