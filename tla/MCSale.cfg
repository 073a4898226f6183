\* The worker: overlapping deliveries, COMMITs whose answer is lost, a refund.
CONSTANTS
  r1 = r1
  r2 = r2
  s1 = s1
  s2 = s2
  Nobody = Nobody
  Confirmed = Confirmed
  Refs = {r1, r2}
  Seats = {s1, s2}
  Invalid = {}
  Total = 1
  Requests <- UnheldMixed
  HoldTTL = TRUE
  Faults = {"slow", "commit"}
  MaxReceive = 2
  ShardOf <- TwoShards
  Refundable = {r1}
SPECIFICATION SpecQueued
INVARIANTS BookedWhole OkIsBooked
PROPERTIES CancelIsFinal ImplementsSale
\* Every request may be answered and nothing left to do.
CHECK_DEADLOCK FALSE
