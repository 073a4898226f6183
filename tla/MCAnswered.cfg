\* A request refused after taking a seat, failing deliveries, dying pods: progress,
\* and keys that are read, deleted later, and taken by a rival at once.
CONSTANTS
  r1 = r1
  r2 = r2
  s1 = s1
  s2 = s2
  Nobody = Nobody
  Confirmed = Confirmed
  Refs = {r1, r2}
  Seats = {s1, s2}
  Invalid = {}
  Total = 3
  Requests <- Mixed
  HoldTTL = TRUE
  Faults = {"db", "crash", "delete"}
  MaxReceive = 2
  ShardOf <- OneShard
  Refundable = {}
SPECIFICATION SpecRivals
PROPERTIES  OwnHoldsOnly
\* Every request may be answered and nothing left to do.
CHECK_DEADLOCK FALSE
