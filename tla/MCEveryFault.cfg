\* One request, and every failure but a slow handler.
CONSTANTS
  r1 = r1
  r2 = r2
  s1 = s1
  s2 = s2
  Nobody = Nobody
  Confirmed = Confirmed
  Refs = {r1}
  Seats = {s1, s2}
  Invalid = {s2}
  Total = 1
  Requests <- AnyAsk
  HoldTTL = TRUE
  Faults = {"redis", "db", "commit", "send", "crash", "delete", "expiry"}
  MaxReceive = 1
  ShardOf <- OneShard
  Refundable = {r1}
SPECIFICATION Spec
INVARIANTS TypeOK NothingLost
\* Every request may be answered and nothing left to do.
CHECK_DEADLOCK FALSE
