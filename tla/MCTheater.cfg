\* Theater bookings: two clients, redeliveries, refunds and cached pages.
CONSTANTS
  r1 = r1
  r2 = r2
  r3 = r3
  r4 = r4
  s1 = s1
  s2 = s2
  s3 = s3
  f1 = f1
  f2 = f2
  a1 = a1
  Nobody = Nobody
  Refs = {r1, r2, r3, r4}
  Seats = {s1, s2, s3}
  Hall = {s1, s2}
  Requests <- AnyAsk
  RefundIds = {f1, f2}
  Readers = {a1}
  Faults <- AllFaults
  Pollers = {r3}
  MaxReceive = 2
  GroupOf <- OwnGroup
SPECIFICATION SpecCasts
SYMMETRY Symmetry
INVARIANTS RemainExact AnswerIsHonest StaleIsOwing UnknownIsHandled
PROPERTIES ImplementsLedger
\* Every request may be answered and nothing left to do.
CHECK_DEADLOCK FALSE
