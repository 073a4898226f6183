\* The pages and counters of a show with two seats.
CONSTANTS
  t1 = t1
  t2 = t2
  t3 = t3
  s1 = s1
  s2 = s2
  x1 = x1
  x2 = x2
  w1 = w1
  w2 = w2
  startup = startup
  operator = operator
  Nobody = Nobody
  Sold = Sold
  Tickets = {t1, t2, t3}
  Seats = {s1, s2}
  SeatOf <- SeatFor
  Total = 2
  Readers = {x1, x2}
  Syncers = {w1, w2}
SPECIFICATION SpecCasts
INVARIANTS BookedIsShown TakenIsShown SnapshotIsOwed MarkIsKept
PROPERTIES RemainSettles
\* Requests end, and a loop may be all that is left.
CHECK_DEADLOCK FALSE
