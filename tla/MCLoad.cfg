\* Load tests of a show with two seats.
CONSTANTS
  u1 = u1
  u2 = u2
  u3 = u3
  p1 = p1
  p2 = p2
  v1 = v1
  v2 = v2
  s1 = s1
  s2 = s2
  Nobody = Nobody
  Script = Script
  Operator = Operator
  Watcher = Watcher
  Clients = {u1, u2, u3, p1, p2, v1, v2}
  Bursters = {u1, u2, u3}
  Phased = {p1, p2}
  Buyers = {v1, v2}
  Place <- InOrder
  Seats = {s1, s2}
  SeatFor <- Wish
  FreeSeats <- Free
  Tickets = 2
  MaxPlaces = 2
  MaxTries = 2
  Retries = 1
  Patience = 6
  Concurrency = 2
  Second = 2
  MaxTime = 6
  DefaultRate = 1
  AutoMin = 1
  AutoMax = 2
  AutoDrain = 2
  BypassRps = 0
  BypassBacklog = 0
  QueueOnRps = 1
  QueueOnBacklog = 2
  RushRps = 2
  SurgeRps = 3
  RpsSamples = {0, 2, 3}
  AdmitRate = 1
  DrainRate = 2
  OperatorRates = {0, 2}
  ObservedRates = {1, 3}
  MaxOrders = 1
SPECIFICATION SpecCasts
INVARIANTS AdmissionIsPaced TurnIsKept AcceptedIsHeld HoldIsKnown TakenIsOwn TallyAddsUp RoomIsHandedBack
PROPERTIES ScriptEnds
CHECK_DEADLOCK FALSE
