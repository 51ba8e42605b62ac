SPECIFICATION Spec
CONSTANTS
  p1 = p1
  a1 = a1
  Process = {p1, a1}
  Fresh = {a1}
  MinInterval = 2
  SlotGuard = 1
  WakeJitter = 1
  Ttl = 6
  MaxQueue = 3
  Horizon = 6
  Faults = {"outage", "lostReply", "restart", "expiry"}
INVARIANTS
  TypeOK
  SpacedSends
  ReservationsDistinct
  FallbackSpaced
CHECK_DEADLOCK FALSE
