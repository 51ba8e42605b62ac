SPECIFICATION Spec
CONSTANTS
  p1 = p1
  Process = {p1}
  Fresh = {}
  MinInterval = 3
  SlotGuard = 1
  WakeJitter = 1
  Ttl = 40
  MaxQueue = 12
  Horizon = 12
  Faults = {"outage"}
INVARIANTS
  BlipKeepsSpacing
