SPECIFICATION Spec
CONSTANTS
  r1 = r1
  r2 = r2
  Request = {r1, r2}
  Threads = 2
  MaxVersion = 2
  MaxQueue = 2
  MaxFaults = 0
INVARIANTS
  SettledDesign
