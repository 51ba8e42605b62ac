SPECIFICATION Spec
CONSTANTS
  NumCategories = 1
  PageSize = 1
  MaxPages = 2
  MaxFetches = 1
  Invalid = {}
  Unparseable = {}
  MaxMembers = 2
  MaxBurst = 0
  MaxFaults = 1
  Faults = {"crash"}
INVARIANTS
  GapsVisible
