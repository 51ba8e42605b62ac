SPECIFICATION WalkSpec
CONSTANTS
  NumCategories = 1
  PageSize = 2
  MaxPages = 2
  MaxFetches = 2
  Invalid = {}
  Unparseable = {}
  MaxMembers = 6
  MaxBurst = 1
  MaxFaults = 0
  Faults = {}
INVARIANTS
  GapsVisible
PROPERTIES
  EventuallyProduced
